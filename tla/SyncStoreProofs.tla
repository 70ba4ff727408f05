--------------------------- MODULE SyncStoreProofs ---------------------------
(***************************************************************************)
(* Theorems about SyncStore, for every set of projects, files, transfers,   *)
(* revisions and reporters and every value of the limits: its tables are    *)
(* well typed, a published file keeps a head, a project that is ready has   *)
(* what all of its reporters have, and the store implements SyncHistory.    *)
(***************************************************************************)
EXTENDS SyncStore, FiniteSetTheorems, TLAPS

(***************************************************************************)
(* Tables                                                                   *)
(***************************************************************************)

\* INSERT OR REPLACE keeps the other rows and adds at most one key.
LEMMA PutTable ==
    ASSUME NEW D, NEW T, NEW f \in [D -> T], NEW k, NEW v \in T
    PROVE  /\ Put(f, k, v) \in [D \cup {k} -> T]
           /\ DOMAIN Put(f, k, v) = D \cup {k}
           /\ Put(f, k, v)[k] = v
           /\ \A x \in D : x # k => Put(f, k, v)[x] = f[x]
BY DEF Put

\* DELETE keeps the rows it does not name.
LEMMA WithoutTable ==
    ASSUME NEW D, NEW T, NEW f \in [D -> T], NEW K
    PROVE  /\ Without(f, K) \in [D \ K -> T]
           /\ DOMAIN Without(f, K) = D \ K
           /\ \A x \in D \ K : Without(f, K)[x] = f[x]
BY DEF Without

\* The limits are natural numbers, and declared sizes do not exceed MaxFile.
LEMMA Bounds ==
    /\ MaxFile \in Nat /\ MaxChunk \in Nat /\ MaxTenant \in Nat
    /\ MaxActive \in Nat /\ MaxReserved \in Nat
    /\ \A s \in Stamp : s.size \in 0..MaxFile /\ s.sha256 \in Content
BY BoundsAssumption, StampAssumption

\* A block is a nonempty sequence of bytes.
LEMMA BlockLength == \A data \in Block : Len(data) \in 1..MaxChunk
<1> SUFFICES ASSUME NEW data \in Block PROVE Len(data) \in 1..MaxChunk
  OBVIOUS
<1>1. PICK n \in 1..MaxChunk : data \in [1..n -> Byte]
  BY DEF Block
<1>2. Len(data) = n
  BY <1>1, Bounds
<1> QED BY <1>2

\* A tombstone is not a receiving transfer, so a receiving row is a full row.
LEMMA ReceivingRow ==
    ASSUME TypeOK, NEW u \in Receiving
    PROVE  /\ u \in DOMAIN uploads /\ u \in Upload
           /\ uploads[u].state = "receiving"
           /\ uploads[u] \in [path : Path, stamp : Stamp, base : Revision \cup {Null},
                              state : {"receiving", "committed", "aborted"},
                              offset : 0..MaxFile, receipt : Revision \cup {Null}]
BY DEF TypeOK, Receiving, UploadRow, Tombstone

(***************************************************************************)
(* Type correctness                                                         *)
(***************************************************************************)

LEMMA TypeInit == Init => TypeOK
BY DEF Init, TypeOK

LEMMA HistoryInit == Init => HistoryHasAHead
BY DEF Init, HistoryHasAHead

\* Only published revisions are heads, so the server's view has a stamp for
\* every path in it: the type of a browser manifest rests on HistoryHasAHead.
LEMMA ServerViewType ==
    ASSUME TypeOK, HistoryHasAHead, NEW p PROVE ServerView(p) \in FileList
<1> DEFINE S == {path \in Path : \E r \in Revision : Heads(p, path) = {r}}
           H(path) == CHOOSE r \in Revision : Heads(p, path) = {r}
<1>1. \A path \in S : versions[H(path)].stamp \in Stamp
  <2> SUFFICES ASSUME NEW path \in S PROVE versions[H(path)].stamp \in Stamp
    OBVIOUS
  <2>1. H(path) \in Revision /\ Heads(p, path) = {H(path)}
    OBVIOUS
  <2>2. <<p, path, H(path)>> \in heads
    BY <2>1 DEF Heads
  <2>3. H(path) \in DOMAIN versions
    BY <2>2 DEF HistoryHasAHead
  <2> QED BY <2>3 DEF TypeOK, Version
<1>2. ServerView(p) \in [S -> Stamp]
  BY <1>1 DEF ServerView
<1> QED BY <1>2 DEF FileList

LEMMA TypeStep == TypeOK /\ HistoryHasAHead /\ [Next]_vars => TypeOK'
<1> SUFFICES ASSUME TypeOK, HistoryHasAHead, [Next]_vars PROVE TypeOK'
  OBVIOUS
<1>1. ASSUME NEW p \in Project, CreateProject(p) PROVE TypeOK'
  BY <1>1 DEF CreateProject, TypeOK, Put
<1>2. ASSUME NEW p \in Project, NEW enabled \in BOOLEAN, SetOffline(p, enabled)
      PROVE TypeOK'
  BY <1>2 DEF SetOffline, TypeOK
<1>3. ASSUME NEW p \in Project, NEW d \in Reporter, NEW files \in Inventory,
             NEW issues \in BOOLEAN, DeclareManifest(p, d, files, issues)
      PROVE TypeOK'
  <2> DEFINE row == [files |-> IF d = Browser THEN ServerView(p) ELSE files,
                     issues |-> issues]
  <2>1. row \in [files : FileList, issues : BOOLEAN]
    BY ServerViewType DEF Inventory
  <2>2. manifests' = Put(manifests, <<p, d>>, row)
    BY <1>3 DEF DeclareManifest
  <2> HIDE DEF row
  <2>3. /\ manifests' \in [DOMAIN manifests' -> [files : FileList, issues : BOOLEAN]]
        /\ DOMAIN manifests' \subseteq Project \X Reporter
    BY <2>1, <2>2 DEF TypeOK, Put
  <2> QED BY <1>3, <2>3 DEF DeclareManifest, TypeOK
<1>4. ASSUME NEW p \in Project, NEW t \in Transfer, NEW path \in Path,
             NEW stamp \in Stamp, NEW base \in Revision \cup {Null},
             StartUpload(p, t, path, stamp, base)
      PROVE TypeOK'
  <2> DEFINE row == [path |-> path, stamp |-> stamp, base |-> base,
                     state |-> "receiving", offset |-> 0, receipt |-> Null]
  <2>1. row \in UploadRow
    BY Bounds DEF UploadRow
  <2>2. uploads' = Put(uploads, <<p, t>>, row) /\ <<p, t>> \in Upload
    BY <1>4 DEF StartUpload, Upload
  <2> HIDE DEF row
  <2>3. uploads' \in [DOMAIN uploads' -> UploadRow] /\ DOMAIN uploads' \subseteq Upload
    BY <2>1, <2>2 DEF TypeOK, Put
  <2> QED BY <1>4, <2>3 DEF StartUpload, TypeOK
<1>5. ASSUME NEW p \in Project, NEW t \in Transfer, NEW offset \in 0..MaxFile,
             NEW data \in Block, AppendChunk(p, t, offset, data)
      PROVE TypeOK'
  <2> DEFINE u == <<p, t>>
  <2>1. u \in Receiving /\ offset + Len(data) <= uploads[u].stamp.size
    BY <1>5 DEF AppendChunk
  <2>2. offset + Len(data) \in 0..MaxFile
    BY <2>1, ReceivingRow, Bounds, BlockLength
  <2>3. [uploads[u] EXCEPT !.offset = offset + Len(data)] \in UploadRow
    BY <2>1, <2>2, ReceivingRow DEF UploadRow
  <2>4. uploads' = [uploads EXCEPT ![u] = [uploads[u] EXCEPT !.offset = offset + Len(data)]]
    BY <1>5 DEF AppendChunk
  <2>5. uploads' \in [DOMAIN uploads' -> UploadRow] /\ DOMAIN uploads' \subseteq Upload
    BY <2>3, <2>4 DEF TypeOK
  <2>6. <<u, offset>> \in Upload \X (0..MaxFile)
    BY <2>1, ReceivingRow
  <2>7. chunks' = Put(chunks, <<u, offset>>, data)
    BY <1>5 DEF AppendChunk
  <2>8. chunks' \in [DOMAIN chunks' -> Block] /\ DOMAIN chunks' \subseteq Upload \X (0..MaxFile)
    BY <2>6, <2>7 DEF TypeOK, Put
  <2> QED BY <1>5, <2>5, <2>8 DEF AppendChunk, TypeOK
<1>6. ASSUME NEW p \in Project, NEW t \in Transfer, NEW r \in Revision,
             FinishUpload(p, t, r)
      PROVE TypeOK'
  <2> DEFINE u   == <<p, t>>
             row == uploads[u]
             ver == [project |-> p, path |-> row.path, stamp |-> row.stamp, body |-> Body(u)]
  <2>1. u \in Receiving /\ Verified(Body(u), row.stamp)
    BY <1>6 DEF FinishUpload
  <2>2. row.path \in Path /\ row.stamp \in Stamp
    BY <2>1, ReceivingRow
  <2>3. ver \in Version
    BY <2>1, <2>2, Bounds DEF Version, Verified
  <2>4. versions' = Put(versions, r, ver)
    BY <1>6 DEF FinishUpload
  <2>5. versions' \in [DOMAIN versions' -> Version] /\ DOMAIN versions' \subseteq Revision
    <3> HIDE DEF ver
    <3> QED BY <2>3, <2>4 DEF TypeOK, Put
  <2>6. [row EXCEPT !.state = "committed", !.receipt = r] \in UploadRow
    BY <2>1, ReceivingRow DEF UploadRow
  <2>7. uploads' = [uploads EXCEPT ![u] = [row EXCEPT !.state = "committed", !.receipt = r]]
    BY <1>6 DEF FinishUpload
  <2>8. uploads' \in [DOMAIN uploads' -> UploadRow] /\ DOMAIN uploads' \subseteq Upload
    BY <2>6, <2>7 DEF TypeOK
  <2>9. heads' \subseteq Project \X Path \X Revision
    BY <1>6, <2>2 DEF FinishUpload, TypeOK
  <2>10. chunks' \in [DOMAIN chunks' -> Block] /\ DOMAIN chunks' \subseteq Upload \X (0..MaxFile)
    BY <1>6 DEF FinishUpload, TypeOK, Without
  <2> QED BY <1>6, <2>5, <2>8, <2>9, <2>10 DEF FinishUpload, TypeOK
<1>7. ASSUME NEW p \in Project, NEW t \in Transfer, AbortUpload(p, t) PROVE TypeOK'
  <2> DEFINE u == <<p, t>>
  <2>1. CASE u \notin DOMAIN uploads /\ uploads' = Put(uploads, u, Tombstone) /\ UNCHANGED chunks
    <3>1. Tombstone \in UploadRow /\ u \in Upload
      BY DEF UploadRow, Upload
    <3>2. uploads' \in [DOMAIN uploads' -> UploadRow] /\ DOMAIN uploads' \subseteq Upload
      BY <2>1, <3>1 DEF TypeOK, Put
    <3> QED BY <1>7, <2>1, <3>2 DEF AbortUpload, TypeOK
  <2>2. CASE /\ u \in Receiving
             /\ chunks' = Without(chunks, ChunksOf(u))
             /\ uploads' = [uploads EXCEPT ![u].state = "aborted"]
    <3>1. [uploads[u] EXCEPT !.state = "aborted"] \in UploadRow
      BY <2>2, ReceivingRow DEF UploadRow
    <3>2. uploads' \in [DOMAIN uploads' -> UploadRow] /\ DOMAIN uploads' \subseteq Upload
      BY <2>2, <3>1 DEF TypeOK
    <3>3. chunks' \in [DOMAIN chunks' -> Block] /\ DOMAIN chunks' \subseteq Upload \X (0..MaxFile)
      BY <2>2 DEF TypeOK, Without
    <3> QED BY <1>7, <3>2, <3>3 DEF AbortUpload, TypeOK
  <2> QED BY <1>7, <2>1, <2>2 DEF AbortUpload
<1>8. ASSUME NEW p \in Project, NEW path \in Path, NEW expected \in SUBSET Revision,
             NEW chosen \in Revision, Resolve(p, path, expected, chosen)
      PROVE TypeOK'
  BY <1>8 DEF Resolve, TypeOK
<1>9. ASSUME NEW r \in Revision, Decay(r) PROVE TypeOK'
  <2>1. [versions[r] EXCEPT !.body = Damaged] \in Version
    BY <1>9 DEF Decay, TypeOK, Version
  <2>2. versions' = [versions EXCEPT ![r] = [versions[r] EXCEPT !.body = Damaged]]
    BY <1>9 DEF Decay
  <2>3. versions' \in [DOMAIN versions' -> Version] /\ DOMAIN versions' \subseteq Revision
    BY <2>1, <2>2 DEF TypeOK
  <2> QED BY <1>9, <2>3 DEF Decay, TypeOK
<1>10. CASE UNCHANGED vars
  BY <1>10 DEF vars, TypeOK
<1> QED BY <1>1, <1>2, <1>3, <1>4, <1>5, <1>6, <1>7, <1>8, <1>9, <1>10 DEF Next

(***************************************************************************)
(* A published file keeps a head                                            *)
(***************************************************************************)

\* Steps that touch neither the versions nor the heads nor add a transfer.
LEMMA HistoryFrame ==
    ASSUME HistoryHasAHead, UNCHANGED <<versions, heads>>,
           DOMAIN uploads' = DOMAIN uploads,
           \A u \in DOMAIN uploads : /\ uploads'[u].base = uploads[u].base
                                     /\ uploads'[u].path = uploads[u].path
    PROVE  HistoryHasAHead'
BY DEF HistoryHasAHead, Heads

LEMMA HistoryStep == TypeOK /\ HistoryHasAHead /\ [Next]_vars => HistoryHasAHead'
<1> SUFFICES ASSUME TypeOK, HistoryHasAHead, [Next]_vars PROVE HistoryHasAHead'
  OBVIOUS
<1>1. ASSUME NEW p \in Project, CreateProject(p) PROVE HistoryHasAHead'
  BY <1>1, HistoryFrame DEF CreateProject
<1>2. ASSUME NEW p \in Project, NEW enabled \in BOOLEAN, SetOffline(p, enabled)
      PROVE HistoryHasAHead'
  BY <1>2, HistoryFrame DEF SetOffline
<1>3. ASSUME NEW p \in Project, NEW d \in Reporter, NEW files \in Inventory,
             NEW issues \in BOOLEAN, DeclareManifest(p, d, files, issues)
      PROVE HistoryHasAHead'
  BY <1>3, HistoryFrame DEF DeclareManifest
<1>4. ASSUME NEW p \in Project, NEW t \in Transfer, NEW path \in Path,
             NEW stamp \in Stamp, NEW base \in Revision \cup {Null},
             StartUpload(p, t, path, stamp, base)
      PROVE HistoryHasAHead'
  BY <1>4 DEF StartUpload, HistoryHasAHead, Heads, Put
<1>5. ASSUME NEW p \in Project, NEW t \in Transfer, NEW offset \in 0..MaxFile,
             NEW data \in Block, AppendChunk(p, t, offset, data)
      PROVE HistoryHasAHead'
  <2>1. \A v \in DOMAIN uploads : /\ uploads'[v].base = uploads[v].base
                                  /\ uploads'[v].path = uploads[v].path
    BY <1>5, ReceivingRow DEF AppendChunk, TypeOK
  <2> QED BY <1>5, <2>1, HistoryFrame DEF AppendChunk, TypeOK
<1>6. ASSUME NEW p \in Project, NEW t \in Transfer, NEW r \in Revision,
             FinishUpload(p, t, r)
      PROVE HistoryHasAHead'
  <2> DEFINE u   == <<p, t>>
             row == uploads[u]
             ver == [project |-> p, path |-> row.path, stamp |-> row.stamp, body |-> Body(u)]
  <2>1. /\ versions' = Put(versions, r, ver) /\ r \notin DOMAIN versions
        /\ heads' = (heads \ {<<p, row.path, row.base>>}) \cup {<<p, row.path, r>>}
        /\ uploads' = [uploads EXCEPT ![u].state = "committed", ![u].receipt = r]
    BY <1>6 DEF FinishUpload
  <2>2. /\ DOMAIN versions' = DOMAIN versions \cup {r}
        /\ versions'[r] = ver
        /\ \A q \in DOMAIN versions : versions'[q] = versions[q]
    BY <2>1 DEF Put
  <2>3. \A q \in DOMAIN versions' : Heads(versions[q].project, versions[q].path)' # {}
    <3>1. SUFFICES ASSUME NEW q \in DOMAIN versions'
                   PROVE  \E h \in Revision :
                             <<versions'[q].project, versions'[q].path, h>> \in heads'
      BY DEF Heads
    <3>2. CASE versions'[q].project = p /\ versions'[q].path = row.path
      BY <2>1, <3>2
    <3>3. CASE ~(versions'[q].project = p /\ versions'[q].path = row.path)
      <4>1. q \in DOMAIN versions /\ versions'[q] = versions[q]
        BY <2>2, <3>3
      <4>2. PICK h \in Revision : <<versions[q].project, versions[q].path, h>> \in heads
        BY <4>1 DEF HistoryHasAHead, Heads
      <4> QED BY <2>1, <3>3, <4>1, <4>2
    <3> QED BY <3>2, <3>3
  <2>4. \A h \in heads' : /\ h[3] \in DOMAIN versions'
                          /\ versions'[h[3]].project = h[1]
                          /\ versions'[h[3]].path = h[2]
    BY <2>1, <2>2 DEF HistoryHasAHead
  <2>5. /\ DOMAIN uploads' = DOMAIN uploads
        /\ \A v \in DOMAIN uploads : /\ uploads'[v].base = uploads[v].base
                                     /\ uploads'[v].path = uploads[v].path
    <3>1. /\ u \in Receiving
          /\ uploads' = [uploads EXCEPT
                            ![u] = [row EXCEPT !.state = "committed", !.receipt = r]]
      BY <1>6 DEF FinishUpload
    <3>2. LET new == [row EXCEPT !.state = "committed", !.receipt = r]
          IN  new.base = row.base /\ new.path = row.path
      BY <3>1, ReceivingRow
    <3> QED BY <3>1, <3>2, ReceivingRow DEF TypeOK
  <2> QED BY <2>2, <2>3, <2>4, <2>5 DEF HistoryHasAHead
<1>7. ASSUME NEW p \in Project, NEW t \in Transfer, AbortUpload(p, t)
      PROVE HistoryHasAHead'
  <2>1. UNCHANGED <<versions, heads>>
    BY <1>7 DEF AbortUpload
  <2>2. CASE <<p, t>> \notin DOMAIN uploads /\ uploads' = Put(uploads, <<p, t>>, Tombstone)
    BY <2>1, <2>2 DEF HistoryHasAHead, Heads, Put, Tombstone
  <2>3. CASE <<p, t>> \in Receiving /\ uploads' = [uploads EXCEPT ![<<p, t>>].state = "aborted"]
    <3>1. \A v \in DOMAIN uploads : /\ uploads'[v].base = uploads[v].base
                                    /\ uploads'[v].path = uploads[v].path
      BY <2>3, ReceivingRow DEF TypeOK
    <3> QED BY <2>1, <2>3, <3>1, HistoryFrame DEF TypeOK
  <2> QED BY <1>7, <2>2, <2>3 DEF AbortUpload
<1>8. ASSUME NEW p \in Project, NEW path \in Path, NEW expected \in SUBSET Revision,
             NEW chosen \in Revision, Resolve(p, path, expected, chosen)
      PROVE HistoryHasAHead'
  <2>1. /\ <<p, path, chosen>> \in heads
        /\ heads' = {h \in heads : h[1] = p /\ h[2] = path => h[3] = chosen}
        /\ UNCHANGED <<versions, uploads>>
    BY <1>8 DEF Resolve, Heads
  <2>2. \A q \in DOMAIN versions : Heads(versions[q].project, versions[q].path)' # {}
    <3>1. SUFFICES ASSUME NEW q \in DOMAIN versions
                   PROVE  \E h \in Revision :
                             <<versions[q].project, versions[q].path, h>> \in heads'
      BY <2>1 DEF Heads
    <3>2. PICK h \in Revision : <<versions[q].project, versions[q].path, h>> \in heads
      BY DEF HistoryHasAHead, Heads
    <3> QED BY <2>1, <3>2
  <2> QED BY <2>1, <2>2 DEF HistoryHasAHead
<1>9. ASSUME NEW r \in Revision, Decay(r) PROVE HistoryHasAHead'
  <2>1. /\ DOMAIN versions' = DOMAIN versions
        /\ \A q \in DOMAIN versions : /\ versions'[q].project = versions[q].project
                                      /\ versions'[q].path = versions[q].path
    BY <1>9 DEF Decay, TypeOK, Version
  <2> QED BY <1>9, <2>1 DEF Decay, HistoryHasAHead, Heads
<1>10. CASE UNCHANGED vars
  BY <1>10, HistoryFrame DEF vars
<1> QED BY <1>1, <1>2, <1>3, <1>4, <1>5, <1>6, <1>7, <1>8, <1>9, <1>10 DEF Next

\* The tables hold rows of their types in every reachable state (TypeOK), and a
\* file that was ever published always has a head, which is a version of that
\* file (HistoryHasAHead).
THEOREM TypesAndHeads == Spec => [](TypeOK /\ HistoryHasAHead)
<1>1. TypeOK /\ HistoryHasAHead /\ [Next]_vars => (TypeOK /\ HistoryHasAHead)'
  BY TypeStep, HistoryStep
<1> QED BY <1>1, TypeInit, HistoryInit, PTL DEF Spec

(***************************************************************************)
(* Readiness                                                                *)
(***************************************************************************)

LEMMA ReadyProject ==
    ASSUME NEW p, StatusState(p) = "ready"
    PROVE  Conflicts(p) = {} /\ ~Issues(p) /\ Missing(p) = {}
BY DEF StatusState

\* A head of a ready project is the only one of its path, and its bytes are intact.
LEMMA ReadyHead ==
    ASSUME TypeOK, HistoryHasAHead, NEW p, NEW path \in Path, NEW r \in Heads(p, path),
           StatusState(p) = "ready"
    PROVE  Heads(p, path) = {r} /\ versions[r].body = versions[r].stamp.sha256
<1>1. \A q \in Heads(p, path) : q = r
  BY ReadyProject DEF Conflicts, Heads
<1>2. Verified(versions[r].body, versions[r].stamp)
  BY ReadyProject DEF Issues, HeadPaths
<1> QED BY <1>1, <1>2 DEF Verified

\* Readiness follows from what the tables say at the moment: it needs no history beyond
\* HistoryHasAHead.
LEMMA ReadyState == TypeOK /\ HistoryHasAHead => ReadyIsSound
<1> SUFFICES ASSUME TypeOK, HistoryHasAHead, NEW p \in DOMAIN projects,
                    StatusState(p) = "ready", NEW path \in Path,
                    \/ \E r \in DOMAIN versions : versions[r].project = p /\ versions[r].path = path
                    \/ \E d \in Reporter \ {Browser} :
                          <<p, d>> \in DOMAIN manifests /\ path \in DOMAIN manifests[<<p, d>>].files
             PROVE  \E r \in Revision :
                       /\ Heads(p, path) = {r}
                       /\ versions[r].body = versions[r].stamp.sha256
                       /\ \A d \in Reporter \ {Browser} :
                             (<<p, d>> \in DOMAIN manifests
                              /\ path \in DOMAIN manifests[<<p, d>>].files)
                             => manifests[<<p, d>>].files[path] = versions[r].stamp
  BY DEF ReadyIsSound
<1>1. ASSUME NEW d \in Reporter \ {Browser}, <<p, d>> \in DOMAIN manifests,
             path \in DOMAIN manifests[<<p, d>>].files
      PROVE  Present(p, path, manifests[<<p, d>>].files[path])
  <2>1. d \in Reporters(p) /\ Declared(p, d) = manifests[<<p, d>>].files
    BY <1>1 DEF Reporters, Declared
  <2>2. manifests[<<p, d>>].files[path] \in Variants(p, path)
    BY <1>1, <2>1 DEF Variants
  <2> QED BY <2>2, ReadyProject DEF Missing
<1>2. PICK r \in Revision : r \in Heads(p, path)
  <2>1. CASE \E v \in DOMAIN versions : versions[v].project = p /\ versions[v].path = path
    BY <2>1 DEF HistoryHasAHead, Heads
  <2>2. CASE \E d \in Reporter \ {Browser} :
                <<p, d>> \in DOMAIN manifests /\ path \in DOMAIN manifests[<<p, d>>].files
    BY <1>1, <2>2 DEF Present, Heads
  <2> QED BY <2>1, <2>2
<1>3. Heads(p, path) = {r} /\ versions[r].body = versions[r].stamp.sha256
  BY <1>2, ReadyHead
<1>4. \A d \in Reporter \ {Browser} :
         (<<p, d>> \in DOMAIN manifests /\ path \in DOMAIN manifests[<<p, d>>].files)
         => manifests[<<p, d>>].files[path] = versions[r].stamp
  BY <1>1, <1>3 DEF Present
<1> QED BY <1>3, <1>4

\* status: a project is only reported ready when every file that was ever published, or
\* that any replica lists, has one intact head, and it is what every replica lists.
THEOREM ReadyProjectsAreSound == Spec => []ReadyIsSound
<1>1. TypeOK /\ HistoryHasAHead => ReadyIsSound
  BY ReadyState
<1> QED BY <1>1, TypesAndHeads, PTL

(***************************************************************************)
(* The refinement                                                           *)
(***************************************************************************)

\* What the history sees of the tables.
Published == [r \in DOMAIN versions |->
                 [project |-> versions[r].project, path |-> versions[r].path,
                  stamp |-> versions[r].stamp]]
SettledTransfers == [u \in DOMAIN uploads \ Receiving |-> uploads[u].receipt]

\* A transfer has no receipt before it is committed.
ReceiptsWait == \A u \in Receiving : uploads[u].receipt = Null

LEMMA ReceiptsWaitStep == TypeOK /\ ReceiptsWait /\ [Next]_vars => ReceiptsWait'
<1> SUFFICES ASSUME TypeOK, ReceiptsWait, [Next]_vars PROVE ReceiptsWait'
  OBVIOUS
<1>1. CASE UNCHANGED uploads
  BY <1>1 DEF ReceiptsWait, Receiving
<1>2. ASSUME NEW p \in Project, NEW t \in Transfer, NEW path \in Path, NEW stamp \in Stamp,
             NEW base \in Revision \cup {Null}, StartUpload(p, t, path, stamp, base)
      PROVE  ReceiptsWait'
  BY <1>2 DEF StartUpload, Put, ReceiptsWait, Receiving
<1>3. ASSUME NEW p \in Project, NEW t \in Transfer, NEW offset \in 0..MaxFile, NEW data \in Block,
             AppendChunk(p, t, offset, data)
      PROVE  ReceiptsWait'
  BY <1>3, ReceivingRow DEF AppendChunk, TypeOK, ReceiptsWait, Receiving
<1>4. ASSUME NEW p \in Project, NEW t \in Transfer, NEW r \in Revision, FinishUpload(p, t, r)
      PROVE  ReceiptsWait'
  <2>1. Receiving' = Receiving \ {<<p, t>>}
        /\ \A v \in Receiving \ {<<p, t>>} : uploads'[v] = uploads[v]
    BY <1>4, ReceivingRow DEF FinishUpload, Receiving, TypeOK
  <2> QED BY <2>1 DEF ReceiptsWait
<1>5. ASSUME NEW p \in Project, NEW t \in Transfer, AbortUpload(p, t) PROVE ReceiptsWait'
  <2>1. \A v \in Receiving' : v \in Receiving /\ uploads'[v] = uploads[v]
    <3>1. CASE uploads' = Put(uploads, <<p, t>>, Tombstone)
      BY <3>1 DEF Put, Tombstone, Receiving
    <3>2. CASE /\ <<p, t>> \in Receiving
               /\ uploads' = [uploads EXCEPT ![<<p, t>>].state = "aborted"]
      BY <3>2, ReceivingRow DEF Receiving, TypeOK
    <3> QED BY <1>5, <3>1, <3>2 DEF AbortUpload
  <2> QED BY <2>1 DEF ReceiptsWait
<1> QED BY <1>1, <1>2, <1>3, <1>4, <1>5
        DEF Next, CreateProject, SetOffline, DeclareManifest, Resolve, Decay, vars

\* Settling transfer u adds it, with its receipt, to what is settled.
LEMMA Settling ==
    ASSUME NEW u, Receiving' = Receiving \ {u}, u \notin DOMAIN uploads \ Receiving,
           DOMAIN uploads' = DOMAIN uploads \cup {u},
           \A v \in DOMAIN uploads \ {u} : uploads'[v] = uploads[v]
    PROVE  SettledTransfers' = History!Extend(SettledTransfers, u, uploads'[u].receipt)
BY DEF SettledTransfers, History!Extend

\* A commit publishes one version on top of its base, for a transfer that was not settled.
LEMMA FinishPublishes ==
    ASSUME TypeOK, HistoryHasAHead, NEW p \in Project, NEW t \in Transfer, NEW r \in Revision,
           FinishUpload(p, t, r)
    PROVE  History!Next
<1> DEFINE u   == <<p, t>>
           row == uploads[u]
           ver == [project |-> p, path |-> row.path, stamp |-> row.stamp, body |-> Body(u)]
           new == [row EXCEPT !.state = "committed", !.receipt = r]
<1>1. /\ u \in Receiving /\ r \notin DOMAIN versions
      /\ versions' = Put(versions, r, ver)
      /\ ver.project = p /\ ver.path = row.path /\ ver.stamp = row.stamp
      /\ heads' = (heads \ {<<p, row.path, row.base>>}) \cup {<<p, row.path, r>>}
      /\ uploads' = [uploads EXCEPT ![u] = new]
  BY DEF FinishUpload
<1>2. /\ u \in DOMAIN uploads /\ row.path \in Path /\ row.stamp \in Stamp
      /\ row.base \in Revision \cup {Null}
      /\ new.state = "committed" /\ new.receipt = r
  BY <1>1, ReceivingRow
<1>3. row.base # Null => /\ row.base \in DOMAIN versions
                         /\ versions[row.base].project = p
                         /\ versions[row.base].path = row.path
  BY <1>2 DEF HistoryHasAHead
<1> HIDE DEF u, row, ver, new
<1>4. Published' = History!Extend(Published, r, [project |-> p, path |-> row.path,
                                                 stamp |-> row.stamp])
  BY <1>1 DEF Published, Put, History!Extend
<1>5. SettledTransfers' = History!Extend(SettledTransfers, u, r)
  <2>1. DOMAIN uploads' = DOMAIN uploads /\ uploads'[u] = new
        /\ \A v \in DOMAIN uploads \ {u} : uploads'[v] = uploads[v]
    BY <1>1, <1>2 DEF TypeOK
  <2>2. Receiving' = Receiving \ {u}
    BY <1>2, <2>1 DEF Receiving
  <2> QED BY <1>1, <1>2, <2>1, <2>2, Settling
<1>6. History!Publish(p, t, row.path, row.stamp, row.base, r)
  <2>1. <<p, t>> \notin DOMAIN SettledTransfers /\ DOMAIN Published = DOMAIN versions
    BY <1>1 DEF SettledTransfers, Published, u
  <2>2. row.base # Null => /\ row.base \in DOMAIN Published
                           /\ Published[row.base].project = p
                           /\ Published[row.base].path = row.path
    BY <1>3 DEF Published
  <2> QED BY <1>1, <1>4, <1>5, <2>1, <2>2 DEF History!Publish, Published, SettledTransfers, u
<1> QED BY <1>2, <1>6 DEF History!Next

\* A cancellation settles the transfer without a version, whether it was begun or not.
LEMMA AbortCancels ==
    ASSUME TypeOK, ReceiptsWait, NEW p \in Project, NEW t \in Transfer, AbortUpload(p, t)
    PROVE  History!Next
<1> DEFINE u == <<p, t>>
<1>1. /\ UNCHANGED <<versions, heads>> /\ u \notin DOMAIN uploads \ Receiving
      /\ DOMAIN uploads' = DOMAIN uploads \cup {u}
      /\ \A v \in DOMAIN uploads \ {u} : uploads'[v] = uploads[v]
      /\ uploads'[u].state = "aborted" /\ uploads'[u].receipt = Null
  <2>1. CASE u \notin DOMAIN uploads /\ uploads' = Put(uploads, u, Tombstone)
    BY <2>1 DEF AbortUpload, Put, Tombstone
  <2>2. CASE u \in Receiving /\ uploads' = [uploads EXCEPT ![u].state = "aborted"]
    BY <2>2, ReceivingRow DEF AbortUpload, TypeOK, ReceiptsWait
  <2> QED BY <2>1, <2>2 DEF AbortUpload
<1> HIDE DEF u
<1>2. Receiving' = Receiving \ {u}
  BY <1>1 DEF Receiving
<1>3. SettledTransfers' = History!Extend(SettledTransfers, u, Null)
  BY <1>1, <1>2, Settling
<1>4. Published' = Published /\ u \notin DOMAIN SettledTransfers
  BY <1>1 DEF Published, SettledTransfers
<1>5. History!Cancel(p, t)
  BY <1>1, <1>3, <1>4 DEF History!Cancel, Published, SettledTransfers, u
<1> QED BY <1>5 DEF History!Next

LEMMA HistoryRefinement ==
    TypeOK /\ HistoryHasAHead /\ ReceiptsWait /\ [Next]_vars => [History!Next]_(History!hvars)
<1> SUFFICES ASSUME TypeOK, HistoryHasAHead, ReceiptsWait, [Next]_vars
             PROVE  History!Next \/ UNCHANGED History!hvars
  OBVIOUS
<1>1. ASSUME UNCHANGED heads, Published' = Published, SettledTransfers' = SettledTransfers
      PROVE  UNCHANGED History!hvars
  BY <1>1 DEF History!hvars, Published, SettledTransfers
<1>2. CASE UNCHANGED <<versions, heads, uploads>>
  BY <1>1, <1>2 DEF Published, SettledTransfers, Receiving
<1>3. ASSUME NEW p \in Project, NEW t \in Transfer, NEW path \in Path, NEW stamp \in Stamp,
             NEW base \in Revision \cup {Null}, StartUpload(p, t, path, stamp, base)
      PROVE  UNCHANGED History!hvars
  <2>1. UNCHANGED <<versions, heads>>
    BY <1>3 DEF StartUpload
  <2>2. /\ DOMAIN uploads' \ Receiving' = DOMAIN uploads \ Receiving
        /\ \A v \in DOMAIN uploads \ Receiving : uploads'[v] = uploads[v]
    BY <1>3 DEF StartUpload, Put, Receiving
  <2> QED BY <1>1, <2>1, <2>2 DEF Published, SettledTransfers
<1>4. ASSUME NEW p \in Project, NEW t \in Transfer, NEW offset \in 0..MaxFile, NEW data \in Block,
             AppendChunk(p, t, offset, data)
      PROVE  UNCHANGED History!hvars
  <2>1. UNCHANGED <<versions, heads>>
    BY <1>4 DEF AppendChunk
  <2>2. /\ DOMAIN uploads' \ Receiving' = DOMAIN uploads \ Receiving
        /\ \A v \in DOMAIN uploads \ Receiving : uploads'[v] = uploads[v]
    BY <1>4, ReceivingRow DEF AppendChunk, TypeOK, Receiving
  <2> QED BY <1>1, <2>1, <2>2 DEF Published, SettledTransfers
<1>5. ASSUME NEW p \in Project, NEW path \in Path, NEW expected \in SUBSET Revision,
             NEW chosen \in Revision, Resolve(p, path, expected, chosen)
      PROVE  History!Next
  <2>1. <<p, path, chosen>> \in heads
    BY <1>5 DEF Resolve, Heads
  <2>2. History!Choose(p, path, chosen)
    BY <1>5, <2>1 DEF Resolve, History!Choose, Receiving
  <2> QED BY <2>2 DEF History!Next
<1>6. ASSUME NEW r \in Revision, Decay(r) PROVE UNCHANGED History!hvars
  <2>1. /\ UNCHANGED <<heads, uploads>> /\ DOMAIN versions' = DOMAIN versions
        /\ \A x \in DOMAIN versions : /\ versions'[x].project = versions[x].project
                                      /\ versions'[x].path = versions[x].path
                                      /\ versions'[x].stamp = versions[x].stamp
    BY <1>6 DEF Decay, TypeOK, Version
  <2> QED BY <1>1, <2>1 DEF Published, SettledTransfers, Receiving
<1> QED BY <1>2, <1>3, <1>4, <1>5, <1>6, FinishPublishes, AbortCancels
        DEF Next, CreateProject, SetOffline, DeclareManifest, vars

LEMMA HistoryStart == Init => History!Init
<1> SUFFICES ASSUME Init PROVE History!Init
  OBVIOUS
<1>1. DOMAIN versions = {} /\ DOMAIN uploads = {} /\ heads = {} /\ versions = <<>>
  BY DEF Init
<1>2. Published = <<>>
  BY <1>1 DEF Published
<1>3. SettledTransfers = <<>>
  BY <1>1 DEF SettledTransfers
<1> QED BY <1>1, <1>2, <1>3 DEF History!Init, Published, SettledTransfers

\* Blocks, quotas, reservations and manifests are not visible in what the store promises:
\* transfers settle once, versions are immutable, and concurrent versions stay current
\* until one is built upon or chosen (start_upload .. resolve).
THEOREM StoreImplementsHistory == Spec => ImplementsHistory
<1>1. Init => ReceiptsWait
  BY DEF Init, ReceiptsWait, Receiving
<1>2. TypeOK /\ HistoryHasAHead /\ ReceiptsWait /\ [Next]_vars => [History!Next]_(History!hvars)
  BY HistoryRefinement
<1>3. TypeOK /\ ReceiptsWait /\ [Next]_vars => ReceiptsWait'
  BY ReceiptsWaitStep
<1> QED BY <1>1, <1>2, <1>3, HistoryStart, TypesAndHeads, PTL
        DEF Spec, ImplementsHistory, History!Spec

(***************************************************************************)
(* The storage quota of a tenant is never exceeded, for every value of the  *)
(* limits: start_upload is the only method that checks it, and each byte of *)
(* a transfer is counted once, first as reserved and then as stored.        *)
(***************************************************************************)

\* Only finitely many rows are ever inserted.
FiniteTables == IsFiniteSet(DOMAIN uploads) /\ IsFiniteSet(DOMAIN versions)

\* The bytes of one file, as the quota counts them.
Span(x, n) == {x} \X (1..n)

LEMMA SpanCount ==
    ASSUME NEW x, NEW n \in Nat
    PROVE  IsFiniteSet(Span(x, n)) /\ Cardinality(Span(x, n)) = n
<1>1. IsFiniteSet({x}) /\ Cardinality({x}) = 1
  BY FS_Singleton
<1>2. IsFiniteSet(1..n) /\ Cardinality(1..n) = n
  BY FS_Interval
<1> DEFINE X == {x}
           N == 1..n
<1> HIDE DEF X, N
<1>3. IsFiniteSet(X) /\ IsFiniteSet(N)
  BY <1>1, <1>2 DEF X, N
<1>4. IsFiniteSet(X \X N) /\ Cardinality(X \X N) = Cardinality(X) * Cardinality(N)
  BY <1>3, FS_Product
<1>5. Span(x, n) = X \X N
  BY DEF Span, X, N
<1>6. Cardinality(X) = 1 /\ Cardinality(N) = n
  BY <1>1, <1>2 DEF X, N
<1> QED BY <1>4, <1>5, <1>6

\* Everything the quota counts is finite.
LEMMA FiniteBytes ==
    ASSUME FiniteTables
    PROVE  /\ IsFiniteSet(Receiving)
           /\ IsFiniteSet(ReservedBytes)
           /\ IsFiniteSet(StoredBytes)
<1>1. IsFiniteSet(1..MaxFile)
  BY Bounds, FS_Interval
<1>2. IsFiniteSet(Receiving)
  BY FS_Subset DEF FiniteTables, Receiving
<1>3. IsFiniteSet(Receiving \X (1..MaxFile))
  BY <1>1, <1>2, FS_Product
<1>4. IsFiniteSet((DOMAIN versions) \X (1..MaxFile))
  BY <1>1, FS_Product DEF FiniteTables
<1>5. ReservedBytes \in SUBSET (Receiving \X (1..MaxFile))
  BY DEF ReservedBytes
<1>6. StoredBytes \in SUBSET ((DOMAIN versions) \X (1..MaxFile))
  BY DEF StoredBytes
<1> QED BY <1>2, <1>3, <1>4, <1>5, <1>6, FS_Subset

\* Adding n bytes that were not counted before adds n.
LEMMA AddSpan ==
    ASSUME NEW S, IsFiniteSet(S), NEW x, NEW n \in Nat, S \cap Span(x, n) = {}
    PROVE  Cardinality(S \cup Span(x, n)) = Cardinality(S) + n
<1>1. IsFiniteSet(Span(x, n)) /\ Cardinality(Span(x, n)) = n
  BY SpanCount
<1>2. Cardinality(S \cup Span(x, n))
        = Cardinality(S) + Cardinality(Span(x, n)) - Cardinality(S \cap Span(x, n))
  BY <1>1, FS_Union
<1>3. Cardinality({}) = 0
  BY FS_EmptySet
<1>4. Cardinality(S) \in Nat
  BY FS_CardinalityType
<1>5. Cardinality(S \cap Span(x, n)) = 0
  BY <1>3, Zenon
<1>6. Cardinality(S \cup Span(x, n)) = Cardinality(S) + n - 0
  BY <1>1, <1>2, <1>5, Zenon
<1> QED BY <1>4, <1>6

LEMMA FiniteStep == TypeOK /\ FiniteTables /\ [Next]_vars => FiniteTables'
<1> SUFFICES ASSUME TypeOK, FiniteTables, [Next]_vars PROVE FiniteTables'
  OBVIOUS
<1>1. \/ DOMAIN uploads' = DOMAIN uploads
      \/ \E u \in Upload : DOMAIN uploads' = DOMAIN uploads \cup {u}
  <2>1. CASE \E p \in Project, t \in Transfer, path \in Path, stamp \in Stamp,
                base \in Revision \cup {Null} : StartUpload(p, t, path, stamp, base)
    BY <2>1 DEF StartUpload, Put, Upload
  <2>2. CASE \E p \in Project, t \in Transfer : AbortUpload(p, t)
    BY <2>2 DEF AbortUpload, Put, Upload, TypeOK
  <2>3. CASE UNCHANGED uploads
    BY <2>3
  <2>4. CASE \E p \in Project, t \in Transfer, offset \in 0..MaxFile, data \in Block :
                AppendChunk(p, t, offset, data)
    BY <2>4 DEF AppendChunk, TypeOK
  <2>5. CASE \E p \in Project, t \in Transfer, r \in Revision : FinishUpload(p, t, r)
    BY <2>5 DEF FinishUpload, TypeOK
  <2> QED BY <2>1, <2>2, <2>3, <2>4, <2>5
          DEF Next, CreateProject, SetOffline, DeclareManifest, Resolve, Decay, vars
<1>2. \/ DOMAIN versions' = DOMAIN versions
      \/ \E r \in Revision : DOMAIN versions' = DOMAIN versions \cup {r}
  <2>1. CASE \E p \in Project, t \in Transfer, r \in Revision : FinishUpload(p, t, r)
    BY <2>1 DEF FinishUpload, Put
  <2>2. CASE \E r \in Revision : Decay(r)
    BY <2>2 DEF Decay, TypeOK
  <2>3. CASE UNCHANGED versions
    BY <2>3
  <2> QED BY <2>1, <2>2, <2>3
          DEF Next, CreateProject, SetOffline, DeclareManifest, StartUpload, AppendChunk,
              AbortUpload, Resolve, vars
<1>3. IsFiniteSet(DOMAIN uploads')
  BY <1>1, FS_AddElement DEF FiniteTables
<1>4. IsFiniteSet(DOMAIN versions')
  BY <1>2, FS_AddElement DEF FiniteTables
<1> QED BY <1>3, <1>4 DEF FiniteTables

\* A step that keeps the versions' sizes and settles or adds no transfer.
LEMMA QuotaFrame ==
    ASSUME QuotaRespected,
           DOMAIN versions' = DOMAIN versions,
           \A r \in DOMAIN versions : versions'[r].stamp = versions[r].stamp,
           Receiving' = Receiving,
           \A u \in Receiving : uploads'[u].stamp = uploads[u].stamp
    PROVE  QuotaRespected'
<1>1. StoredBytes' = StoredBytes
  BY DEF StoredBytes
<1>2. ReservedBytes' = ReservedBytes
  BY DEF ReservedBytes
<1> QED BY <1>1, <1>2 DEF QuotaRespected

LEMMA QuotaStep ==
    TypeOK /\ FiniteTables /\ QuotaRespected /\ [Next]_vars => QuotaRespected'
<1> SUFFICES ASSUME TypeOK, FiniteTables, QuotaRespected, [Next]_vars
             PROVE  QuotaRespected'
  OBVIOUS
<1> USE Bounds
<1>0. /\ Cardinality(Receiving) \in Nat /\ Cardinality(ReservedBytes) \in Nat
      /\ Cardinality(StoredBytes) \in Nat
      /\ IsFiniteSet(Receiving) /\ IsFiniteSet(ReservedBytes) /\ IsFiniteSet(StoredBytes)
  BY FiniteBytes, FS_CardinalityType
<1>1. ASSUME NEW p \in Project, CreateProject(p) PROVE QuotaRespected'
  BY <1>1, QuotaFrame DEF CreateProject, Receiving
<1>2. ASSUME NEW p \in Project, NEW enabled \in BOOLEAN, SetOffline(p, enabled)
      PROVE QuotaRespected'
  BY <1>2, QuotaFrame DEF SetOffline, Receiving
<1>3. ASSUME NEW p \in Project, NEW d \in Reporter, NEW files \in Inventory,
             NEW issues \in BOOLEAN, DeclareManifest(p, d, files, issues)
      PROVE QuotaRespected'
  BY <1>3, QuotaFrame DEF DeclareManifest, Receiving
<1>4. ASSUME NEW p \in Project, NEW t \in Transfer, NEW path \in Path,
             NEW stamp \in Stamp, NEW base \in Revision \cup {Null},
             StartUpload(p, t, path, stamp, base)
      PROVE QuotaRespected'
  <2> DEFINE u == <<p, t>>
             row == [path |-> path, stamp |-> stamp, base |-> base,
                     state |-> "receiving", offset |-> 0, receipt |-> Null]
  <2>1. /\ u \notin DOMAIN uploads /\ uploads' = Put(uploads, u, row)
        /\ WithinQuota(stamp.size) /\ versions' = versions
    BY <1>4 DEF StartUpload
  <2>2. stamp.size \in 0..MaxFile
    OBVIOUS
  <2>3. row.state = "receiving" /\ row.stamp = stamp
    OBVIOUS
  <2> HIDE DEF row
  <2>4. Receiving' = Receiving \cup {u} /\ u \notin Receiving
    BY <2>1, <2>3 DEF Receiving, Put
  <2>5. ReservedBytes' = ReservedBytes \cup Span(u, stamp.size)
    <3>1. uploads'[u].stamp = stamp
      BY <2>1, <2>3 DEF Put
    <3>2. \A v \in Receiving : uploads'[v].stamp = uploads[v].stamp
      BY <2>1 DEF Put, Receiving
    <3> QED BY <2>2, <2>4, <3>1, <3>2 DEF ReservedBytes, Span
  <2>6. ReservedBytes \cap Span(u, stamp.size) = {}
    BY <2>4 DEF ReservedBytes, Span
  <2>7. Cardinality(ReservedBytes') = Cardinality(ReservedBytes) + stamp.size
    BY <1>0, <2>2, <2>5, <2>6, AddSpan
  <2>8. Cardinality(Receiving') = Cardinality(Receiving) + 1
    BY <1>0, <2>4, FS_AddElement
  <2>9. StoredBytes' = StoredBytes
    BY <2>1 DEF StoredBytes
  <2> QED BY <1>0, <2>1, <2>2, <2>7, <2>8, <2>9 DEF QuotaRespected, WithinQuota
<1>5. ASSUME NEW p \in Project, NEW t \in Transfer, NEW offset \in 0..MaxFile,
             NEW data \in Block, AppendChunk(p, t, offset, data)
      PROVE QuotaRespected'
  <2> DEFINE u == <<p, t>>
  <2>1. /\ u \in Receiving /\ versions' = versions
        /\ uploads' = [uploads EXCEPT ![u] = [uploads[u] EXCEPT !.offset = offset + Len(data)]]
    BY <1>5 DEF AppendChunk
  <2>2. \A v \in DOMAIN uploads : /\ uploads'[v].state = uploads[v].state
                                  /\ uploads'[v].stamp = uploads[v].stamp
    BY <2>1, ReceivingRow DEF TypeOK
  <2>3. Receiving' = Receiving
    BY <2>1, <2>2 DEF Receiving
  <2> QED BY <2>1, <2>2, <2>3, QuotaFrame DEF Receiving
<1>6. ASSUME NEW p \in Project, NEW t \in Transfer, NEW r \in Revision,
             FinishUpload(p, t, r)
      PROVE QuotaRespected'
  <2> DEFINE u   == <<p, t>>
             row == uploads[u]
             ver == [project |-> p, path |-> row.path, stamp |-> row.stamp, body |-> Body(u)]
             n   == row.stamp.size
  <2>1. /\ u \in Receiving /\ r \notin DOMAIN versions
        /\ versions' = Put(versions, r, ver)
        /\ uploads' = [uploads EXCEPT
                          ![u] = [row EXCEPT !.state = "committed", !.receipt = r]]
    BY <1>6 DEF FinishUpload
  <2>2. row.stamp \in Stamp /\ n \in 0..MaxFile
    BY <2>1, ReceivingRow
  <2>3. /\ DOMAIN uploads' = DOMAIN uploads
        /\ uploads'[u].state = "committed"
        /\ \A v \in DOMAIN uploads : v # u => uploads'[v] = uploads[v]
    BY <2>1, ReceivingRow DEF TypeOK
  <2>4. Receiving' = Receiving \ {u}
    BY <2>3 DEF Receiving
  <2>5. ReservedBytes = ReservedBytes' \cup Span(u, n)
    BY <2>1, <2>2, <2>3, <2>4 DEF ReservedBytes, Span, Receiving
  <2>6. ReservedBytes' \cap Span(u, n) = {}
    BY <2>4 DEF ReservedBytes, Span
  <2>7. IsFiniteSet(ReservedBytes')
    BY <1>0, <2>5, FS_Subset
  <2>8. Cardinality(ReservedBytes) = Cardinality(ReservedBytes') + n
    BY <2>2, <2>5, <2>6, <2>7, AddSpan
  <2>9. StoredBytes' = StoredBytes \cup Span(r, n)
    <3>1. /\ DOMAIN versions' = DOMAIN versions \cup {r}
          /\ versions'[r].stamp = row.stamp
          /\ \A q \in DOMAIN versions : versions'[q] = versions[q]
      BY <2>1 DEF Put
    <3> QED BY <2>1, <2>2, <3>1 DEF StoredBytes, Span
  <2>10. StoredBytes \cap Span(r, n) = {}
    BY <2>1 DEF StoredBytes, Span
  <2>11. Cardinality(StoredBytes') = Cardinality(StoredBytes) + n
    BY <1>0, <2>2, <2>9, <2>10, AddSpan
  <2>12. Cardinality(Receiving') <= Cardinality(Receiving) /\ Cardinality(Receiving') \in Nat
    <3>1. Receiving' \in SUBSET Receiving
      BY <2>4
    <3> QED BY <1>0, <3>1, FS_Subset, FS_CardinalityType
  <2>13. Cardinality(ReservedBytes') \in Nat
    BY <2>7, FS_CardinalityType
  <2> QED BY <1>0, <2>2, <2>8, <2>11, <2>12, <2>13 DEF QuotaRespected
<1>7. ASSUME NEW p \in Project, NEW t \in Transfer, AbortUpload(p, t)
      PROVE QuotaRespected'
  <2> DEFINE u == <<p, t>>
  <2>1. versions' = versions
    BY <1>7 DEF AbortUpload
  <2>2. CASE u \notin DOMAIN uploads /\ uploads' = Put(uploads, u, Tombstone)
    <3>1. Receiving' = Receiving /\ \A v \in Receiving : uploads'[v].stamp = uploads[v].stamp
      BY <2>2 DEF Receiving, Put, Tombstone
    <3> QED BY <2>1, <3>1, QuotaFrame
  <2>3. CASE u \in Receiving /\ uploads' = [uploads EXCEPT ![u].state = "aborted"]
    <3>1. /\ DOMAIN uploads' = DOMAIN uploads
          /\ uploads'[u].state = "aborted"
          /\ \A v \in DOMAIN uploads : v # u => uploads'[v] = uploads[v]
      BY <2>3, ReceivingRow DEF TypeOK
    <3>2. Receiving' = Receiving \ {u}
      BY <3>1 DEF Receiving
    <3>3. ReservedBytes' \in SUBSET ReservedBytes
      BY <3>1, <3>2 DEF ReservedBytes, Receiving
    <3>4. /\ Cardinality(ReservedBytes') <= Cardinality(ReservedBytes)
          /\ Cardinality(ReservedBytes') \in Nat
      BY <1>0, <3>3, FS_Subset, FS_CardinalityType
    <3>5. Cardinality(Receiving') <= Cardinality(Receiving) /\ Cardinality(Receiving') \in Nat
      <4>1. Receiving' \in SUBSET Receiving
        BY <3>2
      <4> QED BY <1>0, <4>1, FS_Subset, FS_CardinalityType
    <3>6. StoredBytes' = StoredBytes
      BY <2>1 DEF StoredBytes
    <3> QED BY <1>0, <3>4, <3>5, <3>6 DEF QuotaRespected
  <2> QED BY <1>7, <2>2, <2>3 DEF AbortUpload
<1>8. ASSUME NEW p \in Project, NEW path \in Path, NEW expected \in SUBSET Revision,
             NEW chosen \in Revision, Resolve(p, path, expected, chosen)
      PROVE QuotaRespected'
  BY <1>8, QuotaFrame DEF Resolve, Receiving
<1>9. ASSUME NEW r \in Revision, Decay(r) PROVE QuotaRespected'
  <2>1. /\ DOMAIN versions' = DOMAIN versions
        /\ \A q \in DOMAIN versions : versions'[q].stamp = versions[q].stamp
    BY <1>9 DEF Decay, TypeOK, Version
  <2> QED BY <1>9, <2>1, QuotaFrame DEF Decay, Receiving
<1>10. CASE UNCHANGED vars
  BY <1>10, QuotaFrame DEF vars, Receiving
<1> QED BY <1>1, <1>2, <1>3, <1>4, <1>5, <1>6, <1>7, <1>8, <1>9, <1>10 DEF Next

LEMMA QuotaInit == Init => FiniteTables /\ QuotaRespected
<1> SUFFICES ASSUME Init PROVE FiniteTables /\ QuotaRespected
  OBVIOUS
<1>1. DOMAIN uploads = {} /\ DOMAIN versions = {}
  BY DEF Init
<1>2. Receiving = {} /\ ReservedBytes = {} /\ StoredBytes = {}
  BY <1>1 DEF Receiving, ReservedBytes, StoredBytes
<1> QED BY <1>1, <1>2, FS_EmptySet, Bounds DEF FiniteTables, QuotaRespected

\* In every reachable state the number of active transfers, the reserved bytes
\* and the stored plus reserved bytes of the whole tenant are within the limits
\* that only start_upload checks (MAX_ACTIVE_TRANSFERS, MAX_RESERVED_BYTES,
\* MAX_TENANT_BYTES), whatever order of blocks, commits, cancellations follows.
THEOREM QuotaIsRespected == Spec => []QuotaRespected
<1> DEFINE QInv == TypeOK /\ HistoryHasAHead /\ FiniteTables /\ QuotaRespected
<1>1. Init => QInv
  BY TypeInit, HistoryInit, QuotaInit
<1>2. QInv /\ [Next]_vars => QInv'
  BY TypeStep, HistoryStep, FiniteStep, QuotaStep
<1>3. QInv => QuotaRespected
  OBVIOUS
<1> QED BY <1>1, <1>2, <1>3, PTL DEF Spec
==============================================================================
