----------------------- MODULE SyncStoreTransferProofs ------------------------
(***************************************************************************)
(* Transfers in SyncStore, for every value of the constants: the journal of *)
(* a transfer is exact, paths never alias, a transfer publishes one version *)
(* and a settled transfer stays as it is.                                   *)
(***************************************************************************)
EXTENDS SyncStoreProofs

(***************************************************************************)
(* Settled transfers                                                        *)
(***************************************************************************)

\* No step touches the row of a transfer that does not receive.
LEMMA SettledStay ==
    TypeOK /\ [Next]_vars =>
        \A u \in DOMAIN uploads \ Receiving : u \in DOMAIN uploads' /\ uploads'[u] = uploads[u]
<1> SUFFICES ASSUME TypeOK, [Next]_vars, NEW u \in DOMAIN uploads \ Receiving
             PROVE  u \in DOMAIN uploads' /\ uploads'[u] = uploads[u]
  OBVIOUS
<1>1. CASE UNCHANGED uploads
  BY <1>1
<1>2. ASSUME NEW p \in Project, NEW t \in Transfer, NEW path \in Path, NEW stamp \in Stamp,
             NEW base \in Revision \cup {Null}, StartUpload(p, t, path, stamp, base)
      PROVE  u \in DOMAIN uploads' /\ uploads'[u] = uploads[u]
  BY <1>2 DEF StartUpload, Put
<1>3. ASSUME NEW p \in Project, NEW t \in Transfer, NEW offset \in 0..MaxFile, NEW data \in Block,
             AppendChunk(p, t, offset, data)
      PROVE  u \in DOMAIN uploads' /\ uploads'[u] = uploads[u]
  BY <1>3 DEF AppendChunk, TypeOK
<1>4. ASSUME NEW p \in Project, NEW t \in Transfer, NEW r \in Revision, FinishUpload(p, t, r)
      PROVE  u \in DOMAIN uploads' /\ uploads'[u] = uploads[u]
  BY <1>4 DEF FinishUpload, TypeOK
<1>5. ASSUME NEW p \in Project, NEW t \in Transfer, AbortUpload(p, t)
      PROVE  u \in DOMAIN uploads' /\ uploads'[u] = uploads[u]
  BY <1>5 DEF AbortUpload, Put, TypeOK
<1> QED BY <1>1, <1>2, <1>3, <1>4, <1>5
        DEF Next, CreateProject, SetOffline, DeclareManifest, Resolve, Decay, vars

\* A delayed begin, block, commit or cancel cannot reopen a settled transfer or change
\* its receipt (start_upload, append_chunk, finish_upload, abort_upload).
THEOREM SettledTransfersStay == Spec => TerminalTransfersStay
<1>1. TypeOK /\ [Next]_vars =>
        [\A u \in DOMAIN uploads \ Receiving :
            u \in DOMAIN uploads' /\ uploads'[u] = uploads[u]]_vars
  BY SettledStay
<1> QED BY <1>1, TypesAndHeads, PTL DEF Spec, TerminalTransfersStay

(***************************************************************************)
(* The journal of blocks                                                    *)
(***************************************************************************)

\* A transfer that goes on receiving, and whose blocks and offset stay.
LEMMA JournalFrame ==
    ASSUME NEW v, Contiguous(v), uploads'[v].offset = uploads[v].offset,
           \A o \in 0..MaxFile :
              /\ <<v, o>> \in DOMAIN chunks' <=> <<v, o>> \in DOMAIN chunks
              /\ <<v, o>> \in DOMAIN chunks => chunks'[<<v, o>>] = chunks[<<v, o>>]
    PROVE  Contiguous(v)'
<1>1. \A i : Covering(v, i)' = Covering(v, i)
  BY DEF Covering
<1> QED BY <1>1 DEF Contiguous

\* The block that is appended starts where the others end.
LEMMA JournalAppend ==
    ASSUME TypeOK, JournalExact, NEW p \in Project, NEW t \in Transfer,
           NEW offset \in 0..MaxFile, NEW data \in Block, AppendChunk(p, t, offset, data)
    PROVE  Contiguous(<<p, t>>)'
<1> DEFINE u == <<p, t>>
<1>1. /\ u \in Receiving /\ offset = uploads[u].offset /\ <<u, offset>> \notin DOMAIN chunks
      /\ chunks' = Put(chunks, <<u, offset>>, data)
      /\ uploads' = [uploads EXCEPT ![u].offset = offset + Len(data)]
  BY DEF AppendChunk
<1>2. Contiguous(u) /\ u \in DOMAIN uploads /\ uploads[u].offset = offset
  BY <1>1, ReceivingRow DEF JournalExact
<1>3. Len(data) \in 1..MaxChunk
  BY BlockLength
<1>4. uploads'[u].offset = offset + Len(data)
  BY <1>1, ReceivingRow DEF TypeOK
<1>5. /\ DOMAIN chunks' = DOMAIN chunks \cup {<<u, offset>>}
      /\ chunks'[<<u, offset>>] = data
      /\ \A c \in DOMAIN chunks : chunks'[c] = chunks[c]
  BY <1>1 DEF Put
<1>6. \A o \in 0..MaxFile : <<u, o>> \in DOMAIN chunks =>
         Len(chunks[<<u, o>>]) \in Nat /\ o + Len(chunks[<<u, o>>]) <= offset
  BY <1>2, BlockLength, Bounds DEF Contiguous, TypeOK
<1> HIDE DEF u
<1>7. ASSUME NEW i \in 1..(offset + Len(data))
      PROVE  \E o \in Covering(u, i)' : Covering(u, i)' = {o}
  <2>1. CASE i <= offset
    <3>1. Covering(u, i)' = Covering(u, i)
      BY <1>3, <1>5, <2>1 DEF Covering
    <3> QED BY <1>2, <2>1, <3>1 DEF Contiguous
  <2>2. CASE i > offset
    <3>1. Covering(u, i)' = {offset}
      BY <1>3, <1>5, <1>6, <2>2, Bounds DEF Covering
    <3> QED BY <3>1
  <2> QED BY <1>3, <2>1, <2>2
<1>8. \A o \in 0..MaxFile :
         <<u, o>> \in DOMAIN chunks' => o + Len(chunks'[<<u, o>>]) <= offset + Len(data)
  BY <1>3, <1>5, <1>6, Bounds
<1>9. Contiguous(u)'
  BY <1>4, <1>7, <1>8 DEF Contiguous
<1> QED BY <1>9 DEF u

LEMMA JournalStep == TypeOK /\ JournalExact /\ [Next]_vars => JournalExact'
<1> SUFFICES ASSUME TypeOK, JournalExact, [Next]_vars PROVE JournalExact'
  OBVIOUS
<1>1. CASE UNCHANGED <<uploads, chunks>>
  <2>1. Receiving' = Receiving /\ \A v \in Receiving : Contiguous(v)'
    BY <1>1, JournalFrame DEF Receiving, JournalExact
  <2> QED BY <1>1, <2>1 DEF JournalExact
<1>2. ASSUME NEW p \in Project, NEW t \in Transfer, NEW path \in Path, NEW stamp \in Stamp,
             NEW base \in Revision \cup {Null}, StartUpload(p, t, path, stamp, base)
      PROVE  JournalExact'
  <2> DEFINE u == <<p, t>>
  <2>1. /\ u \notin DOMAIN uploads /\ UNCHANGED chunks
        /\ uploads' = Put(uploads, u, [path |-> path, stamp |-> stamp, base |-> base,
                                       state |-> "receiving", offset |-> 0, receipt |-> Null])
    BY <1>2 DEF StartUpload
  <2>2. /\ Receiving' = Receiving \cup {u}
        /\ uploads'[u].offset = 0 /\ uploads'[u].stamp = stamp
        /\ \A v \in Receiving : uploads'[v] = uploads[v]
    BY <2>1 DEF Put, Receiving
  <2>3. \A o : <<u, o>> \notin DOMAIN chunks
    BY <2>1 DEF JournalExact, Receiving
  <2> HIDE DEF u
  <2>4. Contiguous(u)'
    BY <2>1, <2>2, <2>3 DEF Contiguous
  <2>5. \A v \in Receiving : Contiguous(v)'
    BY <2>1, <2>2, JournalFrame DEF JournalExact
  <2>6. stamp.size \in Nat
    BY Bounds
  <2> QED BY <2>1, <2>2, <2>4, <2>5, <2>6 DEF JournalExact
<1>3. ASSUME NEW p \in Project, NEW t \in Transfer, NEW offset \in 0..MaxFile, NEW data \in Block,
             AppendChunk(p, t, offset, data)
      PROVE  JournalExact'
  <2> DEFINE u == <<p, t>>
  <2>1. /\ u \in Receiving /\ chunks' = Put(chunks, <<u, offset>>, data)
        /\ uploads' = [uploads EXCEPT ![u].offset = offset + Len(data)]
        /\ offset + Len(data) <= uploads[u].stamp.size
    BY <1>3 DEF AppendChunk
  <2>2. Contiguous(u)'
    BY <1>3, JournalAppend
  <2> HIDE DEF u
  <2>3. /\ Receiving' = Receiving
        /\ uploads'[u].offset = offset + Len(data) /\ uploads'[u].stamp = uploads[u].stamp
        /\ \A v \in Receiving : v # u => uploads'[v] = uploads[v]
    BY <2>1, ReceivingRow DEF Receiving, TypeOK
  <2>4. ASSUME NEW v \in Receiving, v # u PROVE Contiguous(v)'
    <3>1. \A o : <<v, o>> # <<u, offset>>
      BY <2>4
    <3>2. /\ Contiguous(v) /\ uploads'[v].offset = uploads[v].offset
          /\ \A o \in 0..MaxFile :
                /\ <<v, o>> \in DOMAIN chunks' <=> <<v, o>> \in DOMAIN chunks
                /\ <<v, o>> \in DOMAIN chunks => chunks'[<<v, o>>] = chunks[<<v, o>>]
      BY <2>1, <2>3, <2>4, <3>1 DEF JournalExact, Put
    <3> QED BY <3>2, JournalFrame
  <2>5. \A c \in DOMAIN chunks' : c[1] \in Receiving
    BY <2>1 DEF JournalExact, Put
  <2>6. \A v \in Receiving : uploads'[v].offset <= uploads'[v].stamp.size
    BY <2>1, <2>3 DEF JournalExact
  <2> QED BY <2>2, <2>3, <2>4, <2>5, <2>6 DEF JournalExact
<1>4. ASSUME NEW u \in Receiving, chunks' = Without(chunks, ChunksOf(u)),
             Receiving' = Receiving \ {u}, \A v \in Receiving \ {u} : uploads'[v] = uploads[v]
      PROVE  JournalExact'
  <2>1. ASSUME NEW v \in Receiving \ {u} PROVE Contiguous(v)'
    <3>1. \A o : <<v, o>> \notin ChunksOf(u)
      BY <2>1 DEF ChunksOf
    <3>2. /\ Contiguous(v) /\ uploads'[v].offset = uploads[v].offset
          /\ \A o \in 0..MaxFile :
                /\ <<v, o>> \in DOMAIN chunks' <=> <<v, o>> \in DOMAIN chunks
                /\ <<v, o>> \in DOMAIN chunks => chunks'[<<v, o>>] = chunks[<<v, o>>]
      BY <1>4, <3>1 DEF JournalExact, Without
    <3> QED BY <3>2, JournalFrame
  <2>2. \A c \in DOMAIN chunks' : c[1] \in Receiving \ {u}
    BY <1>4 DEF JournalExact, Without, ChunksOf
  <2> QED BY <1>4, <2>1, <2>2 DEF JournalExact
<1>5. ASSUME NEW p \in Project, NEW t \in Transfer, NEW r \in Revision, FinishUpload(p, t, r)
      PROVE  JournalExact'
  <2> DEFINE u == <<p, t>>
  <2>1. /\ u \in Receiving /\ chunks' = Without(chunks, ChunksOf(u))
        /\ uploads' = [uploads EXCEPT ![u].state = "committed", ![u].receipt = r]
    BY <1>5 DEF FinishUpload
  <2> HIDE DEF u
  <2>2. Receiving' = Receiving \ {u} /\ \A v \in Receiving \ {u} : uploads'[v] = uploads[v]
    BY <2>1, ReceivingRow DEF Receiving, TypeOK
  <2> QED BY <1>4, <2>1, <2>2
<1>6. ASSUME NEW p \in Project, NEW t \in Transfer, AbortUpload(p, t)
      PROVE  JournalExact'
  <2> DEFINE u == <<p, t>>
  <2>1. CASE /\ u \notin DOMAIN uploads
             /\ uploads' = Put(uploads, u, Tombstone)
             /\ UNCHANGED chunks
    <3> HIDE DEF u
    <3>1. Receiving' = Receiving /\ \A v \in Receiving : uploads'[v] = uploads[v]
      BY <2>1 DEF Receiving, Put, Tombstone
    <3>2. \A v \in Receiving : Contiguous(v)'
      BY <2>1, <3>1, JournalFrame DEF JournalExact
    <3> QED BY <2>1, <3>1, <3>2 DEF JournalExact
  <2>2. CASE /\ u \in Receiving
             /\ chunks' = Without(chunks, ChunksOf(u))
             /\ uploads' = [uploads EXCEPT ![u].state = "aborted"]
    <3> HIDE DEF u
    <3>1. Receiving' = Receiving \ {u} /\ \A v \in Receiving \ {u} : uploads'[v] = uploads[v]
      BY <2>2, ReceivingRow DEF Receiving, TypeOK
    <3> QED BY <1>4, <2>2, <3>1
  <2> QED BY <1>6, <2>1, <2>2 DEF AbortUpload
<1> QED BY <1>1, <1>2, <1>3, <1>5, <1>6
        DEF Next, CreateProject, SetOffline, DeclareManifest, Resolve, Decay, vars

(***************************************************************************)
(* Paths                                                                    *)
(***************************************************************************)

\* The paths of project p that NoAliasedPaths speaks of.
LivePaths(p) ==
    {versions[r].path : r \in {r \in DOMAIN versions : versions[r].project = p}}
    \cup {uploads[u].path :
             u \in {u \in DOMAIN uploads : u[1] = p /\ uploads[u].state # "aborted"}}

LEMMA AliasedPaths ==
    NoAliasedPaths <=>
        \A p \in Project : \A q1, q2 \in LivePaths(p) : <<q1, q2>> \notin Alias
BY DEF NoAliasedPaths, LivePaths

\* A cancelled transfer has no live path, and the others have one.
LEMMA LivePathsAreKnown == TypeOK => \A p : LivePaths(p) \subseteq KnownPaths(p) \cap Path
BY DEF LivePaths, KnownPaths, TypeOK, Version, UploadRow, Tombstone

\* start_upload is the only method that adds a path.
LEMMA LivePathsGrow ==
    ASSUME TypeOK, [Next]_vars, NEW q \in Project
    PROVE  \/ LivePaths(q)' \subseteq LivePaths(q)
           \/ \E path \in Path :
                 /\ LivePaths(q)' \subseteq LivePaths(q) \cup {path}
                 /\ \A known \in KnownPaths(q) : <<path, known>> \notin Alias
<1>1. CASE UNCHANGED <<uploads, versions>>
  BY <1>1 DEF LivePaths
<1>2. ASSUME NEW p \in Project, NEW t \in Transfer, NEW path \in Path, NEW stamp \in Stamp,
             NEW base \in Revision \cup {Null}, StartUpload(p, t, path, stamp, base)
      PROVE  \/ LivePaths(q)' \subseteq LivePaths(q)
             \/ /\ LivePaths(q)' \subseteq LivePaths(q) \cup {path}
                /\ \A known \in KnownPaths(q) : <<path, known>> \notin Alias
  <2> DEFINE u == <<p, t>>
             row == [path |-> path, stamp |-> stamp, base |-> base,
                     state |-> "receiving", offset |-> 0, receipt |-> Null]
  <2>1. /\ UNCHANGED versions /\ uploads' = Put(uploads, u, row)
        /\ \A known \in KnownPaths(p) : <<path, known>> \notin Alias
        /\ row.path = path /\ u[1] = p
    BY <1>2 DEF StartUpload
  <2> HIDE DEF u, row
  <2>2. /\ DOMAIN uploads' = DOMAIN uploads \cup {u} /\ uploads'[u].path = path
        /\ \A v \in DOMAIN uploads : v # u => uploads'[v] = uploads[v]
    BY <2>1 DEF Put
  <2>3. CASE q = p
    <3>1. LivePaths(p)' \subseteq LivePaths(p) \cup {path}
      BY <2>1, <2>2 DEF LivePaths
    <3> QED BY <2>1, <2>3, <3>1
  <2>4. CASE q # p
    <3>1. LivePaths(q)' \subseteq LivePaths(q)
      BY <2>1, <2>2, <2>4 DEF LivePaths
    <3> QED BY <3>1
  <2> QED BY <2>3, <2>4
<1>3. ASSUME NEW p \in Project, NEW t \in Transfer, NEW offset \in 0..MaxFile, NEW data \in Block,
             AppendChunk(p, t, offset, data)
      PROVE  LivePaths(q)' \subseteq LivePaths(q)
  <2>1. /\ UNCHANGED versions /\ DOMAIN uploads' = DOMAIN uploads
        /\ \A v \in DOMAIN uploads : /\ uploads'[v].path = uploads[v].path
                                     /\ uploads'[v].state = uploads[v].state
    BY <1>3, ReceivingRow DEF AppendChunk, TypeOK
  <2> QED BY <2>1 DEF LivePaths
<1>4. ASSUME NEW p \in Project, NEW t \in Transfer, NEW r \in Revision, FinishUpload(p, t, r)
      PROVE  LivePaths(q)' \subseteq LivePaths(q)
  <2> DEFINE u == <<p, t>>
             row == uploads[u]
             ver == [project |-> p, path |-> row.path, stamp |-> row.stamp, body |-> Body(u)]
  <2>1. /\ u \in Receiving /\ u[1] = p
        /\ versions' = Put(versions, r, ver) /\ ver.project = p /\ ver.path = row.path
        /\ uploads' = [uploads EXCEPT ![u] = [row EXCEPT !.state = "committed", !.receipt = r]]
    BY <1>4 DEF FinishUpload
  <2>2. /\ DOMAIN versions' = DOMAIN versions \cup {r}
        /\ versions'[r].project = p /\ versions'[r].path = row.path
        /\ \A x \in DOMAIN versions : x # r => versions'[x] = versions[x]
    <3> HIDE DEF ver
    <3> QED BY <2>1 DEF Put
  <2>3. LET new == [row EXCEPT !.state = "committed", !.receipt = r]
        IN  new.path = row.path /\ new.state = "committed"
    BY <2>1, ReceivingRow
  <2>4. /\ DOMAIN uploads' = DOMAIN uploads
        /\ uploads'[u].path = row.path
        /\ \A v \in DOMAIN uploads : v # u => uploads'[v] = uploads[v]
    BY <2>1, <2>3, ReceivingRow DEF TypeOK
  <2>5. row.state = "receiving" /\ u \in DOMAIN uploads
    BY <2>1, ReceivingRow
  <2>6. p = q => row.path \in LivePaths(q)
    BY <2>1, <2>5 DEF LivePaths
  <2> HIDE DEF u, row
  <2>7. ASSUME NEW x \in DOMAIN versions', versions'[x].project = q
        PROVE  versions'[x].path \in LivePaths(q)
    <3>1. CASE x = r
      BY <2>2, <2>6, <2>7, <3>1
    <3>2. CASE x # r
      BY <2>2, <2>7, <3>2 DEF LivePaths
    <3> QED BY <3>1, <3>2
  <2>8. ASSUME NEW v \in DOMAIN uploads', v[1] = q, uploads'[v].state # "aborted"
        PROVE  uploads'[v].path \in LivePaths(q)
    <3>1. CASE v = u
      BY <2>1, <2>4, <2>6, <2>8, <3>1
    <3>2. CASE v # u
      BY <2>4, <2>8, <3>2 DEF LivePaths
    <3> QED BY <3>1, <3>2
  <2>9. \A x \in LivePaths(q)' :
           \/ \E y \in DOMAIN versions' : versions'[y].project = q /\ x = versions'[y].path
           \/ \E v \in DOMAIN uploads' : v[1] = q /\ uploads'[v].state # "aborted" /\ x = uploads'[v].path
    BY DEF LivePaths
  <2> QED BY <2>7, <2>8, <2>9
<1>5. ASSUME NEW p \in Project, NEW t \in Transfer, AbortUpload(p, t)
      PROVE  LivePaths(q)' \subseteq LivePaths(q)
  <2> DEFINE u == <<p, t>>
  <2>1. /\ UNCHANGED versions /\ u \in DOMAIN uploads'
        /\ DOMAIN uploads' \subseteq DOMAIN uploads \cup {u} /\ uploads'[u].state = "aborted"
        /\ \A v \in DOMAIN uploads : v # u => uploads'[v] = uploads[v]
    <3>1. CASE u \notin DOMAIN uploads /\ uploads' = Put(uploads, u, Tombstone)
      BY <1>5, <3>1 DEF AbortUpload, Put, Tombstone
    <3>2. CASE u \in Receiving /\ uploads' = [uploads EXCEPT ![u].state = "aborted"]
      BY <1>5, <3>2, ReceivingRow DEF AbortUpload, TypeOK
    <3> QED BY <1>5, <3>1, <3>2 DEF AbortUpload
  <2> HIDE DEF u
  <2> QED BY <2>1 DEF LivePaths
<1>6. CASE \E r \in Revision : Decay(r)
  <2>1. /\ UNCHANGED uploads /\ DOMAIN versions' = DOMAIN versions
        /\ \A x \in DOMAIN versions : /\ versions'[x].project = versions[x].project
                                      /\ versions'[x].path = versions[x].path
    BY <1>6 DEF Decay, TypeOK, Version
  <2> QED BY <2>1 DEF LivePaths
<1> QED BY <1>1, <1>2, <1>3, <1>4, <1>5, <1>6
        DEF Next, CreateProject, SetOffline, DeclareManifest, Resolve, vars

LEMMA PathsStep == TypeOK /\ NoAliasedPaths /\ [Next]_vars => NoAliasedPaths'
<1> SUFFICES ASSUME TypeOK, NoAliasedPaths, [Next]_vars, NEW p \in Project,
                    NEW q1 \in LivePaths(p)', NEW q2 \in LivePaths(p)'
             PROVE  <<q1, q2>> \notin Alias
  BY DEF NoAliasedPaths, LivePaths
<1>1. \A x, y \in LivePaths(p) : <<x, y>> \notin Alias
  BY AliasedPaths
<1>2. CASE LivePaths(p)' \subseteq LivePaths(p)
  BY <1>1, <1>2
<1>3. ASSUME NEW path \in Path, LivePaths(p)' \subseteq LivePaths(p) \cup {path},
             \A known \in KnownPaths(p) : <<path, known>> \notin Alias
      PROVE  <<q1, q2>> \notin Alias
  <2>1. \A x \in LivePaths(p) : <<path, x>> \notin Alias /\ <<x, path>> \notin Alias
    BY <1>3, LivePathsAreKnown, AliasAssumption
  <2>2. <<path, path>> \notin Alias
    BY AliasAssumption
  <2> QED BY <1>1, <1>3, <2>1, <2>2
<1> QED BY <1>2, <1>3, LivePathsGrow

(***************************************************************************)
(* Versions and receipts                                                    *)
(***************************************************************************)

Committed == {u \in DOMAIN uploads : uploads[u].state = "committed"}

\* Nothing is committed or published, and no version is given another place.
LEMMA ReceiptsFrame ==
    ASSUME OneVersionPerTransfer, Committed' = Committed,
           \A u \in Committed : uploads'[u] = uploads[u],
           DOMAIN versions' = DOMAIN versions,
           \A r \in DOMAIN versions : /\ versions'[r].project = versions[r].project
                                       /\ versions'[r].path = versions[r].path
                                       /\ versions'[r].stamp = versions[r].stamp
    PROVE  OneVersionPerTransfer'
BY DEF OneVersionPerTransfer, Committed

LEMMA ReceiptsStep == TypeOK /\ OneVersionPerTransfer /\ [Next]_vars => OneVersionPerTransfer'
<1> SUFFICES ASSUME TypeOK, OneVersionPerTransfer, [Next]_vars PROVE OneVersionPerTransfer'
  OBVIOUS
<1>1. CASE UNCHANGED <<uploads, versions>>
  BY <1>1, ReceiptsFrame DEF Committed
<1>2. ASSUME NEW p \in Project, NEW t \in Transfer, NEW path \in Path, NEW stamp \in Stamp,
             NEW base \in Revision \cup {Null}, StartUpload(p, t, path, stamp, base)
      PROVE  OneVersionPerTransfer'
  <2>1. UNCHANGED versions /\ Committed' = Committed
    BY <1>2 DEF StartUpload, Put, Committed
  <2>2. \A u \in Committed : uploads'[u] = uploads[u]
    BY <1>2 DEF StartUpload, Put, Committed
  <2> QED BY <2>1, <2>2, ReceiptsFrame
<1>3. ASSUME NEW p \in Project, NEW t \in Transfer, NEW offset \in 0..MaxFile, NEW data \in Block,
             AppendChunk(p, t, offset, data)
      PROVE  OneVersionPerTransfer'
  <2>1. UNCHANGED versions /\ Committed' = Committed /\ \A u \in Committed : uploads'[u] = uploads[u]
    BY <1>3, ReceivingRow DEF AppendChunk, Committed, TypeOK, Receiving
  <2> QED BY <2>1, ReceiptsFrame
<1>4. ASSUME NEW p \in Project, NEW t \in Transfer, NEW r \in Revision, FinishUpload(p, t, r)
      PROVE  OneVersionPerTransfer'
  <2> DEFINE u == <<p, t>>
             row == uploads[u]
             ver == [project |-> p, path |-> row.path, stamp |-> row.stamp, body |-> Body(u)]
             new == [row EXCEPT !.state = "committed", !.receipt = r]
  <2>1. /\ u \in Receiving /\ u[1] = p /\ r \notin DOMAIN versions
        /\ versions' = Put(versions, r, ver)
        /\ ver.project = p /\ ver.path = row.path /\ ver.stamp = row.stamp
        /\ uploads' = [uploads EXCEPT ![u] = new]
    BY <1>4 DEF FinishUpload
  <2>2. /\ DOMAIN versions' = DOMAIN versions \cup {r} /\ versions'[r] = ver
        /\ \A x \in DOMAIN versions : versions'[x] = versions[x]
    <3> HIDE DEF ver
    <3> QED BY <2>1 DEF Put
  <2>3. /\ new.path = row.path /\ new.stamp = row.stamp
        /\ new.state = "committed" /\ new.receipt = r
    BY <2>1, ReceivingRow
  <2>4. /\ DOMAIN uploads' = DOMAIN uploads /\ u \in DOMAIN uploads /\ uploads'[u] = new
        /\ \A v \in DOMAIN uploads : v # u => uploads'[v] = uploads[v]
    <3> HIDE DEF new
    <3> QED BY <2>1, ReceivingRow DEF TypeOK
  <2>5. u \notin Committed
    BY <2>1 DEF Receiving, Committed
  <2> HIDE DEF u, row, ver, new
  <2>6. Committed' = Committed \cup {u}
    BY <2>3, <2>4, <2>5 DEF Committed
  <2>7. \A v \in Committed' :
           /\ uploads'[v].receipt \in DOMAIN versions'
           /\ versions'[uploads'[v].receipt].project = v[1]
           /\ versions'[uploads'[v].receipt].path = uploads'[v].path
           /\ versions'[uploads'[v].receipt].stamp = uploads'[v].stamp
    <3> TAKE v \in Committed'
    <3>1. CASE v = u
      BY <2>1, <2>2, <2>3, <2>4, <3>1
    <3>2. CASE v # u
      <4>1. v \in Committed /\ uploads'[v] = uploads[v]
        BY <2>4, <2>6, <3>2 DEF Committed
      <4> QED BY <2>2, <4>1 DEF OneVersionPerTransfer, Committed
    <3> QED BY <3>1, <3>2
  <2>8. ASSUME NEW x \in DOMAIN versions'
        PROVE  \E w \in Committed' : /\ uploads'[w].receipt = x
                                     /\ \A v \in Committed' : uploads'[v].receipt = x => v = w
    <3>1. \A v \in Committed : uploads'[v] = uploads[v] /\ uploads[v].receipt \in DOMAIN versions
      BY <2>4, <2>5 DEF OneVersionPerTransfer, Committed
    <3>2. CASE x = r
      BY <2>1, <2>3, <2>4, <2>6, <3>1, <3>2
    <3>3. CASE x # r
      <4>1. PICK w \in Committed : /\ uploads[w].receipt = x
                                   /\ \A v \in Committed : uploads[v].receipt = x => v = w
        BY <2>2, <3>3 DEF OneVersionPerTransfer, Committed
      <4> QED BY <2>3, <2>4, <2>6, <3>1, <3>3, <4>1
    <3> QED BY <3>2, <3>3
  <2> QED BY <2>7, <2>8 DEF OneVersionPerTransfer, Committed
<1>5. ASSUME NEW p \in Project, NEW t \in Transfer, AbortUpload(p, t)
      PROVE  OneVersionPerTransfer'
  <2> DEFINE u == <<p, t>>
  <2>1. CASE u \notin DOMAIN uploads /\ uploads' = Put(uploads, u, Tombstone)
    <3>1. UNCHANGED versions /\ Committed' = Committed /\ \A v \in Committed : uploads'[v] = uploads[v]
      BY <1>5, <2>1 DEF AbortUpload, Put, Committed, Tombstone
    <3> QED BY <3>1, ReceiptsFrame
  <2>2. CASE u \in Receiving /\ uploads' = [uploads EXCEPT ![u].state = "aborted"]
    <3>1. UNCHANGED versions /\ Committed' = Committed /\ \A v \in Committed : uploads'[v] = uploads[v]
      BY <1>5, <2>2, ReceivingRow DEF AbortUpload, Committed, TypeOK, Receiving
    <3> QED BY <3>1, ReceiptsFrame
  <2> QED BY <1>5, <2>1, <2>2 DEF AbortUpload
<1>6. CASE \E r \in Revision : Decay(r)
  <2>1. /\ UNCHANGED uploads /\ DOMAIN versions' = DOMAIN versions
        /\ \A x \in DOMAIN versions : /\ versions'[x].project = versions[x].project
                                      /\ versions'[x].path = versions[x].path
                                      /\ versions'[x].stamp = versions[x].stamp
    BY <1>6 DEF Decay, TypeOK, Version
  <2> QED BY <2>1, ReceiptsFrame DEF Committed
<1> QED BY <1>1, <1>2, <1>3, <1>4, <1>5, <1>6
        DEF Next, CreateProject, SetOffline, DeclareManifest, Resolve, vars

\* The journal, the paths and the versions of a tenant fit together in every reachable
\* state, whatever order the requests of its clients come in.
THEOREM TransfersFitTogether == Spec => []TransfersInv
<1> DEFINE Fits == JournalExact /\ NoAliasedPaths /\ OneVersionPerTransfer
<1>1. Init => Fits
  BY DEF Init, JournalExact, NoAliasedPaths, OneVersionPerTransfer, Receiving
<1>2. TypeOK /\ Fits /\ [Next]_vars => Fits'
  BY JournalStep, PathsStep, ReceiptsStep
<1>3. TypeOK /\ Fits => TransfersInv
  BY DEF TransfersInv
<1> QED BY <1>1, <1>2, <1>3, TypesAndHeads, PTL DEF Spec
==============================================================================
