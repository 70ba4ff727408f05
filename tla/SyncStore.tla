------------------------------ MODULE SyncStore ------------------------------
(***************************************************************************)
(* The tenant store of ThreadDesk Server & Sync: durable uploads that are   *)
(* sent in blocks, immutable file versions, and the current heads of every  *)
(* file of a project (server_sync/store.py, class SyncStore).               *)
(*                                                                          *)
(* Every public method of SyncStore is one BEGIN IMMEDIATE transaction of   *)
(* SQLite, so every method is one action here; a request that the code      *)
(* refuses, or answers without a change, is a step that leaves all the      *)
(* tables alone.  Requests of all the clients of a tenant, including late,  *)
(* repeated and reordered ones, may arrive in any order.                    *)
(*                                                                          *)
(* A table is a function from the primary keys of its rows to the rows; a   *)
(* row exists when its key is in the DOMAIN.  A file's bytes are a sequence *)
(* over Byte, and the SHA-256 of some bytes is represented by those bytes.  *)
(***************************************************************************)
EXTENDS Naturals, FiniteSets, Sequences

CONSTANTS
    Project,      \* project identifiers of one tenant
    Path,         \* relative file paths that pass validate_path
    Alias,        \* pairs of different paths for which _path_collision is true
    Transfer,     \* transfer identifiers chosen by the clients
    Revision,     \* revision identifiers (uuid4)
    Reporter,     \* device identifiers that declare manifests
    Browser,      \* the reserved reporter 'browser-server'
    Byte,         \* byte values
    Stamp,        \* the (size, SHA-256) pairs that requests may carry
    MaxFile,      \* MAX_FILE_BYTES
    MaxChunk,     \* MAX_CHUNK_BYTES
    MaxTenant,    \* MAX_TENANT_BYTES
    MaxActive,    \* MAX_ACTIVE_TRANSFERS
    MaxReserved,  \* MAX_RESERVED_BYTES
    Damaged,      \* stored bytes that no longer have the recorded digest
    Null          \* SQL NULL

Content == UNION {[1..n -> Byte] : n \in 0..MaxFile}
Block   == UNION {[1..n -> Byte] : n \in 1..MaxChunk}
Upload  == Project \X Transfer        \* the primary key of table uploads

ASSUME BoundsAssumption ==
    /\ MaxFile \in Nat /\ MaxChunk \in Nat /\ MaxTenant \in Nat
    /\ MaxActive \in Nat /\ MaxReserved \in Nat

ASSUME AliasAssumption ==
    /\ Alias \subseteq Path \X Path
    /\ \A q1, q2 \in Path : <<q1, q2>> \in Alias => <<q2, q1>> \in Alias
    /\ \A q \in Path : <<q, q>> \notin Alias

ASSUME StampAssumption == Stamp \subseteq [size : 0..MaxFile, sha256 : Content]

ASSUME NullAssumption == Null \notin Revision \cup Path

VARIABLES
    projects,     \* project |-> offline copies enabled?
    manifests,    \* <<project, reporter>> |-> [files, issues]
    versions,     \* revision |-> [project, path, stamp, body]; never deleted
    heads,        \* rows <<project, path, revision>>: the current versions
    uploads,      \* <<project, transfer>> |-> the transfer's row
    chunks        \* <<upload, offset>> |-> the block received at that offset

vars == <<projects, manifests, versions, heads, uploads, chunks>>

\* The files of a manifest row, and the lists declare_manifest accepts.
FileList  == UNION {[S -> Stamp] : S \in SUBSET Path}
Inventory == {files \in FileList :
                 \A q1, q2 \in DOMAIN files : <<q1, q2>> \notin Alias}

Version == [project : Project, path : Path, stamp : Stamp,
            body : Content \cup {Damaged}]

\* The row a cancellation leaves for a transfer that was never begun.
Tombstone == [path |-> Null, stamp |-> Null, base |-> Null, state |-> "aborted",
              offset |-> 0, receipt |-> Null]

UploadRow == [path : Path, stamp : Stamp, base : Revision \cup {Null},
              state : {"receiving", "committed", "aborted"},
              offset : 0..MaxFile, receipt : Revision \cup {Null}]
             \cup {Tombstone}

TypeOK ==
    /\ projects \in [DOMAIN projects -> BOOLEAN]
    /\ DOMAIN projects \subseteq Project
    /\ manifests \in [DOMAIN manifests -> [files : FileList, issues : BOOLEAN]]
    /\ DOMAIN manifests \subseteq Project \X Reporter
    /\ versions \in [DOMAIN versions -> Version]
    /\ DOMAIN versions \subseteq Revision
    /\ heads \subseteq Project \X Path \X Revision
    /\ uploads \in [DOMAIN uploads -> UploadRow]
    /\ DOMAIN uploads \subseteq Upload
    /\ chunks \in [DOMAIN chunks -> Block]
    /\ DOMAIN chunks \subseteq Upload \X (0..MaxFile)

(***************************************************************************)
(* SQL and file helpers                                                     *)
(***************************************************************************)

\* INSERT (OR REPLACE) of row v under primary key k.
Put(table, k, v) ==
    [x \in DOMAIN table \cup {k} |-> IF x = k THEN v ELSE table[x]]

\* DELETE of the rows whose key satisfies the WHERE clause.
Without(table, keys) == [x \in DOMAIN table \ keys |-> table[x]]

Receiving == {u \in DOMAIN uploads : uploads[u].state = "receiving"}

\* SUM(size) over a table, as the set of the bytes it counts.
StoredBytes   == {b \in (DOMAIN versions) \X (1..MaxFile) :
                     b[2] <= versions[b[1]].stamp.size}
ReservedBytes == {b \in Receiving \X (1..MaxFile) :
                     b[2] <= uploads[b[1]].stamp.size}

\* Faulty variant: open reservations are not counted.
WithinStoredQuota(size) ==
    /\ Cardinality(Receiving) < MaxActive
    /\ Cardinality(StoredBytes) + size <= MaxTenant

\* The quota check of start_upload for a new transfer of that many bytes.
WithinQuota(size) ==
    /\ Cardinality(Receiving) < MaxActive
    /\ Cardinality(ReservedBytes) + size <= MaxReserved
    /\ Cardinality(StoredBytes) + Cardinality(ReservedBytes) + size <= MaxTenant

\* Paths a new upload may not collide with.
KnownPaths(p) ==
    {versions[r].path : r \in {r \in DOMAIN versions : versions[r].project = p}}
    \cup {uploads[u].path :
             u \in {u \in DOMAIN uploads : u[1] = p /\ uploads[u].state # "aborted"}}
    \cup UNION {DOMAIN manifests[m].files : m \in {m \in DOMAIN manifests : m[1] = p}}

Heads(p, path) == {r \in Revision : <<p, path, r>> \in heads}

\* _verified of a stored row: the bytes still have the recorded size and digest.
Verified(body, stamp) == body = stamp.sha256 /\ Len(stamp.sha256) = stamp.size

\* Offsets of the blocks of upload u that cover its i-th byte.
Covering(u, i) == {o \in 0..MaxFile : /\ <<u, o>> \in DOMAIN chunks
                                      /\ o < i
                                      /\ i <= o + Len(chunks[<<u, o>>])}

\* The blocks lie end to end from offset 0: no gap and no overlap.
Contiguous(u) ==
    /\ \A i \in 1..uploads[u].offset :
          \E o \in Covering(u, i) : Covering(u, i) = {o}
    /\ \A o \in 0..MaxFile :
          <<u, o>> \in DOMAIN chunks => o + Len(chunks[<<u, o>>]) <= uploads[u].offset

\* b''.join(parts)
Body(u) == [i \in 1..uploads[u].offset |->
               LET o == CHOOSE o \in Covering(u, i) : TRUE
               IN  chunks[<<u, o>>][i - o]]

ChunksOf(u) == {c \in DOMAIN chunks : c[1] = u}

(***************************************************************************)
(* The status of a project, as _status derives it                           *)
(***************************************************************************)

Reporters(p) == {d \in Reporter : <<p, d>> \in DOMAIN manifests}

HeadPaths(p) == {path \in Path : Heads(p, path) # {}}

\* _server_view: the files that have exactly one head.
ServerView(p) ==
    [path \in {path \in Path : \E r \in Revision : Heads(p, path) = {r}} |->
        versions[CHOOSE r \in Revision : Heads(p, path) = {r}].stamp]

Declared(p, d) == IF d = Browser THEN ServerView(p) ELSE manifests[<<p, d>>].files

\* The different contents that the reporters require at a path.
Variants(p, path) ==
    {Declared(p, d)[path] : d \in {d \in Reporters(p) : path \in DOMAIN Declared(p, d)}}

Present(p, path, stamp) ==
    \E r \in Heads(p, path) : /\ versions[r].stamp = stamp
                              /\ Verified(versions[r].body, stamp)

\* Faulty variant: only files that were published once are looked at.
PublishedMissing(p) ==
    {path \in HeadPaths(p) : \E s \in Variants(p, path) : ~Present(p, path, s)}

Missing(p) == {path \in Path : \E s \in Variants(p, path) : ~Present(p, path, s)}

Conflicts(p) == {path \in Path : \E r1, r2 \in Heads(p, path) : r1 # r2}

Disagreeing(p) == {path \in Path : \E s1, s2 \in Variants(p, path) : s1 # s2}

Issues(p) ==
    \/ \E d \in Reporters(p) : manifests[<<p, d>>].issues
    \/ Disagreeing(p) # {}
    \/ \E path \in HeadPaths(p) :
          \/ Variants(p, path) = {}
          \/ \E r \in Heads(p, path) : ~Verified(versions[r].body, versions[r].stamp)

ActiveTransfers(p) == {u \in Receiving : u[1] = p}

StatusState(p) ==
    IF ~projects[p] THEN "metadata_only"
    ELSE IF Conflicts(p) # {} THEN "conflict"
    ELSE IF Issues(p) THEN "blocked"
    ELSE IF Reporters(p) = {} \/ Missing(p) # {} \/ ActiveTransfers(p) # {} THEN "pending"
    ELSE "ready"

(***************************************************************************)
(* The actions: one per method of SyncStore that changes a table            *)
(***************************************************************************)

Init ==
    /\ projects = <<>> /\ manifests = <<>> /\ versions = <<>>
    /\ heads = {}
    /\ uploads = <<>> /\ chunks = <<>>

CreateProject(p) ==
    /\ p \notin DOMAIN projects
    /\ projects' = Put(projects, p, FALSE)
    /\ UNCHANGED <<manifests, versions, heads, uploads, chunks>>

SetOffline(p, enabled) ==
    /\ p \in DOMAIN projects
    /\ projects' = [projects EXCEPT ![p] = enabled]
    /\ UNCHANGED <<manifests, versions, heads, uploads, chunks>>

\* The browser has no files of its own: its declaration is the server's view.
DeclareManifest(p, d, files, issues) ==
    /\ p \in DOMAIN projects
    /\ files \in Inventory
    /\ manifests' = Put(manifests, <<p, d>>,
                        [files |-> IF d = Browser THEN ServerView(p) ELSE files,
                         issues |-> issues])
    /\ UNCHANGED <<projects, versions, heads, uploads, chunks>>

\* Faulty variant: a cancelled transfer is begun anew.
RestartUpload(p, t, path, stamp, base) ==
    LET u == <<p, t>> IN
    /\ p \in DOMAIN projects
    /\ u \in DOMAIN uploads => uploads[u].state = "aborted"
    /\ projects[p] /\ base = Null /\ WithinQuota(stamp.size)
    /\ uploads' = Put(uploads, u,
                      [path |-> path, stamp |-> stamp, base |-> base,
                       state |-> "receiving", offset |-> 0, receipt |-> Null])
    /\ UNCHANGED <<projects, manifests, versions, heads, chunks>>

\* A known transfer is only reported (or refused): its row is never reopened.
StartUpload(p, t, path, stamp, base) ==
    LET u == <<p, t>> IN
    /\ p \in DOMAIN projects
    /\ u \notin DOMAIN uploads
    /\ projects[p]
    /\ base # Null => /\ base \in DOMAIN versions
                      /\ versions[base].project = p
                      /\ versions[base].path = path
    /\ \A known \in KnownPaths(p) : <<path, known>> \notin Alias
    /\ WithinQuota(stamp.size)
    /\ uploads' = Put(uploads, u,
                      [path |-> path, stamp |-> stamp, base |-> base,
                       state |-> "receiving", offset |-> 0, receipt |-> Null])
    /\ UNCHANGED <<projects, manifests, versions, heads, chunks>>

\* An exact repeat of a stored block changes nothing; another one is refused.
AppendChunk(p, t, offset, data) ==
    LET u == <<p, t>> IN
    /\ u \in Receiving
    /\ <<u, offset>> \notin DOMAIN chunks
    /\ projects[p]
    /\ offset = uploads[u].offset
    /\ offset + Len(data) <= uploads[u].stamp.size
    /\ chunks' = Put(chunks, <<u, offset>>, data)
    /\ uploads' = [uploads EXCEPT ![u].offset = offset + Len(data)]
    /\ UNCHANGED <<projects, manifests, versions, heads>>

\* What is common to the faulty variants of FinishUpload.
FinishInto(p, t, revision, current) ==
    LET u   == <<p, t>>
        row == uploads[u]
    IN
    /\ u \in Receiving /\ projects[p] /\ row.offset = row.stamp.size
    /\ revision \notin DOMAIN versions
    /\ versions' = Put(versions, revision,
                       [project |-> p, path |-> row.path,
                        stamp |-> row.stamp, body |-> row.stamp.sha256])
    /\ heads' = current \cup {<<p, row.path, revision>>}
    /\ UNCHANGED <<projects, manifests>>

\* The first commit publishes a new revision; a repeated one answers with the
\* stored receipt, and a body with another digest is refused.
FinishUpload(p, t, revision) ==
    LET u   == <<p, t>>
        row == uploads[u]
    IN
    /\ u \in Receiving
    /\ projects[p]
    /\ row.offset = row.stamp.size
    /\ Contiguous(u)
    /\ Verified(Body(u), row.stamp)
    /\ revision \notin DOMAIN versions
    /\ versions' = Put(versions, revision,
                       [project |-> p, path |-> row.path,
                        stamp |-> row.stamp, body |-> Body(u)])
    /\ heads' = (heads \ {<<p, row.path, row.base>>}) \cup {<<p, row.path, revision>>}
    /\ uploads' = [uploads EXCEPT ![u].state = "committed", ![u].receipt = revision]
    /\ chunks' = Without(chunks, ChunksOf(u))
    /\ UNCHANGED <<projects, manifests>>

\* Faulty variant: the blocks of a cancelled transfer stay.
AbortKeepingBlocks(p, t) ==
    /\ p \in DOMAIN projects
    /\ <<p, t>> \in Receiving
    /\ uploads' = [uploads EXCEPT ![<<p, t>>].state = "aborted"]
    /\ UNCHANGED <<projects, manifests, versions, heads, chunks>>

\* Cancelling an unknown transfer leaves a tombstone that bars a late begin.
AbortUpload(p, t) ==
    LET u == <<p, t>> IN
    /\ p \in DOMAIN projects
    /\ \/ /\ u \notin DOMAIN uploads
          /\ uploads' = Put(uploads, u, Tombstone)
          /\ UNCHANGED chunks
       \/ /\ u \in Receiving
          /\ chunks' = Without(chunks, ChunksOf(u))
          /\ uploads' = [uploads EXCEPT ![u].state = "aborted"]
    /\ UNCHANGED <<projects, manifests, versions, heads>>

\* Faulty variant: the choice need not be one of the heads.
ResolveUnlisted(p, path, expected, chosen) ==
    /\ p \in DOMAIN projects
    /\ Heads(p, path) = expected
    /\ chosen \in DOMAIN versions
    /\ heads' = {h \in heads : h[1] = p /\ h[2] = path => h[3] = chosen}
    /\ UNCHANGED <<projects, manifests, versions, uploads, chunks>>

\* Compare-and-set on the exact heads the caller has seen.
Resolve(p, path, expected, chosen) ==
    /\ p \in DOMAIN projects
    /\ Heads(p, path) = expected
    /\ chosen \in expected
    /\ Verified(versions[chosen].body, versions[chosen].stamp)
    /\ heads' = {h \in heads : h[1] = p /\ h[2] = path => h[3] = chosen}
    /\ UNCHANGED <<projects, manifests, versions, uploads, chunks>>

\* The environment: stored bytes rot, which _verified is there to notice.
Decay(r) ==
    /\ r \in DOMAIN versions
    /\ versions' = [versions EXCEPT ![r].body = Damaged]
    /\ UNCHANGED <<projects, manifests, heads, uploads, chunks>>

Next ==
    \/ \E p \in Project : CreateProject(p)
    \/ \E p \in Project, enabled \in BOOLEAN : SetOffline(p, enabled)
    \/ \E p \in Project, d \in Reporter, files \in Inventory, issues \in BOOLEAN :
          DeclareManifest(p, d, files, issues)
    \/ \E p \in Project, t \in Transfer, path \in Path, stamp \in Stamp,
          base \in Revision \cup {Null} : StartUpload(p, t, path, stamp, base)
    \/ \E p \in Project, t \in Transfer, offset \in 0..MaxFile, data \in Block :
          AppendChunk(p, t, offset, data)
    \/ \E p \in Project, t \in Transfer, r \in Revision : FinishUpload(p, t, r)
    \/ \E p \in Project, t \in Transfer : AbortUpload(p, t)
    \/ \E p \in Project, path \in Path, expected \in SUBSET Revision,
          chosen \in Revision : Resolve(p, path, expected, chosen)
    \/ \E r \in Revision : Decay(r)

Spec == Init /\ [][Next]_vars

(***************************************************************************)
(* What the store promises                                                  *)
(***************************************************************************)

\* The bytes of versions and reservations of ALL projects of the tenant stay
\* within the limits, although start_upload is the only method that checks them
\* and commits, blocks and cancellations come later, in any order, after it.
QuotaRespected ==
    /\ Cardinality(Receiving) <= MaxActive
    /\ Cardinality(ReservedBytes) <= MaxReserved
    /\ Cardinality(StoredBytes) + Cardinality(ReservedBytes) <= MaxTenant

\* The blocks of a receiving transfer cover its first offset bytes exactly once,
\* and no block outlives its transfer: a finished or cancelled one frees them.
JournalExact ==
    /\ \A c \in DOMAIN chunks : c[1] \in Receiving
    /\ \A u \in Receiving : Contiguous(u) /\ uploads[u].offset <= uploads[u].stamp.size

\* Every version comes from exactly one committed transfer, whose receipt names
\* it and whose begun manifest it matches: retried, late and repeated begins,
\* blocks and commits never publish the same transfer twice.
OneVersionPerTransfer ==
    LET Committed == {u \in DOMAIN uploads : uploads[u].state = "committed"} IN
    /\ \A u \in Committed :
          LET row == uploads[u] IN
          /\ row.receipt \in DOMAIN versions
          /\ versions[row.receipt].project = u[1]
          /\ versions[row.receipt].path = row.path
          /\ versions[row.receipt].stamp = row.stamp
    /\ \A r \in DOMAIN versions :
          \E u \in Committed : /\ uploads[u].receipt = r
                               /\ \A v \in Committed : uploads[v].receipt = r => v = u

\* A file that was ever published always has a current head, every head is a
\* version of that very file, and bases stay within the file's own history.
HistoryHasAHead ==
    /\ \A r \in DOMAIN versions : Heads(versions[r].project, versions[r].path) # {}
    /\ \A h \in heads : /\ h[3] \in DOMAIN versions
                         /\ versions[h[3]].project = h[1]
                         /\ versions[h[3]].path = h[2]
    /\ \A u \in DOMAIN uploads : uploads[u].base # Null =>
          /\ uploads[u].base \in DOMAIN versions
          /\ versions[uploads[u].base].project = u[1]
          /\ versions[uploads[u].base].path = uploads[u].path

\* The paths of a project that have a version or a live transfer never alias
\* each other, although the check of start_upload runs long before the commit.
NoAliasedPaths ==
    \A p \in Project :
        LET Live == {versions[r].path :
                        r \in {r \in DOMAIN versions : versions[r].project = p}}
                    \cup {uploads[u].path :
                        u \in {u \in DOMAIN uploads :
                                 u[1] = p /\ uploads[u].state # "aborted"}}
        IN  \A q1, q2 \in Live : <<q1, q2>> \notin Alias

\* Committed and cancelled transfers never change again: a delayed begin, block,
\* commit or cancel cannot reopen one, reserve for it or change its receipt.
TerminalTransfersStay ==
    [][\A u \in DOMAIN uploads \ Receiving :
          u \in DOMAIN uploads' /\ uploads'[u] = uploads[u]]_vars

\* In a ready project every file ever published or required by any reporter has
\* one head, with intact bytes, which is what every reporter that lists the file
\* (the browser included, whatever it once declared) has.
ReadyIsSound ==
    \A p \in DOMAIN projects : StatusState(p) = "ready" =>
        \A path \in Path :
            (\/ \E r \in DOMAIN versions : versions[r].project = p /\ versions[r].path = path
             \/ \E d \in Reporter \ {Browser} :
                   <<p, d>> \in DOMAIN manifests /\ path \in DOMAIN manifests[<<p, d>>].files) =>
            \E r \in Revision :
                /\ Heads(p, path) = {r}
                /\ versions[r].body = versions[r].stamp.sha256
                /\ \A d \in Reporter \ {Browser} :
                      (<<p, d>> \in DOMAIN manifests
                       /\ path \in DOMAIN manifests[<<p, d>>].files)
                      => manifests[<<p, d>>].files[path] = versions[r].stamp

\* The uploads, blocks, quotas and manifests together implement the history that
\* SyncHistory promises: transfers settle at most once, versions are immutable and
\* concurrent versions stay current until one is built upon or chosen.
History == INSTANCE SyncHistory WITH
    published <- [r \in DOMAIN versions |->
                     [project |-> versions[r].project, path |-> versions[r].path,
                      stamp |-> versions[r].stamp]],
    current   <- heads,
    settled   <- [u \in DOMAIN uploads \ Receiving |-> uploads[u].receipt]

ImplementsHistory == History!Spec

\* Whatever order transfers, blocks and commits of a tenant come in: the journal of a
\* transfer, the paths of a project and the versions fit together (begin, append_chunk,
\* commit).
TransfersInv ==
    /\ TypeOK
    /\ JournalExact
    /\ NoAliasedPaths
    /\ OneVersionPerTransfer
==============================================================================
