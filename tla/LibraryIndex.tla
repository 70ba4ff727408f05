----------------------------- MODULE LibraryIndex -----------------------------
(* The search index over the library's files, the threads and the nodes of the   *)
(* graph (services/library_index, library_search, library_refresh,               *)
(* library_links, library_runtime): a database that builders replace in one      *)
(* transaction each, and a manifest that they publish afterwards.  Importers,    *)
(* owners and other programs go on writing while an index is built, several      *)
(* builders run at a time, each of them may die, and the runtime's worker        *)
(* rebuilds what it finds out of date.                                           *)
(*                                                                               *)
(* Records, threads and file nodes are numbers that grow with every change, the  *)
(* signature of the sources is the value of all of them.  A generation is a new   *)
(* uuid: all that matters is who knows the one of the database.  The blobs are   *)
(* readable or not, all at once.                                                 *)
EXTENDS Integers, FiniteSets

CONSTANTS Record,
          Builder,        \* whoever rebuilds the index at a time
          Worker,         \* ... the runtime's own worker among them
          Unpublished,    \* no manifest
          MaxChanges,     \* bounds: changes of records and threads,
          MaxRefreshes,   \* refreshes after another write,
          MaxMishaps      \* builds that die, and times the blobs go away or come back

\* What a record, the nodes of all records and everything a build depends on may be.
Lists == [Record -> Nat]
NodeSets == [Record -> [shows : Nat, writes : Nat]]
Signatures == [records : Lists, nodes : NodeSets, workspace : Nat]
Manifests == [signature : Signatures, status : {"ready", "failed", "stale"}, filled : BOOLEAN]

ASSUME WorkerAssumption == Worker \in Builder
ASSUME NamesAssumption == /\ "manifest" \notin Builder /\ "nobody" \notin Builder
                          /\ Unpublished \notin Manifests
ASSUME BoundAssumption == MaxChanges \in Nat

VARIABLES records,        \* library-files/records: the edition of every record, 0 for none
          workspace,      \* the edition of the threads and of what else the store holds
          fileNodes,      \* the graph's node of every record: the edition it shows, and how
                          \* often it was written
          readable,       \* the blobs can be read
          database,       \* index.sqlite3: what its documents show, and who knows its
                          \* generation: its builder, then the manifest, or nobody
          manifest,       \* index.json
          builder,        \* what every builder is doing, and what it has read so far
          indexCount      \* the bounds used up
indexVars == <<records, workspace, fileNodes, readable, database, manifest, builder, indexCount>>

NoFiles == [r \in Record |-> 0]
NoNodes == [r \in Record |-> [shows |-> 0, writes |-> 0]]
Stored(list) == \E r \in Record : list[r] > 0

\* _source_state.
Signature == [records |-> records, nodes |-> fileNodes, workspace |-> workspace]

NoBuild == [step |-> "idle"]

\* Faulty variant: the database is not asked for its generation.
StatusBySignature ==
    IF manifest = Unpublished THEN "missing"
    ELSE IF manifest.signature # Signature THEN "stale"
    ELSE manifest.status

\* LibraryIndex.status: what every search asks first.
IndexStatus ==
    IF manifest = Unpublished THEN "missing"
    ELSE IF manifest.signature # Signature \/ database.known # "manifest" THEN "stale"
    ELSE manifest.status

\* _has_ready_index.
HasReadyIndex == manifest # Unpublished /\ manifest.status = "ready" /\ manifest.filled

Use(kind, max) ==
    /\ indexCount[kind] < max
    /\ indexCount' = [indexCount EXCEPT ![kind] = @ + 1]

-----------------------------------------------------------------------------
(* The sources change *)

\* A thread, or something else of the store, is written, by whatever program.
EditWorkspace ==
    /\ Use("changes", MaxChanges)
    /\ workspace' = workspace + 1
    /\ UNCHANGED <<records, fileNodes, readable, database, manifest, builder>>

\* The disk of the blobs goes away or comes back.
Outage ==
    /\ Use("mishaps", MaxMishaps)
    /\ readable' = ~readable
    /\ UNCHANGED <<records, workspace, fileNodes, database, manifest, builder>>

-----------------------------------------------------------------------------
(* A build *)

\* _replace with a status of "stale": only over the manifest of the current generation.
MarkStale ==
    IF manifest # Unpublished /\ database.known = "manifest"
    THEN manifest' = [manifest EXCEPT !.status = "stale"]
    ELSE UNCHANGED manifest

\* The first list of records is read: sync_file_nodes mirrors it.
StartBuild(b) ==
    builder' = [builder EXCEPT
        ![b] = [step |-> "sync", list |-> records, left |-> {r \in Record : records[r] > 0}]]

\* An import, or a request of the owner, writes a record and rebuilds the index
\* (rebuild_index, _refresh_index).
SaveRecord(b, r) ==
    /\ b # Worker /\ builder[b] = NoBuild
    /\ Use("changes", MaxChanges)
    /\ records' = [records EXCEPT ![r] = @ + 1]
    /\ builder' = [builder EXCEPT
         ![b] = [step |-> "sync", list |-> records', left |-> {x \in Record : records'[x] > 0}]]
    /\ UNCHANGED <<workspace, fileNodes, readable, database, manifest>>

\* refresh_existing, after a write that was committed: it marks the index first, and
\* makes none where there is none.
Refresh(b) ==
    /\ b # Worker /\ builder[b] = NoBuild
    /\ manifest # Unpublished
    /\ Use("refreshes", MaxRefreshes)
    /\ MarkStale
    /\ StartBuild(b)
    /\ UNCHANGED <<records, workspace, fileNodes, readable, database>>

\* Faulty variant: only an index that is missing or failed is repaired.
NeedsFirstBuild == \/ IndexStatus = "failed"
                   \/ IndexStatus = "missing" /\ Stored(records)

NeedsRefresh == \/ IndexStatus \in {"stale", "failed"}
                \/ IndexStatus = "missing" /\ Stored(records)

\* LibraryRuntime.tick, every few seconds, by one thread.
Tick ==
    /\ builder[Worker] = NoBuild
    /\ NeedsRefresh
    /\ MarkStale
    /\ StartBuild(Worker)
    /\ UNCHANGED <<records, workspace, fileNodes, readable, database, indexCount>>

\* _sync_file_node: one transaction per record, with the record as it was listed.  A
\* node that shows it already is not written.
SyncNode(b) ==
    /\ builder[b].step = "sync"
    /\ \E r \in builder[b].left :
         /\ builder' = [builder EXCEPT ![b].left = @ \ {r}]
         /\ fileNodes' = IF fileNodes[r].shows = builder[b].list[r] THEN fileNodes
                          ELSE [fileNodes EXCEPT ![r] = [shows |-> builder[b].list[r],
                                                         writes |-> @.writes + 1]]
    /\ UNCHANGED <<records, workspace, readable, database, manifest, indexCount>>

\* _read_records, for the index: before its signature is taken.
ReadRecords(b) ==
    /\ builder[b].step = "sync" /\ builder[b].left = {}
    /\ builder' = [builder EXCEPT ![b] = [step |-> "read", list |-> records]]
    /\ UNCHANGED <<records, workspace, fileNodes, readable, database, manifest, indexCount>>

Sign(b) ==
    /\ builder[b].step = "read"
    /\ builder' = [builder EXCEPT
         ![b] = [step |-> "signed", list |-> @.list, had |-> HasReadyIndex,
                 signature |-> Signature]]
    /\ UNCHANGED <<records, workspace, fileNodes, readable, database, manifest, indexCount>>

\* The write transaction of rebuild: the files of the list, the threads and nodes as they
\* are now, and a new generation.
CommitIndex(b) ==
    LET sources == builder[b].list
        failed == Stored(sources) /\ ~readable
    IN  /\ builder[b].step = "signed"
        /\ ~(failed /\ builder[b].had)
        /\ database' = [known |-> b,
                        files |-> IF failed THEN NoFiles ELSE sources,
                        nodes |-> fileNodes, workspace |-> workspace,
                        torn |-> sources # builder[b].signature.records]
        /\ builder' = [builder EXCEPT
             ![b] = [step |-> "committed", signature |-> builder[b].signature,
                     status |-> IF failed THEN "failed" ELSE "ready",
                     filled |-> Stored(sources) /\ ~failed]]
        /\ UNCHANGED <<records, workspace, fileNodes, readable, manifest, indexCount>>

\* _KeepPrevious: no file could be read, and there is an index that lists some.
KeepPrevious(b) ==
    /\ builder[b].step = "signed"
    /\ Stored(builder[b].list) /\ ~readable /\ builder[b].had
    /\ builder' = [builder EXCEPT ![b] = NoBuild]
    /\ UNCHANGED <<records, workspace, fileNodes, readable, database, manifest, indexCount>>

\* _replace: under the writer's lock of the database, and only for its own generation.
PublishIndex(b) ==
    /\ builder[b].step = "committed"
    /\ IF database.known = b
       THEN /\ manifest' = [signature |-> builder[b].signature, status |-> builder[b].status,
                            filled |-> builder[b].filled]
            /\ database' = [database EXCEPT !.known = "manifest"]
       ELSE UNCHANGED <<manifest, database>>
    /\ builder' = [builder EXCEPT ![b] = NoBuild]
    /\ UNCHANGED <<records, workspace, fileNodes, readable, indexCount>>

\* A builder dies, or gives up a database it finds locked.
DieBuilding(b) ==
    /\ builder[b] # NoBuild
    /\ Use("mishaps", MaxMishaps)
    /\ builder' = [builder EXCEPT ![b] = NoBuild]
    /\ database' = IF database.known = b THEN [database EXCEPT !.known = "nobody"] ELSE database
    /\ UNCHANGED <<records, workspace, fileNodes, readable, manifest>>

Build(b) ==
    SyncNode(b) \/ ReadRecords(b) \/ Sign(b) \/ CommitIndex(b) \/ KeepPrevious(b) \/ PublishIndex(b)

\* A library is empty, or an older one that has no index yet.
IndexInit ==
    /\ records \in {NoFiles, [r \in Record |-> 1]} /\ fileNodes = NoNodes
    /\ workspace = 0 /\ readable = TRUE
    /\ database = [known |-> "nobody", files |-> NoFiles, nodes |-> NoNodes, workspace |-> 0,
                   torn |-> FALSE]
    /\ manifest = Unpublished
    /\ builder = [b \in Builder |-> NoBuild]
    /\ indexCount = [changes |-> 0, refreshes |-> 0, mishaps |-> 0]

IndexNext ==
    \/ \E b \in Builder, r \in Record : SaveRecord(b, r)
    \/ EditWorkspace
    \/ Outage
    \/ \E b \in Builder : Refresh(b) \/ Build(b) \/ DieBuilding(b)
    \/ Tick

IndexSpec == IndexInit /\ [][IndexNext]_indexVars

-----------------------------------------------------------------------------
(* Properties *)

IndexTypeOK ==
    /\ \A f \in {records, database.files} : f \in [Record -> 0 .. MaxChanges + 1]
    /\ \A r \in Record : fileNodes[r].shows <= records[r]
    /\ database.known \in Builder \cup {"manifest", "nobody"}
    /\ manifest = Unpublished => database.known # "manifest"
    /\ \A b \in Builder : builder[b].step \in {"idle", "sync", "read", "signed", "committed"}

\* What a search may use (IndexStatus "ready") shows the threads and the nodes as they
\* are, and the files as the records are; but for an index whose records changed
\* between the builder's list and its signature.
ReadyIsCurrent ==
    IndexStatus = "ready" =>
        /\ database.workspace = workspace /\ database.nodes = fileNodes
        /\ database.torn \/ database.files = records

\* However writers, builders and deaths follow each other: a ready index is current.
IndexInv ==
    /\ IndexTypeOK
    /\ ReadyIsCurrent

\* docs/library-commands.md: "Veraltete oder beschädigte Projektionen liefern einen
\* Fehler beziehungsweise sichtbaren Zustand": when everybody who wrote a record has
\* rebuilt the index, a ready one shows every record.  It does not when one of them
\* commits between the list and the commit of another who signs after the record was
\* written: the other's list replaces it, and has its signature.
ReadyIsComplete ==
    (IndexStatus = "ready" /\ indexCount.mishaps = 0 /\ \A b \in Builder : builder[b] = NoBuild)
        => database.files = records

\* LibraryRuntime: when the writers have stopped, the worker brings the index of a
\* library whose files can be read up to date, whatever died or failed before.
IndexIsRepaired == <>[](readable /\ Stored(records) => IndexStatus = "ready")
===============================================================================
