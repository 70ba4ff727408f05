----------------------------- MODULE LibraryRefresh ----------------------------
(* A watched folder is imported again whenever it changed                        *)
(* (services/library_watch, services/library_batch), while its owner renames,    *)
(* moves, deletes or opens the files of the library (services/library_files).    *)
(* The folder holds one file.  The import writes one private document after the  *)
(* other: the watch, the job, the published copy, its record, the receipt of the *)
(* source.  It can die between any two and is taken up again from what it finds. *)
(* Owners' changes are an overlay on the records, in a document of its own.      *)
EXTENDS Integers, Sequences, FiniteSets

CONSTANTS Bytes,         \* contents of the file
          Inbox, Assigned, \* threads: where files without a project land, and another
          FileRequest,   \* identifiers of owners' operations
          MaxFolderSaves, \* bounds: changes of the folder, deaths and failures
          MaxInterruptions

ASSUME RefreshAssumption ==
    /\ Inbox # Assigned /\ MaxFolderSaves \in Nat /\ MaxInterruptions \in Nat
    /\ Bytes \cap {"none", "gone"} = {}

VARIABLES folder,     \* what its file held, one time after the other; it may be away itself
          watch,      \* library-watch.json
          batches,    \* the jobs: one for each sequence number of the watch
          origin,     \* library-batch-sources.json: what is known of the source
          published,  \* blobs/
          shelf,      \* records/, in the order of their creation
          overlay,    \* library-file-state.json: record |-> its owner's version
          requests,   \* ... and the receipts of owners' operations
          launches,   \* how often a viewer was started for a request
          batch,      \* the import under way
          refreshCount
refreshVars == <<folder, watch, batches, origin, published, shelf, overlay, requests,
                 launches, batch, refreshCount>>
ownerVars == <<overlay, requests, launches>>

NoJob == [want |-> "none", status |-> "none", complete |-> FALSE]
NoSource == [record |-> 0, content |-> "none", state |-> "none", new |-> FALSE, pred |-> 0, history |-> {}]
NoPlace == [place |-> Inbox, trashed |-> FALSE, generation |-> 0, revision |-> 0, at |-> 0]
NoAsk == [action |-> "none", record |-> 0, status |-> "none"]
Waiting == [step |-> "rest", content |-> "none", record |-> 0, pred |-> 0, keep |-> FALSE,
           new |-> FALSE, history |-> {}, bad |-> FALSE, from |-> NoPlace, result |-> "none"]

\* _record_by_id: the owner's version of a record, where there is one.
Effective(r) ==
    IF overlay[r].revision > 0 THEN overlay[r]
    ELSE [NoPlace EXCEPT !.place = shelf[r].place, !.trashed = shelf[r].trashed, !.revision = 1]
Time == Len(folder.was)
Held(n) == folder.was[n]
There == ~folder.away /\ Held(Time) \in Bytes
Holds(c) == There /\ Held(Time) = c

-----------------------------------------------------------------------------
(* The watch *)

\* Faulty variant: the folder counts as imported when its import starts.
PollEagerly ==
    /\ batch.step = "rest" /\ ~folder.away
    /\ Time # watch.imported \/ watch.failed
    /\ watch' = [watch EXCEPT !.status = "ready", !.failed = FALSE, !.attempt = Time, !.imported = Time,
                 !.operation = IF Time = watch.attempt /\ @ > 0 THEN @ ELSE @ + 1]
    /\ batch' = [Waiting EXCEPT !.step = "open"]
    /\ UNCHANGED <<folder, batches, origin, published, shelf, ownerVars, refreshCount>>
\* poll_once: a folder that changed since the last complete import, or whose import
\* failed, gets an operation, written down before anything is imported; the same
\* state of the folder keeps the operation it already has.
Poll ==
    /\ batch.step = "rest"
    /\ IF folder.away
         THEN watch' = [watch EXCEPT !.status = "unavailable", !.failed = TRUE] /\ UNCHANGED batch
         ELSE /\ Time # watch.imported \/ watch.failed
              /\ watch' = [watch EXCEPT !.status = "running", !.failed = FALSE, !.attempt = Time,
                           !.operation = IF Time = watch.attempt /\ @ > 0 THEN @ ELSE @ + 1]
              /\ batch' = [Waiting EXCEPT !.step = "open"]
    /\ UNCHANGED <<folder, batches, origin, published, shelf, ownerVars, refreshCount>>

\* _refresh observes the folder again.
StillAsObserved == ~folder.away /\ Time = watch.attempt

\* The end of _refresh: the import is ready when it is complete and the folder still
\* is what it was before.
EndRefresh ==
    /\ batch.step = "end" /\ batch' = Waiting
    /\ watch' = IF batches[watch.operation].complete /\ StillAsObserved
                  THEN [watch EXCEPT !.status = "ready", !.imported = watch.attempt]
                  ELSE [watch EXCEPT !.status = "partial", !.failed = TRUE]
    /\ UNCHANGED <<folder, batches, origin, published, shelf, ownerVars, refreshCount>>

-----------------------------------------------------------------------------
(* The batch: one job, one row *)

Job == batches[watch.operation]
SetJob(j) == batches' = [batches EXCEPT ![watch.operation] = j]
Step(s) == batch' = [batch EXCEPT !.step = s]
Result(s) == batch' = [batch EXCEPT !.step = "result", !.result = s]

\* manifest_for_folder and the start of run: the job fixes what the file holds; one
\* that exists is resumed; a complete one is not run again.  A publication that a
\* death cut off is completed first.
OpenJob ==
    /\ batch.step = "open"
    /\ IF Job.want = "none"
         THEN IF folder.away
                THEN Step("end") /\ UNCHANGED batches
                ELSE /\ SetJob([NoJob EXCEPT !.want = Held(Time)])
                     /\ Step(IF There THEN "row" ELSE "close")
         ELSE /\ Step(CASE Job.complete -> "end"
                        [] Job.want \notin Bytes \/ Job.status = "stored" -> "close"
                        [] OTHER -> "row")
              /\ UNCHANGED batches
    /\ published' = [b \in Bytes |-> IF published[b] = "paired" THEN "stored" ELSE published[b]]
    /\ UNCHANGED <<folder, watch, origin, shelf, ownerVars, refreshCount>>

\* The receipt is one of a new record whose mapping did not end.
StillNew == origin.new /\ origin.state # "complete"

\* _one: what is there is compared with the manifest and with the receipt of the
\* source.  The same bytes keep their record; an interrupted mapping of them is
\* finished.  Other bytes make the record of before a predecessor.
TakeRow ==
    /\ batch.step = "row"
    /\ LET same == origin.record # 0 /\ origin.content = Held(Time)
           pred == IF same THEN origin.pred ELSE origin.record
       IN CASE ~There -> Result("missing")
            [] Held(Time) # Job.want -> Result("conflict")
            [] OTHER ->
                 batch' = [batch EXCEPT !.step = IF same THEN "receipt" ELSE "import",
                     !.content = Held(Time), !.record = IF same THEN origin.record ELSE 0,
                     !.pred = pred, !.history = origin.history \cup ({pred} \ {0}),
                     !.keep = same /\ origin.state = "complete",
                     !.new = same /\ StillNew]
    /\ UNCHANGED <<folder, watch, batches, origin, published, shelf, ownerVars, refreshCount>>

\* Faulty variant: known bytes are recognized by the receipt alone.
NothingCopied(b) == {}
\* Records of the file with these bytes.
Copied(b) == {r \in DOMAIN shelf : shelf[r].content = b}

\* _import_one reads the file again.  Bytes that have a record keep it.
ImportOne ==
    /\ batch.step = "import"
    /\ IF ~Holds(batch.content) THEN Result("failed")
       ELSE batch' = IF published[batch.content] # "absent" /\ Copied(batch.content) # {}
                       THEN [batch EXCEPT !.step = "receipt", !.keep = TRUE, !.new = FALSE,
                                          !.record = CHOOSE r \in Copied(batch.content) : TRUE]
                       ELSE [batch EXCEPT !.step = "publish"]
    /\ UNCHANGED <<folder, watch, batches, origin, published, shelf, ownerVars, refreshCount>>

\* _publish_blob copies the file, which is read a third time.
PublishBytes ==
    /\ batch.step = "publish"
    /\ IF published[batch.content] = "absent" /\ ~Holds(batch.content)
         THEN Result("failed") /\ UNCHANGED published
         ELSE /\ published' = [published EXCEPT ![batch.content] = IF @ = "absent" THEN "paired" ELSE @]
              /\ Step("record")
    /\ UNCHANGED <<folder, watch, batches, origin, shelf, ownerVars, refreshCount>>

\* The temporary name goes, and the record is written: visible, in the inbox.
WriteRecord ==
    /\ batch.step = "record"
    /\ published' = [published EXCEPT ![batch.content] = "stored"]
    /\ shelf' = Append(shelf, [content |-> batch.content, place |-> Inbox, trashed |-> FALSE, pred |-> 0])
    /\ batch' = [batch EXCEPT !.step = "receipt", !.new = TRUE, !.record = Len(shelf) + 1]
    /\ UNCHANGED <<folder, watch, batches, origin, ownerVars, refreshCount>>

\* The receipt of the source, before the record gets its place: an interrupted
\* mapping can be told from a duplicate.
NoteMapping ==
    /\ batch.step = "receipt"
    /\ origin' = [record |-> batch.record, content |-> batch.content, state |-> "record_published",
                   new |-> batch.new, pred |-> batch.pred, history |-> batch.history]
    /\ batch' = [batch EXCEPT !.step = "read", !.bad = ~Holds(batch.content)]
    /\ UNCHANGED <<folder, watch, batches, published, shelf, ownerVars, refreshCount>>

\* The predecessor is read, as its owner left it.
ReadPredecessor ==
    /\ batch.step = "read"
    /\ batch' = [batch EXCEPT !.step = "place",
                              !.from = Effective(IF batch.pred # 0 THEN batch.pred ELSE batch.record)]
    /\ UNCHANGED <<folder, watch, batches, origin, published, shelf, ownerVars, refreshCount>>

\* A record that this import created succeeds the one the source had.
Succeeds == batch.pred # 0 /\ batch.new /\ batch.record # batch.pred

\* _metadata: a new version goes where its predecessor is, also into the trash; a
\* duplicate stays where it is.
PlaceRecord ==
    /\ batch.step = "place"
    /\ LET r == batch.record
           old == shelf[r]
       IN shelf' = [shelf EXCEPT ![r] =
              [content |-> old.content,
               place |-> IF batch.keep THEN Effective(r).place
                         ELSE IF batch.pred # 0 THEN batch.from.place ELSE Inbox,
               trashed |-> IF Succeeds THEN batch.from.trashed ELSE Effective(r).trashed,
               pred |-> IF Succeeds /\ old.pred = 0 THEN batch.pred ELSE old.pred]]
    /\ Result(IF batch.bad \/ ~Holds(batch.content) THEN "conflict" ELSE "stored")
    /\ UNCHANGED <<folder, watch, batches, origin, published, ownerVars, refreshCount>>

\* The receipts are saved ...
SaveReceipt ==
    /\ batch.step = "result"
    /\ origin' = IF batch.record # 0 THEN [origin EXCEPT !.state = "complete"] ELSE origin
    /\ Step("job")
    /\ UNCHANGED <<folder, watch, batches, published, shelf, ownerVars, refreshCount>>

\* ... then the job.
SaveJob ==
    /\ batch.step = "job" /\ Step("close")
    /\ SetJob([Job EXCEPT !.status = batch.result])
    /\ UNCHANGED <<folder, watch, origin, published, shelf, ownerVars, refreshCount>>

\* Graph and index are derived; the job is complete when they are, and its row is.
CloseJob(derived) ==
    /\ batch.step = "close" /\ Step("end")
    /\ derived \/ refreshCount.halts < MaxInterruptions
    /\ SetJob([Job EXCEPT !.complete = derived /\ (Job.want \in Bytes => Job.status = "stored")])
    /\ refreshCount' = [refreshCount EXCEPT !.halts = IF derived THEN @ ELSE @ + 1]
    /\ UNCHANGED <<folder, watch, origin, published, shelf, ownerVars>>

-----------------------------------------------------------------------------
(* Owners of files *)

\* Faulty variant: the receipt is not saved with the change.
ManageUnrecorded(q, r, action) ==
    /\ requests[q] = NoAsk
    /\ LET e == Effective(r)
       IN /\ (action = "restore") = e.trashed /\ e.revision < 4
          /\ overlay' = [overlay EXCEPT ![r] = [e EXCEPT !.revision = @ + 1, !.trashed = action = "trash"]]
    /\ UNCHANGED <<folder, watch, batches, origin, published, shelf, requests, launches, batch, refreshCount>>
\* manage: one change of one visible record, or the restoration of a deleted one,
\* with its receipt in the same document; a repeated request changes nothing.
Manage(q, r, action) ==
    /\ requests[q] = NoAsk
    /\ LET e == Effective(r)
       IN /\ (action = "restore") = e.trashed
          /\ overlay' = [overlay EXCEPT ![r] =
                [place |-> IF action = "assign" THEN Assigned ELSE e.place,
                 trashed |-> action = "trash", revision |-> e.revision + 1,
                 generation |-> e.generation + (IF action = "trash" THEN 1 ELSE 0),
                 at |-> IF action = "trash" THEN Len(shelf) ELSE e.at]]
    /\ requests' = [requests EXCEPT ![q] = [action |-> action, record |-> r, status |-> "done"]]
    /\ UNCHANGED <<folder, watch, batches, origin, published, shelf, launches, batch, refreshCount>>

\* Faulty variant: a request whose outcome is unknown is taken up again.
ReserveAnew(q, r) ==
    /\ requests[q] = NoAsk \/ requests[q] = [action |-> "open", record |-> r, status |-> "unknown"]
    /\ ~Effective(r).trashed /\ published[shelf[r].content] = "stored"
    /\ requests' = [requests EXCEPT ![q] = [action |-> "open", record |-> r, status |-> "unknown"]]
    /\ launches' = [launches EXCEPT ![q].by = launches[q].times < 2]
    /\ UNCHANGED <<folder, watch, batches, origin, published, shelf, overlay, batch, refreshCount>>
\* open_file reserves the request before a viewer is started ...
ReserveOpening(q, r) ==
    /\ requests[q] = NoAsk /\ ~Effective(r).trashed
    /\ published[shelf[r].content] = "stored"
    /\ requests' = [requests EXCEPT ![q] = [action |-> "open", record |-> r, status |-> "unknown"]]
    /\ launches' = [launches EXCEPT ![q].by = TRUE]
    /\ UNCHANGED <<folder, watch, batches, origin, published, shelf, overlay, batch, refreshCount>>

\* ... by the caller that reserved it, if it lives ...
LaunchViewer(q) ==
    /\ launches[q].by
    /\ launches' = [launches EXCEPT ![q] = [by |-> FALSE, times |-> @.times + 1]]
    /\ UNCHANGED <<folder, watch, batches, origin, published, shelf, overlay, requests, batch, refreshCount>>

\* ... which then notes the outcome.
NoteLaunch(q) ==
    /\ requests[q].action = "open" /\ requests[q].status = "unknown" /\ launches[q].times > 0
    /\ \E s \in {"launch_requested", "failed"} : requests' = [requests EXCEPT ![q].status = s]
    /\ UNCHANGED <<folder, watch, batches, origin, published, shelf, overlay, launches, batch, refreshCount>>

-----------------------------------------------------------------------------
(* Surroundings *)

\* Somebody edits or removes the file, or takes the folder away; a folder that comes
\* back is the one that went.
ChangeFolder(c) ==
    /\ refreshCount.saves < MaxFolderSaves
    /\ folder' \in {[folder EXCEPT !.was = Append(@, c)], [folder EXCEPT !.away = ~@]}
    /\ refreshCount' = [refreshCount EXCEPT !.saves = @ + 1]
    /\ UNCHANGED <<watch, batches, origin, published, shelf, ownerVars, batch>>

\* The program ends.
Halt ==
    /\ refreshCount.halts < MaxInterruptions
    /\ batch.step # "rest" \/ \E q \in FileRequest : launches[q].by
    /\ batch' = Waiting /\ launches' = [q \in FileRequest |-> [launches[q] EXCEPT !.by = FALSE]]
    /\ refreshCount' = [refreshCount EXCEPT !.halts = @ + 1]
    /\ UNCHANGED <<folder, watch, batches, origin, published, shelf, overlay, requests>>

RefreshInit ==
    /\ \E b \in Bytes : folder = [was |-> <<b>>, away |-> FALSE]
    /\ watch = [imported |-> 0, attempt |-> 0, operation |-> 0, status |-> "pending", failed |-> FALSE]
    /\ batches = [n \in 1 .. MaxFolderSaves + 1 |-> NoJob] /\ origin = NoSource
    /\ published = [b \in Bytes |-> "absent"] /\ shelf = <<>>
    /\ overlay = [r \in 1 .. MaxFolderSaves + 1 |-> NoPlace]
    /\ requests = [q \in FileRequest |-> NoAsk]
    /\ launches = [q \in FileRequest |-> [by |-> FALSE, times |-> 0]]
    /\ batch = Waiting /\ refreshCount = [saves |-> 0, halts |-> 0]

Import ==
    \/ OpenJob \/ TakeRow \/ ImportOne \/ PublishBytes \/ WriteRecord \/ NoteMapping
    \/ ReadPredecessor \/ PlaceRecord \/ SaveReceipt \/ SaveJob \/ EndRefresh
    \/ \E d \in BOOLEAN : CloseJob(d)

RefreshNext ==
    \/ Poll \/ Import \/ Halt
    \/ \E c \in Bytes \cup {"gone"} : ChangeFolder(c)
    \/ \E q \in FileRequest : \/ LaunchViewer(q) \/ NoteLaunch(q)
                              \/ \E r \in DOMAIN shelf : \/ ReserveOpening(q, r)
                                                         \/ \E a \in {"assign", "trash", "restore"} : Manage(q, r, a)

RefreshSpec == RefreshInit /\ [][RefreshNext]_refreshVars

-----------------------------------------------------------------------------
(* Properties *)

RefreshTypeOK ==
    /\ watch.operation \in 0 .. MaxFolderSaves + 1
    /\ batch.step # "rest" => watch.operation > 0 /\ watch.status = "running"
    /\ \A n \in DOMAIN batches : batches[n].want \in Bytes \cup {"none", "gone"}
    /\ origin.record \in 0 .. Len(shelf) /\ origin.history \subseteq DOMAIN shelf
    /\ published \in [Bytes -> {"absent", "paired", "stored"}]
    /\ \A r \in DOMAIN shelf : shelf[r].content \in Bytes /\ shelf[r].pred \in 0 .. Len(shelf)
    /\ \A r \in DOMAIN overlay : overlay[r].revision > 0 => r \in DOMAIN shelf

\* "Ready" is said of a state of the folder only when what it held then is stored, with a
\* record and a completed mapping, whatever changed while it was imported.
ReadyIsStored ==
    watch.status = "ready" /\ Held(watch.imported) \in Bytes =>
        /\ origin.content = Held(watch.imported) /\ origin.state = "complete"
        /\ shelf[origin.record].content = origin.content
        /\ published[origin.content] = "stored"

\* Each content of the file has one record: an import that was interrupted anywhere
\* and taken up again makes no second one.
OneRecordPerContent ==
    \A r, s \in DOMAIN shelf : shelf[r].content = shelf[s].content => r = s

\* A file that returns to bytes it had, or whose import was interrupted, never makes a
\* record its own predecessor (test_library_batch.py: "keeps acyclic version history").
VersionsAreOrdered == \A r \in DOMAIN shelf : shelf[r].pred < r

\* Every change of a file has its receipt: a request repeated after a lost answer has
\* no second effect.
ChangesAreReceipted ==
    \A r \in DOMAIN shelf :
        Effective(r).revision = 1 + Cardinality({q \in FileRequest :
            requests[q].record = r /\ requests[q].action # "open"})

\* "a lost result never reopens" (opening.py): a request starts a viewer once at most.
LaunchedOnce == \A q \in FileRequest : launches[q].times <= 1

\* "A source refresh is a new byte version, never a restore." (importer.py): the version
\* that follows a deleted one is deleted, unless its owner restored it.
NeverARestore ==
    LET p == origin.pred
        r == origin.record
    IN batch.step = "rest" /\ origin.state = "complete" /\ p # 0 /\ p < r
       /\ overlay[p].trashed /\ overlay[p].at < r /\ overlay[r].revision = 0
       => shelf[r].trashed

\* A folder that is there and rests is imported in the end.
FolderIsImported == <>[](There => origin.content = Held(Time) /\ origin.state = "complete")

\* Wherever an import dies and whatever is asked again: one record per content, stored
\* before it is ready, with its predecessors before it (run, manage, open_file).
RefreshInv ==
    /\ RefreshTypeOK
    /\ ReadyIsStored
    /\ OneRecordPerContent
    /\ VersionsAreOrdered
    /\ ChangesAreReceipted
    /\ LaunchedOnce
=============================================================================
