----------------------------- MODULE LibraryUploads ----------------------------
(* Files reach the library in blocks, under a transfer identifier                *)
(* (services/library_receive.py), or from a folder of this machine               *)
(* (services/library_import.py).  A commit holds the write lock of the receiver's *)
(* database while it publishes the copy, its record and its link, one file after  *)
(* the other; the local import takes no such lock.  Either can die between two    *)
(* writes, and is repeated later.                                                 *)
EXTENDS Integers, Sequences, FiniteSets

CONSTANTS Transfer,     \* identifiers of transfers
          Content,      \* what a file can hold; a manifest names one, of Size blocks
          Size,
          NoContent,
          MaxActive,    \* transfers under way (MAX_ACTIVE)
          MaxRecords,   \* bounds: records, faults and writes of others to the thread
          MaxDeaths,
          MaxNotes

ASSUME UploadsAssumption ==
    Size \in Nat \ {0} /\ MaxActive \in Nat \ {0} /\ MaxRecords \in Nat

VARIABLES uploads,    \* receive.sqlite3: transfer |-> its row
          blocks,     \* its chunks, each with the bytes the manifest promises or not
          commit,     \* the commit under way
          import,     \* the local import under way
          copies,     \* blobs/: content |-> "absent", "paired" (two names) or "stored"
          cards,      \* records/: record |-> its content and the way it came
          placed,     \* records whose owner moved, renamed or deleted them since
          listed,     \* library_files of the thread
          threadRevision,
          importLog,  \* journal.json: content |-> what is known of its import
          uploadCount
uploadVars == <<uploads, blocks, commit, import, copies, cards, placed, listed,
                threadRevision, importLog, uploadCount>>

RecordId == 1 .. MaxRecords
NoUpload == [state |-> "none", content |-> NoContent, record |-> 0, next |-> 0]
NotImported == [state |-> "none", record |-> 0]
NoCard == [content |-> NoContent, via |-> "nothing"]
Idle == [step |-> "idle", via |-> "nothing", content |-> NoContent, record |-> 0, seen |-> 0, list |-> {}]
Active == {t \in Transfer : uploads[t].state = "receiving"}

\* No call of a writer is waiting for another one's transaction.
Unlocked == commit.step = "idle"

\* recover_blob_publications: a pair of names that only a death left, or that its
\* writer is about to dissolve itself, becomes the published copy.
Recovered == [c \in Content |-> IF copies[c] = "paired" THEN "stored" ELSE copies[c]]

-----------------------------------------------------------------------------
(* The receiver *)

\* begin: the record's identifier is fixed with the manifest.
Begin(t, c) ==
    /\ Unlocked /\ uploads[t].state = "none" /\ Cardinality(Active) < MaxActive
    /\ uploadCount.records < MaxRecords
    /\ uploads' = [uploads EXCEPT ![t] = [state |-> "receiving", content |-> c,
                                          record |-> uploadCount.records + 1, next |-> 0]]
    /\ uploadCount' = [uploadCount EXCEPT !.records = @ + 1]
    /\ copies' = Recovered
    /\ UNCHANGED <<blocks, commit, import, cards, placed, listed, threadRevision, importLog>>

\* append: a block at its offset, once; a repeated one changes nothing.
AppendBlock(t, offset, right) ==
    /\ Unlocked /\ uploads[t].state = "receiving"
    /\ offset = uploads[t].next /\ offset < Size
    /\ blocks' = [blocks EXCEPT ![t] = Append(@, right)]
    /\ uploads' = [uploads EXCEPT ![t].next = offset + 1]
    /\ copies' = Recovered
    /\ UNCHANGED <<commit, import, cards, placed, listed, threadRevision, importLog, uploadCount>>

\* Faulty variant: the blocks of an abandoned transfer stay.
AbortKeepingBlocks(t) ==
    /\ Unlocked /\ uploads[t].state = "receiving"
    /\ uploads' = [uploads EXCEPT ![t].state = "aborted"]
    /\ copies' = Recovered
    /\ UNCHANGED <<blocks, commit, import, cards, placed, listed, threadRevision, importLog, uploadCount>>
\* abort.
Abort(t) ==
    /\ Unlocked /\ uploads[t].state = "receiving"
    /\ uploads' = [uploads EXCEPT ![t].state = "aborted"]
    /\ blocks' = [blocks EXCEPT ![t] = <<>>]
    /\ copies' = Recovered
    /\ UNCHANGED <<commit, import, cards, placed, listed, threadRevision, importLog, uploadCount>>

\* The start of commit: all bytes are there and are the promised ones.  What an
\* earlier attempt published is opened and compared; a record that its owner moved
\* or deleted meanwhile is refused.
StartCommit(t) ==
    /\ Unlocked /\ uploads[t].state = "receiving"
    /\ uploads[t].next = Size /\ \A i \in 1 .. Size : blocks[t][i]
    /\ uploads[t].record \notin placed
    /\ LET published == uploads[t].record # 0 /\ cards[uploads[t].record] # NoCard
       IN commit' = [Idle EXCEPT !.via = "upload", !.step = IF published THEN "read" ELSE "publish",
                                 !.content = uploads[t].content, !.record = uploads[t].record]
    /\ copies' = Recovered
    /\ UNCHANGED <<uploads, blocks, import, cards, placed, listed, threadRevision, importLog, uploadCount>>

\* The transaction's end: the receipt, after the published files were flushed.
Acknowledge(t) ==
    /\ commit.step = "answer" /\ uploads[t].state = "receiving"
    /\ commit.record = uploads[t].record \/ uploads[t].record = 0
    /\ commit.content = uploads[t].content
    /\ uploads' = [uploads EXCEPT ![t].state = "committed", ![t].record = commit.record]
    /\ blocks' = [blocks EXCEPT ![t] = <<>>]
    /\ commit' = Idle
    /\ UNCHANGED <<import, copies, cards, placed, listed, threadRevision, importLog, uploadCount>>

-----------------------------------------------------------------------------
(* Publication, by a commit or by the local import: p is the writer's state, q what  *)
(* becomes of it                                                                      *)

\* _publish_blob: an existing copy is compared and kept; a new one gets its name
\* while the temporary one is still there.
PublishCopy(p, q) ==
    /\ p.step = "publish"
    /\ copies' = [copies EXCEPT ![p.content] = IF @ = "absent" THEN "paired" ELSE @]
    /\ q = [p EXCEPT !.step = "unlink"]
    /\ UNCHANGED <<cards, listed, threadRevision, uploadCount>>

\* The temporary name goes.
UnlinkPartial(p, q) ==
    /\ p.step = "unlink"
    /\ copies' = [copies EXCEPT ![p.content] = "stored"]
    /\ q = [p EXCEPT !.step = "record"]
    /\ UNCHANGED <<cards, listed, threadRevision, uploadCount>>

\* _write_record, under the given identifier or a new one.
WriteCard(p, q) ==
    /\ p.step = "record"
    /\ LET r == IF p.record # 0 THEN p.record ELSE uploadCount.records + 1
       IN /\ r \in RecordId
          /\ cards' = [cards EXCEPT ![r] = [content |-> p.content, via |-> p.via]]
          /\ q = [p EXCEPT !.step = "read", !.record = r]
          /\ uploadCount' = [uploadCount EXCEPT !.records = IF r > @ THEN r ELSE @]
    /\ UNCHANGED <<copies, listed, threadRevision>>

\* _link_thread reads the thread ...
ReadThread(p, q) ==
    /\ p.step = "read"
    /\ q = [p EXCEPT !.step = "link", !.seen = threadRevision, !.list = listed]
    /\ UNCHANGED <<copies, cards, listed, threadRevision, uploadCount>>

\* Faulty variant: the thread is saved whatever became of it.
SaveLinkBlindly(p, q) ==
    /\ p.step = "link"
    /\ listed' = p.list \cup {p.record} /\ threadRevision' = threadRevision + 1
    /\ q = [p EXCEPT !.step = "answer"]
    /\ UNCHANGED <<copies, cards, uploadCount>>
\* ... and saves it, unless its revision moved: then the call fails.
SaveLink(p, q) ==
    /\ p.step = "link"
    /\ IF threadRevision = p.seen
         THEN /\ listed' = p.list \cup {p.record} /\ threadRevision' = threadRevision + 1
              /\ q = [p EXCEPT !.step = "answer"]
         ELSE q = Idle /\ UNCHANGED <<listed, threadRevision>>
    /\ UNCHANGED <<copies, cards, uploadCount>>

PublishNext(p, q) ==
    \/ PublishCopy(p, q) \/ UnlinkPartial(p, q) \/ WriteCard(p, q)
    \/ ReadThread(p, q) \/ SaveLink(p, q)

\* receive_verified, step by step, within the receiver's transaction.
Receiving ==
    /\ PublishNext(commit, commit')
    /\ UNCHANGED <<uploads, blocks, import, placed, importLog>>

-----------------------------------------------------------------------------
(* The local import *)

\* A record of the same origin and bytes.
StoredMatch(c) == {r \in RecordId : cards[r] = [content |-> c, via |-> "folder"]}

\* _import_one: known bytes are a duplicate; new ones are noted, then published.
StartImport(c) ==
    /\ import.step = "idle"
    /\ IF copies[c] # "absent" /\ StoredMatch(c) # {}
         THEN /\ importLog' = [importLog EXCEPT ![c] = [state |-> "stored",
                                   record |-> CHOOSE r \in StoredMatch(c) : TRUE]]
              /\ importLog' # importLog /\ UNCHANGED import
         ELSE /\ uploadCount.records < MaxRecords
              /\ importLog' = [importLog EXCEPT ![c].state = "pending"]
              /\ import' = [Idle EXCEPT !.via = "folder", !.step = "publish", !.content = c]
    /\ UNCHANGED <<uploads, blocks, commit, copies, cards, placed, listed, threadRevision, uploadCount>>

Importing ==
    /\ PublishNext(import, import')
    /\ UNCHANGED <<uploads, blocks, commit, placed, importLog>>

\* The import's last step notes its record.
LogImport ==
    /\ import.step = "answer"
    /\ importLog' = [importLog EXCEPT ![import.content] = [state |-> "stored", record |-> import.record]]
    /\ import' = Idle
    /\ UNCHANGED <<uploads, blocks, commit, copies, cards, placed, listed, threadRevision, uploadCount>>

-----------------------------------------------------------------------------
(* Others *)

\* The owner moves, renames or deletes a visible file.
PlaceFile(r) ==
    /\ cards[r] # NoCard /\ r \notin placed
    /\ placed' = placed \cup {r}
    /\ UNCHANGED <<uploads, blocks, commit, import, copies, cards, listed, threadRevision, importLog, uploadCount>>

\* Somebody else saves the thread.
NoteInThread ==
    /\ uploadCount.notes < MaxNotes
    /\ threadRevision' = threadRevision + 1
    /\ uploadCount' = [uploadCount EXCEPT !.notes = @ + 1]
    /\ UNCHANGED <<uploads, blocks, commit, import, copies, cards, placed, listed, importLog>>

Die(w, w1) ==
    /\ w.step # "idle" /\ w1 = Idle /\ uploadCount.deaths < MaxDeaths
    /\ uploadCount' = [uploadCount EXCEPT !.deaths = @ + 1]
    /\ UNCHANGED <<uploads, blocks, copies, cards, placed, listed, threadRevision, importLog>>

DieReceiving == Die(commit, commit') /\ UNCHANGED import
DieImporting == Die(import, import') /\ UNCHANGED commit

UploadsInit ==
    /\ uploads = [t \in Transfer |-> NoUpload] /\ blocks = [t \in Transfer |-> <<>>]
    /\ commit = Idle /\ import = Idle
    /\ copies = [c \in Content |-> "absent"] /\ cards = [r \in RecordId |-> NoCard]
    /\ placed = {} /\ listed = {} /\ threadRevision = 1
    /\ importLog = [c \in Content |-> NotImported]
    /\ uploadCount = [records |-> 0, deaths |-> 0, notes |-> 0]

UploadsNext ==
    \/ \E t \in Transfer : \/ \E c \in Content : Begin(t, c)
                           \/ \E o \in 0 .. Size, b \in BOOLEAN : AppendBlock(t, o, b)
                           \/ Abort(t) \/ StartCommit(t) \/ Acknowledge(t)
    \/ Receiving \/ Importing \/ LogImport \/ NoteInThread
    \/ \E c \in Content : StartImport(c)
    \/ \E r \in RecordId : PlaceFile(r)
    \/ DieReceiving \/ DieImporting

UploadsSpec == UploadsInit /\ [][UploadsNext]_uploadVars

-----------------------------------------------------------------------------
(* Properties *)

UploadsTypeOK ==
    /\ uploads \in [Transfer -> [state : {"none", "receiving", "committed", "aborted"},
                                 content : Content \cup {NoContent}, record : {0} \cup RecordId, next : 0 .. Size]]
    /\ blocks \in [Transfer -> UNION {[1 .. n -> BOOLEAN] : n \in 0 .. Size}]
    /\ copies \in [Content -> {"absent", "paired", "stored"}]
    /\ cards \in [RecordId -> {NoCard} \cup [content : Content, via : {"upload", "folder"}]]
    /\ placed \subseteq RecordId /\ listed \subseteq RecordId
    /\ Cardinality(Active) <= MaxActive

\* library_backup.validate: what a backup demands of the library it captures.
Valid ==
    /\ \A r \in RecordId : cards[r] # NoCard => copies[cards[r].content] # "absent"
    /\ \A c \in Content : importLog[c].state = "stored" =>
           /\ importLog[c].record # 0 /\ cards[importLog[c].record].content = c
    /\ \A t \in Transfer :
           /\ uploads[t].state = "committed" =>
                 uploads[t].record # 0 /\ cards[uploads[t].record].content = uploads[t].content
           /\ Len(blocks[t]) = IF uploads[t].state = "receiving" THEN uploads[t].next ELSE 0
\* At every moment, also when a writer died between two files, the library is one
\* that its own backup accepts (library_backup.py: "publication can have been
\* interrupted before its record").
BackupIsAccepted == Valid

\* A transfer creates one record at most, however often its commit is interrupted and
\* repeated (docs/contracts/library-receive-v1.md: "without creating another record").
OneRecordPerTransfer ==
    Cardinality({r \in RecordId : cards[r].via = "upload"})
        <= Cardinality({t \in Transfer : uploads[t].state # "none"})

\* What a receipt acknowledges is linked from its thread, and stays so whoever else
\* saves the thread or links files at the same time.
AcknowledgedIsListed ==
    \A t \in Transfer : uploads[t].state = "committed" => uploads[t].record \in listed

\* Wherever a receiver or an import dies: a transfer leaves at most one record, a backup
\* accepts what is there and an acknowledged file is listed (begin, commit, import_file).
UploadsInv ==
    /\ UploadsTypeOK
    /\ BackupIsAccepted
    /\ OneRecordPerTransfer
    /\ AcknowledgedIsListed
=============================================================================
