----------------------------- MODULE SearchIndex ------------------------------
(* The optional content search of a SQLite workspace (storage/search_sqlite):    *)
(* every save brings the index up to date within its own transaction, or says in *)
(* the configuration that it could not; a rebuild cleans the index and fills it  *)
(* in batches, a transaction each, and reads the configuration before it begins  *)
(* one.  Saves, deletions, moves to the trash and the owner's switch come        *)
(* between the batches, and two programs may rebuild at a time.                  *)
(*                                                                               *)
(* A batch is one thread.  Epochs are uuids: the number of the change they were  *)
(* made for.                                                                     *)
EXTENDS Integers

CONSTANTS ThreadRows,     \* number of threads: rows of the table, in the order of their ids
          Rebuilder,      \* programs that rebuild the index
          NotReading,
          MaxWrites,      \* bounds: changes of threads and of the switch,
          MaxFaults       \* index writes that fail

ASSUME SearchAssumption == ThreadRows \in Nat /\ MaxWrites \in Nat

VARIABLES threadRow,      \* every thread: its edition, and whether it exists
          config,         \* app_state 'local_search'
          rows,           \* thread_search_meta and search_index: the edition indexed, or 0
          markers,        \* the control rows of the index: the epochs they publish
          rebuilder,      \* the configuration every rebuild has read
          wanted,         \* what the owner has switched last
          overrun,        \* what a batch has lost that wrote back a configuration which
                          \* another had changed: changes of the index, or of the switch
          searchCount     \* changes and faults so far
searchVars == <<threadRow, config, rows, markers, rebuilder, wanted, overrun, searchCount>>

Row == 1 .. ThreadRows
Live(t) == threadRow[t].state = "live"
Exists(t) == threadRow[t].state \in {"live", "trashed"}

\* A new epoch, of this change.
Epoch == searchCount.writes + 1
Write(failing) ==
    /\ searchCount.writes < MaxWrites
    /\ failing => searchCount.faults < MaxFaults
    /\ searchCount' = [writes |-> searchCount.writes + 1,
                       faults |-> searchCount.faults + IF failing THEN 1 ELSE 0]

\* _marker_matches, of an index that counts as ready.
Published == /\ config.status = "ready" /\ config.epoch = config.indexed
             /\ config.indexed \in markers

\* state: whether a search asks the index or reads all threads.
Mode == IF config.enabled /\ Published THEN "fts5" ELSE "bounded_scan"

-----------------------------------------------------------------------------
(* changed: the index follows a save in the save's own transaction *)

\* What is put before the index is touched.
Dirty == [config EXCEPT
    !.epoch = Epoch,
    !.status = IF @ = "ready" /\ config.epoch = config.indexed THEN "stale" ELSE @]
Unmarked == IF Published THEN markers \ {config.indexed} ELSE markers

\* The index has taken edition e of the thread, 0 for none.
Updated(t, e) ==
    /\ rows' = [rows EXCEPT ![t] = e]
    /\ config' = IF Published THEN [Dirty EXCEPT !.status = "ready", !.indexed = Epoch] ELSE Dirty
    /\ markers' = IF Published THEN Unmarked \cup {Epoch} ELSE markers

\* Faulty variant: an update that failed leaves the status as it was.
FailedQuietly ==
    /\ config' = IF Published THEN [Dirty EXCEPT !.status = "ready", !.indexed = Epoch] ELSE Dirty
    /\ markers' = IF Published THEN Unmarked \cup {Epoch} ELSE markers
    /\ UNCHANGED rows

\* The savepoint of the update is rolled back, and the status says so.
UpdateFailed ==
    /\ config' = [Dirty EXCEPT !.status = "stale"]
    /\ markers' = Unmarked
    /\ UNCHANGED rows

Changed(t, e) ==
    \/ /\ config.enabled /\ Updated(t, e)
       /\ Write(FALSE)
    \/ /\ config.enabled /\ UpdateFailed
       /\ Write(TRUE)
    \/ /\ ~config.enabled /\ UNCHANGED <<config, rows, markers>>
       /\ Write(FALSE)

-----------------------------------------------------------------------------
(* Threads *)

\* save_thread.  New threads take the next row.
SaveThread(t) ==
    /\ Live(t) \/ (threadRow[t].state = "none" /\ \A u \in 1 .. t - 1 : threadRow[u].state # "none")
    /\ threadRow' = [threadRow EXCEPT ![t] = [state |-> "live", edition |-> @.edition + 1]]
    /\ Changed(t, threadRow[t].edition + 1)
    /\ UNCHANGED <<rebuilder, wanted, overrun>>

\* delete_thread, of a live one or when it is purged.
DeleteThread(t) ==
    /\ Exists(t)
    /\ threadRow' = [threadRow EXCEPT ![t].state = "gone"]
    /\ Changed(t, 0)
    /\ UNCHANGED <<rebuilder, wanted, overrun>>

\* The trash keeps the row as it is, and tells the index nothing.
MoveThread(t) ==
    /\ Exists(t)
    /\ threadRow' = [threadRow EXCEPT ![t].state = IF @ = "live" THEN "trashed" ELSE "live"]
    /\ Write(FALSE)
    /\ UNCHANGED <<config, rows, markers, rebuilder, wanted, overrun>>

-----------------------------------------------------------------------------
(* The owner's switch and the rebuild *)

\* configure.
Configure(on) ==
    /\ Write(FALSE)
    /\ config' = [enabled |-> on, status |-> IF on THEN "needs_rebuild" ELSE "disabled",
                  epoch |-> Epoch, indexed |-> 0, build |-> 0, after |-> 0, skipped |-> FALSE]
    /\ wanted' = on
    /\ overrun' = overrun \ {"switch"}
    /\ UNCHANGED <<threadRow, rows, markers, rebuilder>>

\* rebuild: the configuration is read, before the transaction.
ReadConfig(r) ==
    /\ rebuilder[r] = NotReading
    /\ config.enabled
    /\ rebuilder' = [rebuilder EXCEPT ![r] = config]
    /\ UNCHANGED <<threadRow, config, rows, markers, wanted, overrun, searchCount>>

\* A batch begins anew unless it finds a build under way.
Begun(c) ==
    IF c.status \in {"cleaning", "building"} THEN c
    ELSE [c EXCEPT !.status = "cleaning", !.build = c.epoch, !.after = 0, !.skipped = FALSE]

NothingIndexed == markers = {} /\ \A t \in Row : rows[t] = 0

Clean(c) ==
    /\ c.status = "cleaning"
    /\ config' = IF NothingIndexed THEN [c EXCEPT !.status = "building"] ELSE c
    /\ markers' = {} /\ rows' = [t \in Row |-> 0]

\* The next thread; what cannot be read, as a trashed one, is skipped.
Fill(c) ==
    /\ c.status = "building"
    /\ \E t \in Row :
         /\ t > c.after /\ Exists(t) /\ \A u \in Row : c.after < u /\ u < t => ~Exists(u)
         /\ rows' = IF Live(t) THEN [rows EXCEPT ![t] = threadRow[t].edition] ELSE rows
         /\ config' = [c EXCEPT !.after = t, !.skipped = @ \/ ~Live(t)]
    /\ UNCHANGED markers

Finish(c) ==
    LET whole == c.epoch = c.build /\ ~c.skipped
    IN  /\ c.status = "building"
        /\ \A t \in Row : t > c.after => ~Exists(t)
        /\ config' = [c EXCEPT !.status = IF whole THEN "ready" ELSE "partial",
                               !.indexed = c.build]
        /\ markers' = IF whole THEN markers \cup {c.epoch} ELSE markers
        /\ UNCHANGED rows

Overruns(r) ==
    {what \in {"index", "switch"} :
        \/ what = "index" /\ config # rebuilder[r]
        \/ what = "switch" /\ config.enabled # rebuilder[r].enabled}

\* The transaction of a batch, with the configuration that was read.
Batch(r) ==
    /\ rebuilder[r] # NotReading
    /\ LET c == Begun(rebuilder[r]) IN Clean(c) \/ Fill(c) \/ Finish(c)
    /\ overrun' = Overruns(r) \cup
         (IF Begun(rebuilder[r]) = rebuilder[r] THEN overrun ELSE overrun \ {"index"})
    /\ rebuilder' = [rebuilder EXCEPT ![r] = NotReading]
    /\ UNCHANGED <<threadRow, wanted, searchCount>>

\* The index refuses the batch.
BatchFailed(r) ==
    /\ rebuilder[r] # NotReading
    /\ searchCount.faults < MaxFaults
    /\ searchCount' = [searchCount EXCEPT !.faults = @ + 1]
    /\ config' = [Begun(rebuilder[r]) EXCEPT !.status = "no_fts5_or_corrupt"]
    /\ overrun' = overrun \cup Overruns(r)
    /\ rebuilder' = [rebuilder EXCEPT ![r] = NotReading]
    /\ UNCHANGED <<threadRow, rows, markers, wanted>>

\* A program ends between reading and writing.
Abandon(r) ==
    /\ rebuilder[r] # NotReading
    /\ rebuilder' = [rebuilder EXCEPT ![r] = NotReading]
    /\ UNCHANGED <<threadRow, config, rows, markers, wanted, overrun, searchCount>>

SearchInit ==
    /\ threadRow = [t \in Row |-> [state |-> IF t = 1 THEN "live" ELSE "none",
                                   edition |-> IF t = 1 THEN 1 ELSE 0]]
    /\ config = [enabled |-> FALSE, status |-> "disabled", epoch |-> 0, indexed |-> 0,
                 build |-> 0, after |-> 0, skipped |-> FALSE]
    /\ rows = [t \in Row |-> 0] /\ markers = {}
    /\ rebuilder = [r \in Rebuilder |-> NotReading]
    /\ wanted = FALSE /\ overrun = {}
    /\ searchCount = [writes |-> 0, faults |-> 0]

SearchNext ==
    \/ \E t \in Row : SaveThread(t) \/ DeleteThread(t) \/ MoveThread(t)
    \/ \E on \in BOOLEAN : Configure(on)
    \/ \E r \in Rebuilder : ReadConfig(r) \/ Batch(r) \/ BatchFailed(r) \/ Abandon(r)

SearchSpec == SearchInit /\ [][SearchNext]_searchVars

-----------------------------------------------------------------------------
(* Properties *)

Statuses == {"disabled", "needs_rebuild", "cleaning", "building", "ready", "partial", "stale",
             "no_fts5_or_corrupt"}

SearchTypeOK ==
    /\ \A t \in Row : rows[t] <= threadRow[t].edition
    /\ config.status \in Statuses
    /\ markers \subseteq 1 .. MaxWrites
    /\ {config.epoch, config.indexed, config.build} \subseteq 0 .. MaxWrites
    /\ \A r \in Rebuilder : rebuilder[r] = NotReading \/ rebuilder[r].status \in Statuses

\* docs/LOCAL-SEARCH.md: marker and source generation "verhindern ready bei fehlendem Index,
\* fehlgeschlagener Aktualisierung oder zwischenzeitlichem Save": when a search asks the
\* index, the index has every live thread as it is, and no other.
IndexedIsWhole ==
    (Mode = "fts5" /\ "index" \notin overrun) =>
        \A t \in Row : /\ Live(t) => rows[t] = threadRow[t].edition
                       /\ ~Exists(t) => rows[t] = 0

\* The search is on when its owner has switched it on.
SwitchIsKept == "switch" \in overrun \/ config.enabled = wanted

\* Whatever comes between the batches of a rebuild, or fails in them, what a search
\* reads is whole, and the switch is the owner's; but for a batch that wrote back a
\* configuration which another program had changed since it was read (rebuild).
SearchInv ==
    /\ SearchTypeOK
    /\ IndexedIsWhole
    /\ SwitchIsKept
===============================================================================
