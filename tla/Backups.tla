------------------------------ MODULE Backups ------------------------------
(***************************************************************************)
(* Backups of a workspace (storage/portable_backup, workspace_backup,      *)
(* library_backup) that is written while they read it, and the restoration *)
(* as a new profile.                                                       *)
(*                                                                         *)
(* The workspace consists of parts, each with a version that every write   *)
(* raises: the stamp of a file, the data_version of the database.  A part  *)
(* is read between two comparisons of its stamp, so a read is one step.    *)
(***************************************************************************)
EXTENDS Naturals, FiniteSets, Functions

CONSTANTS Database,     \* the part that holds receipts
          OtherFile,    \* other files outside the library
          Moving,       \* files captured as they are (POINT_IN_TIME_FILES)
          LibraryPart,  \* files of the library, captured in one go
          Exporter,     \* backup.create commands, each with its own receipt
          Archive,      \* names of backups
          Profile,      \* names of restored workspaces
          NoProfile,    \* the original workspace; no profile, no archive
          MaxWrites, MaxHalts

File == {Database} \cup OtherFile \cup Moving
Part == File \cup LibraryPart
Stable == Part \ Moving

(* The database is a file that is compared; the library's files are its own. *)
ASSUME BackupsAssumption == Database \notin Moving /\ LibraryPart \cap File = {}

VARIABLES version,   \* the workspace: version of every part
          pending,   \* commands with a pending receipt in the database
          moments,   \* states the workspace has been in
          export,    \* the backup every exporter is writing
          archives,  \* published backups
          profiles,  \* restored workspaces, and those being restored
          restoring, \* profile that is being written
          selected,  \* active-profile.json
          writes, halts

workspaceVars == <<version, pending, moments, export, archives>>
profileVars == <<profiles, restoring, selected>>
backupVars == <<workspaceVars, profileVars, writes, halts>>

None == [p \in {} |-> 0]
NoExport == [at |-> "idle", target |-> NoProfile, seen |-> None, copy |-> None,
             checked |-> {}, receipts |-> {}]
Add(f, p, v) == [q \in DOMAIN f \cup {p} |-> IF q = p THEN v ELSE f[q]]

Become(v, o) ==
    /\ version' = v /\ pending' = o
    /\ moments' = moments \cup {[parts |-> v, receipts |-> o]}

(***************************************************************************)
(* Writing: the program and other processes go on while a backup reads.    *)
(***************************************************************************)
Write(p) ==
    /\ writes < MaxWrites /\ writes' = writes + 1
    /\ Become([version EXCEPT ![p] = @ + 1], pending)
    /\ UNCHANGED <<export, archives, profileVars, halts>>

(* The dispatcher reserves the command before it exports, and completes it after. *)
ReserveExport(x, t) ==
    /\ export[x].at = "idle" /\ x \notin pending
    /\ t \notin DOMAIN archives
    /\ writes < MaxWrites /\ writes' = writes + 1
    /\ Become([version EXCEPT ![Database] = @ + 1], pending \cup {x})
    /\ export' = [export EXCEPT ![x] = [NoExport EXCEPT !.at = "looking", !.target = t]]
    /\ UNCHANGED <<archives, profileVars, halts>>

Look(x, p) ==
    /\ export[x].at = "looking" /\ p \in File \ DOMAIN export[x].seen
    /\ export' = [export EXCEPT
         ![x].seen = Add(@, p, version[p]),
         ![x].at = IF File \subseteq DOMAIN export[x].seen \cup {p} THEN "copying" ELSE "looking"]
    /\ UNCHANGED <<version, pending, moments, archives, profileVars, writes, halts>>

(* The copy of the receipts leaves out the exporter's own reservation only. *)
Foreign(x) == pending \ {x}

Copy(x, p) ==
    /\ export[x].at = "copying" /\ p \in File \ DOMAIN export[x].copy
    /\ p \in Moving \/ version[p] = export[x].seen[p]
    /\ export' = [export EXCEPT
         ![x].copy = Add(@, p, version[p]),
         ![x].receipts = IF p = Database THEN Foreign(x) ELSE @,
         ![x].at = IF File \subseteq DOMAIN export[x].copy \cup {p} THEN "capturing" ELSE "copying"]
    /\ UNCHANGED <<version, pending, moments, archives, profileVars, writes, halts>>

(* The library is scanned, copied and scanned again within the outer scans. *)
CaptureLook(x, p) ==
    /\ export[x].at = "capturing" /\ p \in LibraryPart \ DOMAIN export[x].seen
    /\ export' = [export EXCEPT ![x].seen = Add(@, p, version[p])]
    /\ UNCHANGED <<version, pending, moments, archives, profileVars, writes, halts>>

CaptureCopy(x, p) ==
    /\ export[x].at = "capturing" /\ LibraryPart \subseteq DOMAIN export[x].seen
    /\ p \in LibraryPart \ DOMAIN export[x].copy /\ version[p] = export[x].seen[p]
    /\ export' = [export EXCEPT ![x].copy = Add(@, p, version[p])]
    /\ UNCHANGED <<version, pending, moments, archives, profileVars, writes, halts>>

LibraryRests(x) == \A p \in LibraryPart : version[p] = export[x].seen[p]

CaptureRecheck(x) ==
    /\ export[x].at = "capturing" /\ LibraryPart \subseteq DOMAIN export[x].copy
    /\ LibraryRests(x)
    /\ export' = [export EXCEPT ![x].at = "checking"]
    /\ UNCHANGED <<version, pending, moments, archives, profileVars, writes, halts>>

(* Faulty variant: only the database is compared again. *)
SettledDatabase(x) == {Database} \subseteq export[x].checked

Settled(x) == File \ Moving \subseteq export[x].checked

Recheck(x, p) ==
    /\ export[x].at = "checking" /\ p \in File \ Moving
    /\ p \notin export[x].checked /\ version[p] = export[x].seen[p]
    /\ export' = [export EXCEPT ![x].checked = @ \cup {p}]
    /\ UNCHANGED <<version, pending, moments, archives, profileVars, writes, halts>>

(* A backup takes its name only if it is free still (_publish_new). *)
FreeName(t) == t \notin DOMAIN archives

Publish(x) ==
    /\ export[x].at = "checking" /\ Settled(x) /\ FreeName(export[x].target)
    /\ archives' = Add(archives, export[x].target,
         [parts |-> export[x].copy, receipts |-> export[x].receipts, by |-> x])
    /\ export' = [export EXCEPT ![x].at = "published"]
    /\ UNCHANGED <<version, pending, moments, profileVars, writes, halts>>

(* Anything that changed, or a taken name, ends the export without a trace. *)
Disturbed(x) ==
    \/ ~FreeName(export[x].target)
    \/ export[x].at \in {"copying", "capturing", "checking"}
         /\ \E p \in DOMAIN export[x].seen \ Moving : version[p] # export[x].seen[p]

(* The receipt says complete or failed; both end the reservation. *)
EndExport(x) ==
    /\ export[x].at \notin {"idle", "dead"}
    /\ export[x].at = "published" \/ Disturbed(x)
    /\ Become([version EXCEPT ![Database] = @ + 1], pending \ {x})
    /\ export' = [export EXCEPT ![x] = [NoExport EXCEPT !.at = "dead"]]
    /\ UNCHANGED <<archives, profileVars, writes, halts>>

DieExporting(x) ==
    /\ export[x].at \notin {"idle", "dead"} /\ halts < MaxHalts
    /\ halts' = halts + 1
    /\ export' = [export EXCEPT ![x] = [NoExport EXCEPT !.at = "dead"]]
    /\ UNCHANGED <<version, pending, moments, archives, profileVars, writes>>

(***************************************************************************)
(* Restoring into a new profile, and choosing one.                         *)
(***************************************************************************)
NoWorkspace == [parts |-> None, receipts |-> {}, quiet |-> FALSE, listed |-> FALSE]

StartRestore(t, n) ==
    /\ restoring = NoProfile /\ t \in DOMAIN archives /\ n \notin DOMAIN profiles
    /\ restoring' = [name |-> n, archive |-> t, at |-> "extracting"]
    /\ profiles' = Add(profiles, n, [NoWorkspace EXCEPT !.receipts = archives[t].receipts])
    /\ UNCHANGED <<workspaceVars, selected, writes, halts>>

Restored == profiles[restoring.name]

Extract(p) ==
    /\ restoring # NoProfile /\ restoring.at = "extracting"
    /\ p \in Part \ DOMAIN Restored.parts
    /\ profiles' = [profiles EXCEPT ![restoring.name].parts =
                      Add(@, p, archives[restoring.archive].parts[p])]
    /\ UNCHANGED <<workspaceVars, restoring, selected, writes, halts>>

(* Bytes and models are compared; then the caretaker is switched off. *)
Verified == DOMAIN Restored.parts = Part

QuietCaretaker ==
    /\ restoring # NoProfile /\ restoring.at = "extracting" /\ Verified
    /\ restoring' = [restoring EXCEPT !.at = "verified"]
    /\ profiles' = [profiles EXCEPT ![restoring.name].quiet = TRUE]
    /\ UNCHANGED <<workspaceVars, selected, writes, halts>>

WriteInfo ==
    /\ restoring # NoProfile /\ restoring.at = "verified"
    /\ restoring' = [restoring EXCEPT !.at = "listed"]
    /\ profiles' = [profiles EXCEPT ![restoring.name].listed = TRUE]
    /\ UNCHANGED <<workspaceVars, selected, writes, halts>>

SelectRestored ==
    /\ restoring # NoProfile /\ restoring.at = "listed"
    /\ selected' = restoring.name /\ restoring' = NoProfile
    /\ UNCHANGED <<workspaceVars, profiles, writes, halts>>

(* Before the profile is listed, a failure removes what was written. *)
FailRestore ==
    /\ restoring # NoProfile /\ restoring.at \in {"extracting", "verified"}
    /\ halts < MaxHalts /\ halts' = halts + 1
    /\ profiles' = Restrict(profiles, DOMAIN profiles \ {restoring.name})
    /\ restoring' = NoProfile
    /\ UNCHANGED <<workspaceVars, selected, writes>>

DieRestoring ==
    /\ restoring # NoProfile /\ halts < MaxHalts /\ halts' = halts + 1
    /\ restoring' = NoProfile
    /\ UNCHANGED <<workspaceVars, profiles, selected, writes>>

(* Faulty variant: every directory below profiles may be chosen. *)
ChoosableAll == DOMAIN profiles

(* What the owner may choose: profiles whose information is there. *)
Choosable == {n \in DOMAIN profiles : profiles[n].listed}

ActivateProfile(n) ==
    /\ n \in Choosable /\ selected' = n
    /\ UNCHANGED <<workspaceVars, profiles, restoring, writes, halts>>

ActivateOriginal ==
    /\ selected' = NoProfile
    /\ UNCHANGED <<workspaceVars, profiles, restoring, writes, halts>>
BackupsInit ==
    /\ version = [p \in Part |-> 0] /\ pending = {}
    /\ moments = {[parts |-> version, receipts |-> {}]}
    /\ export = [x \in Exporter |-> NoExport] /\ archives = [t \in {} |-> 0]
    /\ profiles = [n \in {} |-> 0] /\ restoring = NoProfile /\ selected = NoProfile
    /\ writes = 0 /\ halts = 0

BackupsNext ==
    \/ \E p \in Part : Write(p) \/ Extract(p)
    \/ \E x \in Exporter, t \in Archive : ReserveExport(x, t)
    \/ \E x \in Exporter, p \in Part :
         Look(x, p) \/ Copy(x, p) \/ CaptureLook(x, p) \/ CaptureCopy(x, p) \/ Recheck(x, p)
    \/ \E x \in Exporter : CaptureRecheck(x) \/ Publish(x) \/ EndExport(x) \/ DieExporting(x)
    \/ \E t \in Archive, n \in Profile : StartRestore(t, n)
    \/ QuietCaretaker \/ WriteInfo \/ SelectRestored \/ FailRestore \/ DieRestoring
    \/ \E n \in Profile : ActivateProfile(n)
    \/ ActivateOriginal

(***************************************************************************)
(* Properties.                                                             *)
(***************************************************************************)
(* The state has its type, an export under way is reserved, and no backup    *)
(* holds the reservation of the command that wrote it.                      *)
BackupsTypeOK ==
    /\ version \in [Part -> Nat] /\ pending \subseteq Exporter
    /\ DOMAIN archives \subseteq Archive /\ DOMAIN profiles \subseteq Profile
    /\ selected \in Profile \cup {NoProfile}
    /\ \A x \in Exporter : export[x].at \in
         {"idle", "looking", "copying", "capturing", "checking", "published", "dead"}
    /\ \A x \in Exporter : export[x].at \notin {"idle", "dead"} => x \in pending
    /\ \A t \in DOMAIN archives : archives[t].receipts \subseteq Exporter \ {archives[t].by}

(* A published backup shows the workspace, outside the files captured as    *)
(* they are, as it was at one moment, however the reads of the backup and   *)
(* the writes of other processes interleave; the only receipt it lacks is   *)
(* its own, so that what is restored waits for no command that nobody runs. *)
BackupIsOneMoment ==
    \A t \in DOMAIN archives : \E m \in moments :
        /\ \A p \in Stable : archives[t].parts[p] = m.parts[p]
        /\ archives[t].receipts = m.receipts \ {archives[t].by}

(* The profile that the next start opens is a whole copy of one backup with *)
(* its caretaker switched off, wherever a restoration failed or died.       *)
SelectedIsWhole ==
    selected # NoProfile =>
        /\ selected \in DOMAIN profiles /\ profiles[selected].quiet
        /\ \E t \in DOMAIN archives :
             /\ profiles[selected].parts = archives[t].parts
             /\ profiles[selected].receipts = archives[t].receipts

BackupsSpec == BackupsInit /\ [][BackupsNext]_backupVars

\* While a workspace is written, exported and restored: every backup is of one moment and
\* what is selected is whole (create_portable_backup, restore, select).
BackupsInv ==
    /\ BackupsTypeOK
    /\ BackupIsOneMoment
    /\ SelectedIsWhole
=============================================================================
