----------------------------- MODULE Migration -----------------------------
(***************************************************************************)
(* The reviewed import of a knowledge bundle (services/migration): an      *)
(* edition of the source's pages is staged, its conflicts with the local   *)
(* nodes are decided, and AtomicImportService.commit writes a backup, the  *)
(* files and then, in one transaction, nodes, source records and the       *)
(* batch.  The owner edits, removes and restores nodes meanwhile, the      *)
(* commit may fail or die between any two steps and is started again.      *)
(*                                                                         *)
(* A node's identifier is derived from its page (mapper._stable_id), so a  *)
(* page stands for its node as well; a text stands for everything          *)
(* node_target_hash covers.                                                *)
(***************************************************************************)
EXTENDS Naturals, FiniteSets

CONSTANTS Page,       \* pages of the source, and their nodes
          Edition,    \* bundles
          Text,       \* contents of pages and nodes
          Pages,      \* the text of every page in every edition
          Absent,     \* no node, no record, no report, no review
          MaxEdits,   \* changes the owner makes
          MaxFailures \* failures and deaths of a commit

(* Source records, and the plans that reports are about. *)
Record == [source : Text, target : Text, edition : Edition]
Plan == [Page -> {"new", "update", "keep", "noop"}]

ASSUME MigrationAssumption ==
    /\ Pages \in [Edition -> [Page -> Text]]
    /\ Absent \notin Text \cup Record \cup Plan \cup Edition

VARIABLES nodes,    \* text of every node, Absent before its first import
          hidden,   \* nodes in the trash
          records,  \* source record of every page: source hash, target hash, edition
          content,  \* artifact linked to every node
          entries,  \* import batch of every edition: status and backup
          artifacts, kept, reports,  \* published files: texts, bundles, reports
          review,   \* the reviewed edition with the owner's decisions
          attempt,  \* the commit under way
          edits, failures

migrationVars == <<nodes, hidden, records, content, entries, artifacts, kept,
                   reports, review, attempt, edits, failures>>

NoBatch == [status |-> "none", backup |-> Absent]
NoAttempt == [at |-> "idle", edition |-> Absent, plan |-> [s \in Page |-> "noop"],
              from |-> [s \in Page |-> Absent], made |-> {}, backup |-> Absent]

Draft(e, s) == Pages[e][s]
Listed(s) == nodes[s] # Absent /\ s \notin hidden

(* What the planner proposes for a page (DryRunPlanner._proposal). *)
Diff(e, s) ==
    CASE records[s] = Absent -> "new"
      [] records[s] # Absent /\ ~Listed(s) -> "missing"
      [] records[s] # Absent /\ Listed(s) /\ records[s].source = Draft(e, s) -> "noop"
      [] OTHER -> IF nodes[s] # records[s].target THEN "conflict" ELSE "update"

AllowedActions(diff) == CASE diff = "missing"  -> {"take"}
                          [] diff = "conflict" -> {"keep", "take"}
                          [] OTHER -> {"none"}

(* The part of a decision's token that changes: the target it was made on. *)
Token(s) == IF Listed(s) THEN nodes[s] ELSE Absent

(***************************************************************************)
(* Reviewing: the owner sees every conflict and decides it.                *)
(***************************************************************************)
Stage(e) ==
    /\ attempt.at = "idle"
    /\ \E choice \in [Page -> {"keep", "take", "none"}] :
         /\ \A s \in Page : choice[s] \in AllowedActions(Diff(e, s))
         /\ review' = [edition |-> e,
                       choices |-> [s \in Page |-> [action |-> choice[s], token |-> Token(s)]]]
    /\ UNCHANGED <<nodes, hidden, records, content, entries, artifacts, kept,
                   reports, attempt, edits, failures>>

(* Faulty variant: decisions are applied without comparing their token. *)
FreshByAction(e, s, choice) ==
    Diff(e, s) \in {"missing", "conflict"} => choice.action # "none"

(* Does a decision still fit what the planner finds now (resolve_conflicts)? *)
Fresh(e, s, choice) ==
    Diff(e, s) \in {"missing", "conflict"} =>
        choice.action \in AllowedActions(Diff(e, s)) /\ choice.token = Token(s)

Resolved(e, s, choice) ==
    CASE Diff(e, s) = "conflict" /\ choice.action = "keep" -> "keep"
      [] Diff(e, s) \in {"conflict", "missing"} -> "update"
      [] OTHER -> Diff(e, s)

Committed(e) == entries[e].status = "committed"

Confirm ==
    /\ attempt.at = "idle" /\ review # Absent
    /\ LET e == review.edition IN
         /\ ~Committed(e)
         /\ \A s \in Page : Fresh(e, s, review.choices[s])
         /\ attempt' = [NoAttempt EXCEPT
              !.at = "planned", !.edition = e,
              !.plan = [s \in Page |-> Resolved(e, s, review.choices[s])],
              !.from = [s \in Page |-> Token(s)]]
    /\ UNCHANGED <<nodes, hidden, records, content, entries, artifacts, kept,
                   reports, review, edits, failures>>

SetStatus(e, status, backup) ==
    entries' = [entries EXCEPT ![e] = [status |-> status, backup |-> backup]]

TakeBackup ==
    /\ attempt.at = "planned"
    /\ LET copy == [nodes |-> nodes, records |-> records, content |-> content,
                    artifacts |-> artifacts, kept |-> kept]
       IN  /\ SetStatus(attempt.edition, "received", copy)
           /\ attempt' = [attempt EXCEPT !.at = "received", !.backup = copy]
    /\ UNCHANGED <<nodes, hidden, records, content, artifacts, kept, reports,
                   review, edits, failures>>

StageFiles ==
    /\ attempt.at = "received"
    /\ SetStatus(attempt.edition, "staged", attempt.backup)
    /\ attempt' = [attempt EXCEPT !.at = "staged"]
    /\ UNCHANGED <<nodes, hidden, records, content, artifacts, kept, reports,
                   review, edits, failures>>

PublishBundle ==
    /\ attempt.at = "staged"
    /\ kept' = kept \cup {attempt.edition}
    /\ attempt' = [attempt EXCEPT !.at = "bundled",
                     !.made = @ \cup ({<<"bundle", attempt.edition>>} \ {<<"bundle", e>> : e \in kept})]
    /\ UNCHANGED <<nodes, hidden, records, content, entries, artifacts,
                   reports, review, edits, failures>>

(* The report names the plan; one left by an earlier attempt must be the same. *)
PublishReport ==
    /\ attempt.at = "bundled"
    /\ LET e == attempt.edition IN
         /\ reports[e] \in {Absent, attempt.plan}
         /\ reports' = [reports EXCEPT ![e] = attempt.plan]
         /\ attempt' = [attempt EXCEPT !.at = "reported",
              !.made = @ \cup (IF reports[e] = Absent THEN {<<"report", e>>} ELSE {})]
    /\ UNCHANGED <<nodes, hidden, records, content, entries, artifacts, kept,
                   review, edits, failures>>

Written == {s \in Page : attempt.plan[s] \in {"new", "update"}}

PublishArtifacts ==
    /\ attempt.at = "reported"
    /\ LET texts == {Draft(attempt.edition, s) : s \in Written} IN
         /\ artifacts' = artifacts \cup texts
         /\ attempt' = [attempt EXCEPT !.at = "published",
              !.made = @ \cup {<<"artifact", x>> : x \in texts \ artifacts}]
    /\ UNCHANGED <<nodes, hidden, records, content, entries, kept, reports,
                   review, edits, failures>>

MarkCommitting ==
    /\ attempt.at = "published"
    /\ SetStatus(attempt.edition, "committing", attempt.backup)
    /\ attempt' = [attempt EXCEPT !.at = "committing"]
    /\ UNCHANGED <<nodes, hidden, records, content, artifacts, kept, reports,
                   review, edits, failures>>

(* What the transaction's reads and writes demand of the nodes of a plan. *)
Applicable == \A s \in Page : attempt.plan[s] \in {"update", "keep"} => Listed(s)

Commit ==
    /\ attempt.at = "committing" /\ Applicable
    /\ LET e == attempt.edition
           after == [s \in Page |-> IF s \in Written THEN Draft(e, s) ELSE nodes[s]]
       IN  /\ nodes' = after
           /\ records' = [s \in Page |->
                IF attempt.plan[s] = "noop" THEN records[s]
                ELSE [source |-> Draft(e, s), target |-> after[s], edition |-> e]]
           /\ content' = [s \in Page |-> IF s \in Written THEN Draft(e, s) ELSE content[s]]
           /\ SetStatus(e, "committed", attempt.backup)
    /\ attempt' = NoAttempt
    /\ UNCHANGED <<hidden, artifacts, kept, reports, review, edits, failures>>

(* Faulty variant: every file the attempt needed is removed, found or made. *)
RemovableAll ==
    {<<"artifact", Draft(attempt.edition, s)>> : s \in Written}
        \cup {<<"bundle", attempt.edition>>, <<"report", attempt.edition>>}

(* A failure: what this attempt created is removed, and the batch says so. *)
Removable == attempt.made

Fail ==
    /\ attempt.at # "idle"
    /\ \/ attempt.at = "committing" /\ ~Applicable /\ UNCHANGED failures
       \/ attempt.at = "bundled" /\ reports[attempt.edition] \notin {Absent, attempt.plan}
            /\ UNCHANGED failures
       \/ failures < MaxFailures /\ failures' = failures + 1
    /\ artifacts' = {x \in artifacts : <<"artifact", x>> \notin Removable}
    /\ kept' = {e \in kept : <<"bundle", e>> \notin Removable}
    /\ reports' = [e \in Edition |-> IF <<"report", e>> \in Removable THEN Absent ELSE reports[e]]
    /\ IF attempt.backup = Absent THEN UNCHANGED entries
       ELSE SetStatus(attempt.edition, "rolled_back", attempt.backup)
    /\ attempt' = NoAttempt
    /\ UNCHANGED <<nodes, hidden, records, content, review, edits>>

DieImportingBundle ==
    /\ attempt.at # "idle" /\ failures < MaxFailures
    /\ failures' = failures + 1
    /\ attempt' = NoAttempt
    /\ UNCHANGED <<nodes, hidden, records, content, entries, artifacts, kept,
                   reports, review, edits>>

(***************************************************************************)
(* The owner.                                                              *)
(***************************************************************************)
Own ==
    /\ edits < MaxEdits /\ edits' = edits + 1
    /\ UNCHANGED <<records, content, entries, artifacts, kept, reports, review,
                   attempt, failures>>

EditNode(s) ==
    /\ Listed(s) /\ \E x \in Text : nodes' = [nodes EXCEPT ![s] = x]
    /\ Own /\ UNCHANGED hidden

TrashNode(s) ==
    /\ Listed(s) /\ hidden' = hidden \cup {s}
    /\ Own /\ UNCHANGED nodes

RestoreNode(s) ==
    /\ s \in hidden /\ hidden' = hidden \ {s}
    /\ Own /\ UNCHANGED nodes

MigrationInit ==
    /\ nodes = [s \in Page |-> Absent] /\ hidden = {}
    /\ records = [s \in Page |-> Absent] /\ content = [s \in Page |-> Absent]
    /\ entries = [e \in Edition |-> NoBatch]
    /\ artifacts = {} /\ kept = {} /\ reports = [e \in Edition |-> Absent]
    /\ review = Absent /\ attempt = NoAttempt /\ edits = 0 /\ failures = 0

MigrationNext ==
    \/ \E e \in Edition : Stage(e)
    \/ Confirm \/ TakeBackup \/ StageFiles \/ PublishBundle \/ PublishReport
    \/ PublishArtifacts \/ MarkCommitting \/ Commit \/ Fail \/ DieImportingBundle
    \/ \E s \in Page : EditNode(s) \/ TrashNode(s) \/ RestoreNode(s)

MigrationSpec == MigrationInit /\ [][MigrationNext]_migrationVars

(***************************************************************************)
(* Properties.                                                             *)
(***************************************************************************)
(* Every page has a node exactly when it has a source record, and only      *)
(* imported nodes are in the trash.                                         *)
MigrationTypeOK ==
    /\ nodes \in [Page -> Text \cup {Absent}] /\ artifacts \subseteq Text
    /\ \A s \in Page : nodes[s] = Absent <=> records[s] = Absent
    /\ \A s \in hidden : nodes[s] # Absent
    /\ \A e \in Edition : entries[e].status \in
         {"none", "received", "staged", "committing", "committed", "rolled_back"}

(* Whatever later attempts create, fail to create and clean up, the artifact *)
(* a node is linked to exists, and so do the bundle and the report of every  *)
(* committed edition (cleanup_if_created, created_files).                    *)
CommittedFilesStay ==
    /\ \A s \in Page : content[s] # Absent => content[s] \in artifacts
    /\ \A e \in Edition : entries[e].status = "committed" =>
         e \in kept /\ reports[e] # Absent

(* A batch that is not committed has left no record: what "rolled_back" says *)
(* is true of every page, after any number of attempts on the edition.       *)
RolledBackLeftNothing ==
    \A e \in Edition : entries[e].status # "committed" =>
        \A s \in Page : records[s] = Absent \/ records[s].edition # e

(* The backup a batch points to is the state before its edition, whichever   *)
(* attempt wrote it, and complete: recovery finds every linked artifact.     *)
BackupsPrecede ==
    \A e \in Edition : entries[e].backup # Absent =>
        LET b == entries[e].backup IN
        \A s \in Page :
            /\ b.records[s] = Absent \/ b.records[s].edition # e
            /\ b.content[s] # Absent => b.content[s] \in b.artifacts

(* An import overwrites a text that it did not bring itself only where the   *)
(* owner decided so on seeing this very text.  A text that changed after the *)
(* plan was made is excepted: the transaction does not compare it again.     *)
OverwritesAreDecided ==
    [][\A s \in Page :
         nodes'[s] # nodes[s] /\ attempt.at = "committing" /\ attempt'.at = "idle"
            /\ nodes[s] = attempt.from[s] /\ nodes[s] # Absent
         => nodes[s] \in {records[s].target, review.choices[s].token}]_migrationVars

\* Wherever an import fails or dies: files of committed imports stay, a failed one leaves
\* nothing and its backup came first (commit, recover).
MigrationInv ==
    /\ MigrationTypeOK
    /\ CommittedFilesStay
    /\ RolledBackLeftNothing
    /\ BackupsPrecede
=============================================================================
