--------------------------- MODULE ServerProjects ----------------------------
(* The projects of one user at the server (server_sync/app.py), which live in  *)
(* two stores: the sync database and a JSON workspace of threads.  A handler   *)
(* that writes to both may die in between; a desktop repeats a bind until it   *)
(* has the answer.  Handlers of one user that take the user's lock do not      *)
(* overlap; the offline switch takes none.                                     *)
EXTENDS Integers, FiniteSets

CONSTANTS Desktop,       \* binding identities; a project id is derived from each
          Created,       \* project ids the browser's form may draw
          MaxTexts,      \* bound on titles, descriptions and notes written
          MaxFaults      \* bound on handlers that die and answers that are lost

\* A bound project's id is a digest of its binding, a created one's is drawn.
ASSUME ProjAssumption == "none" \notin Desktop \cup Created /\ Desktop \cap Created = {}

Project == Desktop \cup Created

VARIABLES listed,        \* the sync database: projects and their offline switch
          threads,       \* the JSON workspace: threads of bound and created projects
          bound,         \* management receipts of binds: their result, or NoBind
          serving,       \* the handler that holds the user's lock, or Nobody
          wanted,        \* desktops that still repeat their bind
          told,          \* the answers a desktop got to its bind
          draft,         \* the browser's open form: a thread as it was read
          texts,         \* how many descriptions were written (they are numbered)
          projCount      \* the bounds used up
projVars == <<listed, threads, bound, serving, wanted, told, draft, texts, projCount>>

Nobody == [op |-> "nobody", project |-> "none"]
NoBind == [offline |-> FALSE, description |-> -1]
NoThread == [exists |-> FALSE, revision |-> 0, description |-> 0, trashed |-> FALSE, snapshots |-> {}]
NewThread == [NoThread EXCEPT !.exists = TRUE, !.revision = 1]
NoProject == [exists |-> FALSE, offline |-> FALSE]
NoDraft == [project |-> "none", revision |-> 0, description |-> 0]

Free == serving = Nobody
Known(p) == listed[p].exists
\* core.get hides a thread in the trash.
Readable(p) == threads[p].exists /\ ~threads[p].trashed

-----------------------------------------------------------------------------
(* Binding: desktop.py posts its identity until the answer is saved *)

\* A desktop that has a binding and no metadata checkpoint yet.
AskBind(d) ==
    /\ d \notin wanted /\ wanted' = wanted \cup {d}
    /\ UNCHANGED <<listed, threads, bound, serving, told, draft, texts, projCount>>

\* The receipt answers a repeated bind, whatever the thread has become.
Rebind(d) ==
    /\ Free /\ d \in wanted /\ bound[d] # NoBind /\ Known(d)
    /\ told' = [told EXCEPT ![d] = @ \cup {bound[d]}]
    /\ \/ wanted' = wanted \ {d} /\ UNCHANGED projCount
       \/ /\ projCount.faults < MaxFaults /\ UNCHANGED wanted
          /\ projCount' = [projCount EXCEPT !.faults = @ + 1]
    /\ UNCHANGED <<listed, threads, bound, serving, draft, texts>>

\* The sync project is created, and committed, inside the core's transaction.
BindSync(d) ==
    /\ Free /\ d \in wanted /\ bound[d] = NoBind /\ ~Readable(d)
    /\ listed' = [listed EXCEPT ![d].exists = TRUE]
    /\ serving' = [op |-> "bind", project |-> d]
    /\ UNCHANGED <<threads, bound, wanted, told, draft, texts, projCount>>

\* An existing thread without a receipt is never taken over (409).
BindRefused(d) == Free /\ d \in wanted /\ bound[d] = NoBind /\ Readable(d)

\* Faulty variant: the receipt is not in the transaction of the thread.
BindCommitApart(d) ==
    /\ serving = [op |-> "bind", project |-> d]
    /\ threads' = [threads EXCEPT ![d] = NewThread]
    /\ serving' = Nobody
    /\ UNCHANGED <<listed, bound, wanted, told, draft, texts, projCount>>

\* The thread and the receipt are one transaction; the answer may get lost.
BindCommit(d) ==
    LET result == [offline |-> listed[d].offline, description |-> 0]
    IN /\ serving = [op |-> "bind", project |-> d]
       /\ threads' = [threads EXCEPT ![d] = NewThread]
       /\ bound' = [bound EXCEPT ![d] = result]
       /\ serving' = Nobody
       /\ \/ /\ told' = [told EXCEPT ![d] = @ \cup {result}]
             /\ wanted' = wanted \ {d} /\ UNCHANGED projCount
          \/ /\ projCount.faults < MaxFaults /\ UNCHANGED <<told, wanted>>
             /\ projCount' = [projCount EXCEPT !.faults = @ + 1]
       /\ UNCHANGED <<listed, draft, texts>>

-----------------------------------------------------------------------------
(* The browser *)

\* create: the thread first, in a transaction of its own, then the sync project.
CreateThread(p) ==
    /\ Free /\ p \in Created /\ ~threads[p].exists
    /\ threads' = [threads EXCEPT ![p] = NewThread]
    /\ serving' = [op |-> "create", project |-> p]
    /\ UNCHANGED <<listed, bound, wanted, told, draft, texts, projCount>>

CreateSync(p) ==
    /\ serving = [op |-> "create", project |-> p]
    /\ listed' = [listed EXCEPT ![p].exists = TRUE]
    /\ serving' = Nobody
    /\ UNCHANGED <<threads, bound, wanted, told, draft, texts, projCount>>

\* A process that dies, or an exception, between the two stores' commits.
HandlerDies ==
    /\ ~Free /\ projCount.faults < MaxFaults
    /\ projCount' = [projCount EXCEPT !.faults = @ + 1]
    /\ serving' = Nobody
    /\ UNCHANGED <<listed, threads, bound, wanted, told, draft, texts>>

SetOffline(p, on) ==
    /\ Known(p) /\ listed[p].offline # on
    /\ listed' = [listed EXCEPT ![p].offline = on]
    /\ UNCHANGED <<threads, bound, serving, wanted, told, draft, texts, projCount>>

\* GET projects joins the stores; one project without a thread fails it whole.
ListingWorks == \A p \in Project : Known(p) /\ ~threads[p].trashed => threads[p].exists

OpenForm(p) ==
    /\ Free /\ Known(p) /\ Readable(p)
    /\ draft' = [project |-> p, revision |-> threads[p].revision,
                 description |-> threads[p].description]
    /\ UNCHANGED <<listed, threads, bound, serving, wanted, told, texts, projCount>>

SavedText(p) ==
    /\ texts < MaxTexts /\ texts' = texts + 1
    /\ threads' = [threads EXCEPT ![p].revision = @ + 1, ![p].description = texts + 1,
                                  ![p].snapshots = @ \cup {threads[p].description}]

\* Faulty variant: the form's revision is not compared.
PutThreadUnchecked(p) ==
    /\ Free /\ Known(p) /\ Readable(p) /\ draft.project = p
    /\ SavedText(p)
    /\ draft' = NoDraft
    /\ UNCHANGED <<listed, bound, serving, wanted, told, projCount>>

\* put_thread: the form's revision decides; the previous text goes to a snapshot.
PutProjectThread(p) ==
    /\ Free /\ Known(p) /\ Readable(p)
    /\ draft.project = p /\ draft.revision = threads[p].revision
    /\ SavedText(p)
    /\ draft' = NoDraft
    /\ UNCHANGED <<listed, bound, serving, wanted, told, projCount>>

\* synchronize for a desktop (MetadataReplica): merged metadata saves the thread.
MergeThread(p) ==
    /\ Free /\ Known(p) /\ Readable(p)
    /\ SavedText(p)
    /\ UNCHANGED <<listed, bound, serving, wanted, told, draft, projCount>>

\* A lifecycle document of a desktop moves the thread to the trash or back.
TrashThread(p) ==
    /\ Free /\ Known(p) /\ threads[p].exists /\ projCount.moves < 2
    /\ threads' = [threads EXCEPT ![p].trashed = ~@]
    /\ projCount' = [projCount EXCEPT !.moves = @ + 1]
    /\ UNCHANGED <<listed, bound, serving, wanted, told, draft, texts>>

-----------------------------------------------------------------------------
ProjInit ==
    /\ listed = [p \in Project |-> NoProject]
    /\ threads = [p \in Project |-> NoThread]
    /\ bound = [d \in Desktop |-> NoBind]
    /\ serving = Nobody
    /\ wanted = {}
    /\ told = [d \in Desktop |-> {}]
    /\ draft = NoDraft
    /\ texts = 0
    /\ projCount = [faults |-> 0, moves |-> 0]

Bind(d) == Rebind(d) \/ BindSync(d) \/ BindCommit(d)
CreateProject == \E p \in Created : CreateThread(p) \/ CreateSync(p)

ProjNext ==
    \/ \E d \in Desktop : AskBind(d) \/ Bind(d)
    \/ CreateProject
    \/ \E p \in Project :
          \/ OpenForm(p) \/ PutProjectThread(p)
          \/ MergeThread(p) \/ TrashThread(p) \/ \E on \in BOOLEAN : SetOffline(p, on)
    \/ HandlerDies

ProjSpec == ProjInit /\ [][ProjNext]_projVars

-----------------------------------------------------------------------------
(* Properties *)

ProjTypeOK ==
    /\ serving.project \in Project \cup {"none"}
    /\ \A p \in Project : threads[p].description \in 0 .. texts
    /\ wanted \subseteq Desktop
    /\ \A d \in Desktop : bound[d] # NoBind => Known(d) /\ threads[d].exists

\* Whatever dies in between, only a bind that its desktop still repeats can leave
\* a project that fails the listing (bind_project's order of commits, create's).
ListingFailsOnlyInDoubt ==
    \A p \in Project : Known(p) /\ ~threads[p].exists => p \in wanted

\* No death leaves a thread that its own desktop may not bind: the receipt is in
\* the thread's transaction (the 409 of bind_project).
NoBindRefused == \A d \in Desktop : ~BindRefused(d)

\* Every answer to one bind is the same: the desktop's first base is the document
\* it was bound with, however much the project changed since (bootstrap_document).
BindAnswersAgree == \A d \in Desktop : Cardinality(told[d]) <= 1 /\ told[d] \subseteq {bound[d]}

\* Two writers of one thread: a text that was replaced is in a snapshot, and a form
\* replaces only the text it showed (the revision of put_thread).
TextsRecoverable ==
    1 .. texts \subseteq
        UNION {threads[p].snapshots \cup {threads[p].description} : p \in Project}
FormsSeeWhatTheyReplace ==
    [][\A p \in Project : draft.project = p /\ draft' = NoDraft =>
          draft.description = threads[p].description]_projVars

\* Wherever a server dies between its two stores, a bind repeated by a desktop is
\* accepted and answered alike and no saved text is gone (bind_project, put_thread).
ProjInv ==
    /\ ProjTypeOK
    /\ NoBindRefused
    /\ BindAnswersAgree
    /\ TextsRecoverable
    /\ ListingFailsOnlyInDoubt
==============================================================================
