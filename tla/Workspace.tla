------------------------------ MODULE Workspace ------------------------------
(***************************************************************************)
(* The threads of a JSON workspace: JsonStore's transactions (one writer at *)
(* a time, a commit plan published in one rename, applied file by file and  *)
(* replayed by whoever takes the lock next) and the operations that run in  *)
(* them: thread_management.manage with its receipts, and a direct edit that *)
(* reads a thread in one transaction and saves it in another.               *)
(*                                                                          *)
(* A thread is its note, a sequence of texts; title, files and status are   *)
(* edited in the same way as a note that is replaced.  The anchor's content *)
(* hash stands for the note itself.  A commit plan holds its writes in the  *)
(* order they were first staged; here they are applied in any order.        *)
(***************************************************************************)
EXTENDS Naturals, FiniteSets, Sequences

CONSTANTS
    Writer,        \* processes with a store of their own on this workspace
    Thread,        \* thread identifiers, those of threads not yet created too
    Existing,      \* the threads the workspace has at the start
    Identifier,
    ManageRequest,       \* the requests to manage: [op, action, thread, expected, text]
    Text,          \* what direct edits append
    ForeignText,   \* what programs that know no revisions write
    Nil,
    MaxAsked,      \* bound on calls, retries included
    MaxKilled,      \* bound on killed workers and failing steps
    MaxForeign     \* bound on saves by programs that know no revisions

ASSUME WorkspaceAssumption ==
    /\ Existing \subseteq Thread
    /\ \A q \in ManageRequest :
         /\ q.op \in Identifier
         /\ q.action \in {"create", "append", "replace"}
         /\ q.action # "create" => q.thread \in Thread /\ q.expected \in Nat

VARIABLES
    files,       \* the JSON files: path |-> content
    journal,     \* .management-commit.json: a plan (path |-> content) or Nil
    writer,      \* what each writer is doing
    spaceBudget       \* what is left of the bounds

spaceVars == <<files, journal, writer, spaceBudget>>

------------------------------------------------------------------------------
\* Paths and contents

ThreadFile(t) == <<"threads", t>>
AnchorFile(t) == <<"thread-revisions", t>>
ReceiptFile(o) == <<"management-operations", o>>

Path == {"threads", "thread-revisions"} \X Thread \cup {"management-operations"} \X Identifier
Written == Text \cup ForeignText \cup {q.text : q \in ManageRequest}
Version == [rev : Nat, note : Seq(Written)]
Receipt == [request : ManageRequest, thread : Thread, version : Version]
NoWrites == <<>>

\* The files of a workspace, and of a part of it.
IsFiles(f) ==
    /\ DOMAIN f \subseteq Path
    /\ f = [p \in DOMAIN f |-> f[p]]
    /\ \A p \in DOMAIN f : f[p] \in IF p[1] = "management-operations" THEN Receipt ELSE Version

\* The files of `under' with the writes of `plan' over them.
Over(plan, under) ==
    [p \in DOMAIN plan \cup DOMAIN under |-> IF p \in DOMAIN plan THEN plan[p] ELSE under[p]]
Write(p, c) == [x \in {p} |-> c]

Bigger(m, n) == IF m >= n THEN m ELSE n

\* Faulty variant: only revisions are compared with the anchor.
ObservedByRevision(s, t) ==
    LET file == s[ThreadFile(t)] anchor == s[AnchorFile(t)]
    IN  IF AnchorFile(t) \notin DOMAIN s THEN file
        ELSE [file EXCEPT !.rev = Bigger(@, anchor.rev)]

\* get_thread: a note that is not the anchored one was written by a program
\* without revisions and counts as a revision of its own.
Observed(s, t) ==
    LET file == s[ThreadFile(t)] anchor == s[AnchorFile(t)]
    IN  IF AnchorFile(t) \notin DOMAIN s THEN file
        ELSE [file EXCEPT !.rev =
                Bigger(@, anchor.rev + IF file.note # anchor.note THEN 1 ELSE 0)]

PutThread(t, version) == Over(Write(ThreadFile(t), version), Write(AnchorFile(t), version))

\* The writes get_thread stages: none for a thread that is as it was anchored.
\* A thread never seen before is anchored and its file left alone.
ReadWrites(s, t) ==
    IF AnchorFile(t) \notin DOMAIN s THEN Write(AnchorFile(t), s[ThreadFile(t)])
    ELSE IF s[AnchorFile(t)] # s[ThreadFile(t)] THEN PutThread(t, Observed(s, t))
    ELSE NoWrites

Saved(s, t, note) == [rev |-> Observed(s, t).rev + 1, note |-> note]

Edited(note, q) == IF q.action = "append" THEN Append(note, q.text) ELSE <<q.text>>

------------------------------------------------------------------------------
\* Writers.  "waiting": for the lock; "inside": in the transaction's body;
\* "publishing": the body is done and its plan is not yet published;
\* "recovering", "applying": somebody's plan or its own is being applied.

Task ==
    [kind : {"manage"}, request : ManageRequest]
    \cup [kind : {"read"}, thread : Thread, text : Text]
    \cup [kind : {"save"}, thread : Thread, text : Text, version : Version]

\* Nil is nobody's plan and nothing to do.
ASSUME NilAssumption ==
    /\ Nil \notin Task
    /\ \A some \in SUBSET Path : Nil \notin [some -> Receipt \cup Version]

Resting(reply) == [at |-> "idle", task |-> Nil, plan |-> NoWrites, left |-> {}, reply |-> reply]

Holding(w) == writer[w].at \notin {"idle", "waiting"}
LockIsFree == \A w \in Writer : ~Holding(w)

SetWriter(w, changed) == writer' = [writer EXCEPT ![w] = changed]

\* A caller hands the writer something to do.  A request may be sent again,
\* before or after it was answered.
Ask(w, task) ==
    /\ writer[w].at = "idle"
    /\ spaceBudget.calls > 0
    /\ spaceBudget' = [spaceBudget EXCEPT !.calls = @ - 1]
    /\ SetWriter(w, [Resting(Nil) EXCEPT !.at = "waiting", !.task = task])
    /\ UNCHANGED <<files, journal>>

Acquire(w) ==
    /\ writer[w].at = "waiting"
    /\ LockIsFree
    /\ UNCHANGED <<files, journal, spaceBudget>>

\* Faulty variant: a plan left behind is not replayed.
LockWithoutReplay(w) == Acquire(w) /\ SetWriter(w, [writer[w] EXCEPT !.at = "inside"])

\* _locked: exclusive lock, then a plan left behind by somebody is replayed.
Lock(w) ==
    /\ Acquire(w)
    /\ SetWriter(w, IF journal = Nil
                 THEN [writer[w] EXCEPT !.at = "inside"]
                 ELSE [writer[w] EXCEPT !.at = "recovering", !.left = DOMAIN journal])

\* _recover: one file of the plan is replaced.
Apply(w, p) ==
    /\ writer[w].at \in {"recovering", "applying"}
    /\ p \in writer[w].left
    /\ files' = Over(Write(p, journal[p]), files)
    /\ SetWriter(w, [writer[w] EXCEPT !.left = @ \ {p}])
    /\ UNCHANGED <<journal, spaceBudget>>

\* What the caller has in hand once the transaction is over: a manage request
\* is answered with its receipt; after the read of an edit comes its save.
Finished(task, reply) ==
    IF task.kind = "read"
      THEN [Resting(Nil) EXCEPT !.at = "waiting",
              !.task = [kind |-> "save", thread |-> task.thread, text |-> task.text,
                        version |-> reply]]
      ELSE Resting(reply)

Settle(w) ==
    /\ writer[w].at \in {"recovering", "applying"}
    /\ journal' = Nil
    /\ SetWriter(w, IF writer[w].at = "recovering"
                 THEN [writer[w] EXCEPT !.at = "inside"]
                 ELSE Finished(writer[w].task, writer[w].reply))
    /\ UNCHANGED <<files, spaceBudget>>

\* _recover: the plan is unlinked; a replay is followed by the transaction's
\* body, one's own plan by the release of the lock and the answer.
Unlink(w) == writer[w].left = {} /\ Settle(w)

------------------------------------------------------------------------------
\* Transaction bodies, each run under the lock on the files as they are

\* A body without writes publishes no plan.
Stage(w, writes, reply) ==
    /\ SetWriter(w, IF writes = NoWrites
                 THEN Finished(writer[w].task, reply)
                 ELSE [writer[w] EXCEPT !.at = "publishing", !.plan = writes, !.reply = reply])
    /\ UNCHANGED <<files, journal, spaceBudget>>

\* An exception discards what was staged, the anchoring of a read too.
Discard(w) ==
    /\ SetWriter(w, Resting(Nil))
    /\ UNCHANGED <<files, journal, spaceBudget>>

Inside(w, kind) == writer[w].at = "inside" /\ writer[w].task.kind = kind

\* An operation with a receipt is answered from it, or refused if the receipt
\* is another request's (operation_conflict).
Repeat(w) ==
    /\ Inside(w, "manage")
    /\ LET q == writer[w].task.request IN
         /\ ReceiptFile(q.op) \in DOMAIN files
         /\ IF files[ReceiptFile(q.op)].request = q
              THEN Stage(w, NoWrites, files[ReceiptFile(q.op)])
              ELSE Discard(w)

\* The effect and its receipt are staged together.
Perform(w, q, t, version) ==
    LET receipt == [request |-> q, thread |-> t, version |-> version]
    IN  Stage(w, Over(Write(ReceiptFile(q.op), receipt), PutThread(t, version)), receipt)

\* A new thread gets an identifier nobody used.
Create(w) ==
    /\ Inside(w, "manage")
    /\ LET q == writer[w].task.request IN
         /\ q.action = "create"
         /\ ReceiptFile(q.op) \notin DOMAIN files
         /\ \E t \in Thread :
              /\ ThreadFile(t) \notin DOMAIN files
              /\ Perform(w, q, t, [rev |-> 1, note |-> <<q.text>>])

SetNote(w) ==
    /\ Inside(w, "manage")
    /\ LET q == writer[w].task.request IN
         /\ q.action # "create"
         /\ ReceiptFile(q.op) \notin DOMAIN files
         /\ IF /\ ThreadFile(q.thread) \in DOMAIN files
               /\ Observed(files, q.thread).rev = q.expected
              THEN Perform(w, q, q.thread,
                     Saved(files, q.thread, Edited(files[ThreadFile(q.thread)].note, q)))
              ELSE Discard(w)

\* A direct edit: get_thread, then save_thread in a transaction of its own.
Read(w) ==
    /\ Inside(w, "read")
    /\ LET t == writer[w].task.thread IN
         IF ThreadFile(t) \in DOMAIN files
           THEN Stage(w, ReadWrites(files, t), Observed(files, t))
           ELSE Discard(w)

SaveThread(w) ==
    /\ Inside(w, "save")
    /\ LET task == writer[w].task t == task.thread IN
         IF Observed(files, t).rev = task.version.rev
           THEN Stage(w, PutThread(t, Saved(files, t, Append(task.version.note, task.text))), Nil)
           ELSE Discard(w)

\* The plan becomes durable in one rename, and with it the transaction.
Publish(w) ==
    /\ writer[w].at = "publishing"
    /\ journal' = writer[w].plan
    /\ SetWriter(w, [writer[w] EXCEPT !.at = "applying", !.plan = NoWrites,
                                 !.left = DOMAIN writer[w].plan])
    /\ UNCHANGED <<files, spaceBudget>>

------------------------------------------------------------------------------
\* Troubles

\* The process is killed or a step fails, at any point: the lock is free, no
\* answer was given, the plan stays if it was published.
DieWriting(w) ==
    /\ writer[w].at # "idle"
    /\ spaceBudget.stops > 0
    /\ spaceBudget' = [spaceBudget EXCEPT !.stops = @ - 1]
    /\ SetWriter(w, Resting(Nil))
    /\ UNCHANGED <<files, journal>>

\* A program that knows neither locks, journals nor anchors rewrites a thread
\* while nobody is in a transaction; it keeps the revision or drops it.
ForeignSave(t, note) ==
    /\ LockIsFree
    /\ spaceBudget.foreign > 0
    /\ ThreadFile(t) \in DOMAIN files
    /\ spaceBudget' = [spaceBudget EXCEPT !.foreign = @ - 1]
    /\ \E rev \in {0, files[ThreadFile(t)].rev} :
         files' = Over(Write(ThreadFile(t), [rev |-> rev, note |-> note]), files)
    /\ UNCHANGED <<journal, writer>>

------------------------------------------------------------------------------
\* Threads as an older release left them (no revision, no anchor) or this one.
SpaceInit ==
    /\ \E anchored \in SUBSET Existing :
         files = [p \in {ThreadFile(t) : t \in Existing} \cup {AnchorFile(t) : t \in anchored} |->
                    [rev |-> IF p[2] \in anchored THEN 1 ELSE 0, note |-> <<>>]]
    /\ journal = Nil
    /\ writer = [w \in Writer |-> Resting(Nil)]
    /\ spaceBudget = [calls |-> MaxAsked, stops |-> MaxKilled, foreign |-> MaxForeign]

Body(w) == Repeat(w) \/ Create(w) \/ SetNote(w) \/ Read(w) \/ SaveThread(w)

WriterStep(w) == Lock(w) \/ (\E p \in writer[w].left : Apply(w, p)) \/ Unlink(w) \/ Body(w) \/ Publish(w)

SpaceNext ==
    \/ \E w \in Writer :
         \/ \E q \in ManageRequest : Ask(w, [kind |-> "manage", request |-> q])
         \/ \E t \in Thread, x \in Text : Ask(w, [kind |-> "read", thread |-> t, text |-> x])
         \/ WriterStep(w)
         \/ DieWriting(w)
    \/ \E t \in Thread, x \in ForeignText : ForeignSave(t, <<x>>)

SpaceSpec == SpaceInit /\ [][SpaceNext]_spaceVars

------------------------------------------------------------------------------
\* Properties

\* Requests, transactions and plans have the shape the code gives them, and the
\* paths still to be written are paths of the published plan.
SpaceTypeOK ==
    /\ IsFiles(files)
    /\ journal # Nil => IsFiles(journal)
    /\ \A w \in Writer :
         /\ writer[w].at \in {"idle", "waiting", "recovering", "inside", "publishing", "applying"}
         /\ writer[w].task \in Task \cup {Nil}
         /\ IsFiles(writer[w].plan)
         /\ writer[w].left # {} => journal # Nil /\ writer[w].left \subseteq DOMAIN journal
         /\ writer[w].reply \in Receipt \cup Version \cup {Nil}

\* The workspace once the plan left behind is replayed.
Settled == IF journal = Nil THEN files ELSE Over(journal, files)

\* [thread, version] pairs somebody was told: by a receipt, or by the read of
\* an edit that has not been saved yet.
Told ==
    {[thread |-> Settled[p].thread, version |-> Settled[p].version] :
        p \in {ReceiptFile(o) : o \in Identifier} \cap DOMAIN Settled}
    \cup {[thread |-> writer[w].task.thread, version |-> writer[w].task.version] :
        w \in {v \in Writer : writer[v].task # Nil /\ writer[v].task.kind = "save"}}

\* A revision once handed out belongs to one content for ever, across crashes,
\* replays and programs that drop revisions: comparing revisions, which is all
\* manage (117) and save_thread (534) do, is comparing contents.
RevisionIdentifiesContent ==
    \A told \in Told :
        LET now == Observed(Settled, told.thread) IN
            \/ now.rev > told.version.rev
            \/ now = told.version

\* An operation that was answered is in the files with exactly the answer that
\* was given, whoever crashed or replayed since (153, "duplicate" at 112).
AnsweredIsDurable ==
    \A w \in Writer : writer[w].at = "idle" /\ writer[w].reply # Nil =>
        LET p == ReceiptFile(writer[w].reply.request.op) IN
            p \in DOMAIN files /\ files[p] = writer[w].reply

\* The transactions implement a log in which an operation, its receipt and
\* every edit take effect in one step each, at the publication of their plan.
Log == INSTANCE ThreadLog WITH
    Operation <- Identifier,
    Request  <- ManageRequest,
    Notes    <- {<<x>> : x \in ForeignText},
    notes    <- [t \in {u \in Thread : ThreadFile(u) \in DOMAIN Settled} |->
                    Settled[ThreadFile(t)].note],
    receipts <- [o \in {q \in Identifier : ReceiptFile(q) \in DOMAIN Settled} |->
                    LET receipt == Settled[ReceiptFile(o)] IN
                    [request |-> receipt.request, thread |-> receipt.thread,
                     note |-> receipt.version.note]]

ImplementsLog == Log!Spec

\* Wherever a writer dies: revisions tell contents apart and what was answered stays
\* (transaction, _replay, manage).
SpaceInv ==
    /\ SpaceTypeOK
    /\ RevisionIdentifiesContent
    /\ AnsweredIsDurable
==============================================================================
