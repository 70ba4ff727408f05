--------------------------- MODULE WorkspaceProofs ---------------------------
(***************************************************************************)
(* Theorems about Workspace, for any writers, threads, requests and texts,  *)
(* wherever a writer dies: what a revision and an answer stand for, and     *)
(* that the journalled transactions implement ThreadLog.                    *)
(***************************************************************************)
EXTENDS Workspace, SequenceTheorems, TLAPS

(***************************************************************************)
(* Workspace: the inductive invariant                                       *)
(***************************************************************************)

SomeFiles == UNION {[some -> Receipt \cup Version] : some \in SUBSET Path}

WriterState ==
    [at : {"idle", "waiting", "recovering", "inside", "publishing", "applying"},
     task : Task \cup {Nil}, plan : SomeFiles, left : SUBSET Path, reply : Receipt \cup Version \cup {Nil}]

SpaceShapes ==
    /\ IsFiles(files) /\ (journal = Nil \/ IsFiles(journal))
    /\ writer \in [Writer -> WriterState]
    /\ \A w \in Writer : IsFiles(writer[w].plan)

OneHolder == \A v, w \in Writer : Holding(v) /\ Holding(w) => v = w

\* A version is later than another, or is the same.
Later(v, u) == v.rev > u.rev \/ v = u

\* In s the anchor of t is the version v, or one of a later revision.
Anchored(s, t, v) == AnchorFile(t) \in DOMAIN s /\ Later(s[AnchorFile(t)], v)

\* What a receipt tells is what is anchored, or was.
ReceiptsAnchored ==
    \A o \in Identifier : ReceiptFile(o) \in DOMAIN Settled =>
        Anchored(Settled, Settled[ReceiptFile(o)].thread, Settled[ReceiptFile(o)].version)

\* Only threads are anchored.
AnchorsHaveThreads ==
    \A t \in Thread : AnchorFile(t) \in DOMAIN Settled => ThreadFile(t) \in DOMAIN Settled

\* A plan brings no second receipt of an operation.
ReceiptsStay ==
    journal # Nil => \A o \in Identifier :
        ReceiptFile(o) \in DOMAIN journal \cap DOMAIN files => journal[ReceiptFile(o)] = files[ReceiptFile(o)]

\* What a request makes of the thread t of the files s.
Effect(s, q, t, v) ==
    \/ /\ q.action = "create" /\ ThreadFile(t) \notin DOMAIN s
       /\ v = [rev |-> 1, note |-> <<q.text>>]
    \/ /\ q.action # "create" /\ t = q.thread /\ ThreadFile(t) \in DOMAIN s
       /\ v = Saved(s, t, Edited(s[ThreadFile(t)].note, q))

\* The writes of a body, as they were computed from the files.
Managed(s, q, reply, plan) ==
    /\ ReceiptFile(q.op) \notin DOMAIN s
    /\ reply \in Receipt /\ reply.request = q /\ Effect(s, q, reply.thread, reply.version)
    /\ plan = Over(Write(ReceiptFile(q.op), reply), PutThread(reply.thread, reply.version))

WasRead(s, t, reply, plan) ==
    ThreadFile(t) \in DOMAIN s /\ plan = ReadWrites(s, t) /\ reply = Observed(s, t)

WasSaved(s, task, reply, plan) ==
    /\ Observed(s, task.thread).rev = task.version.rev
    /\ plan = PutThread(task.thread, Saved(s, task.thread, Append(task.version.note, task.text)))
    /\ reply = Nil

PlanFits(state) ==
    /\ state.plan # NoWrites
    /\ state.task.kind = "manage" => Managed(files, state.task.request, state.reply, state.plan)
    /\ state.task.kind = "read" => WasRead(files, state.task.thread, state.reply, state.plan)
    /\ state.task.kind = "save" => WasSaved(files, state.task, state.reply, state.plan)

Durable(reply) ==
    LET p == ReceiptFile(reply.request.op) IN p \in DOMAIN files /\ files[p] = reply

\* What a writer will answer once its plan is applied.
ReplyFits(state) ==
    /\ state.task.kind = "manage" =>
         /\ state.reply \in Receipt
         /\ ReceiptFile(state.reply.request.op) \in DOMAIN journal
         /\ journal[ReceiptFile(state.reply.request.op)] = state.reply
    /\ state.task.kind = "read" =>
         /\ AnchorFile(state.task.thread) \in DOMAIN Settled
         /\ state.reply = Settled[AnchorFile(state.task.thread)]
    /\ state.task.kind = "save" => state.reply = Nil

\* What a writer has in hand is still true of the files and the plan.
StateFits(state) ==
    /\ state.at \in {"inside", "publishing"} => journal = Nil
    /\ state.at \in {"recovering", "applying"} =>
         /\ journal # Nil /\ state.left \subseteq DOMAIN journal
         /\ \A p \in DOMAIN journal \ state.left : p \in DOMAIN files /\ files[p] = journal[p]
    /\ state.at \notin {"recovering", "applying"} => state.left = {}
    /\ state.at = "idle" =>
         /\ state.task = Nil /\ state.reply \in Receipt \cup {Nil}
         /\ state.reply # Nil => Durable(state.reply)
    /\ state.at # "idle" => state.task \in Task
    /\ state.at = "publishing" => PlanFits(state)
    /\ state.at = "applying" => ReplyFits(state)
    /\ state.task # Nil /\ state.task.kind = "save" =>
         Anchored(Settled, state.task.thread, state.task.version)

SpaceIInv ==
    /\ SpaceShapes /\ OneHolder /\ ReceiptsAnchored /\ AnchorsHaveThreads /\ ReceiptsStay
    /\ \A w \in Writer : StateFits(writer[w])

(***************************************************************************)
(* Workspace: proofs                                                        *)
(***************************************************************************)

LEMMA Paths ==
    /\ \A t \in Thread : ThreadFile(t) \in Path /\ AnchorFile(t) \in Path
    /\ \A o \in Identifier : ReceiptFile(o) \in Path
    /\ \A t, u \in Thread : /\ ThreadFile(t) # AnchorFile(u)
                            /\ ThreadFile(t) = ThreadFile(u) => t = u
                            /\ AnchorFile(t) = AnchorFile(u) => t = u
    /\ \A t \in Thread, o \in Identifier : ThreadFile(t) # ReceiptFile(o) /\ AnchorFile(t) # ReceiptFile(o)
    /\ \A o, q \in Identifier : ReceiptFile(o) = ReceiptFile(q) => o = q
    /\ \A t \in Thread : /\ ThreadFile(t)[1] # "management-operations"
                         /\ AnchorFile(t)[1] # "management-operations"
    /\ \A o \in Identifier : ReceiptFile(o)[1] = "management-operations"
BY DEF Path, ThreadFile, AnchorFile, ReceiptFile

LEMMA FilesOver ==
    ASSUME NEW plan, NEW under, IsFiles(plan), IsFiles(under)
    PROVE  IsFiles(Over(plan, under))
<1> DEFINE f == Over(plan, under)
<1>1. /\ DOMAIN f = DOMAIN plan \cup DOMAIN under
      /\ \A p \in DOMAIN f : f[p] = IF p \in DOMAIN plan THEN plan[p] ELSE under[p]
      /\ f = [p \in DOMAIN f |-> f[p]]
  BY DEF Over
<1> HIDE DEF f
<1> QED
  BY <1>1 DEF IsFiles, f

LEMMA FilesWrite ==
    ASSUME NEW p \in Path, NEW c, c \in IF p[1] = "management-operations" THEN Receipt ELSE Version
    PROVE  IsFiles(Write(p, c))
<1> DEFINE f == Write(p, c)
<1>1. DOMAIN f = {p} /\ f[p] = c /\ f = [x \in DOMAIN f |-> f[x]]
  BY DEF Write
<1> HIDE DEF f
<1> QED
  BY <1>1 DEF IsFiles, f

\* The writes of a thread: its file and its anchor, and nothing else.
LEMMA PutThreadIs ==
    ASSUME NEW t \in Thread, NEW v \in Version
    PROVE  /\ DOMAIN PutThread(t, v) = {ThreadFile(t), AnchorFile(t)}
           /\ PutThread(t, v)[ThreadFile(t)] = v /\ PutThread(t, v)[AnchorFile(t)] = v
           /\ IsFiles(PutThread(t, v))
<1>1. /\ DOMAIN Write(ThreadFile(t), v) = {ThreadFile(t)} /\ Write(ThreadFile(t), v)[ThreadFile(t)] = v
      /\ DOMAIN Write(AnchorFile(t), v) = {AnchorFile(t)} /\ Write(AnchorFile(t), v)[AnchorFile(t)] = v
  BY DEF Write
<1>2. IsFiles(Write(ThreadFile(t), v)) /\ IsFiles(Write(AnchorFile(t), v))
  BY FilesWrite, Paths
<1>3. ThreadFile(t) # AnchorFile(t)
  BY Paths
<1> DEFINE f == Write(ThreadFile(t), v)  g == Write(AnchorFile(t), v)
<1>4. PutThread(t, v) = Over(f, g)
  BY DEF PutThread
<1> HIDE DEF f, g
<1>5. IsFiles(PutThread(t, v))
  BY <1>2, <1>4, FilesOver DEF f, g
<1>6. /\ DOMAIN Over(f, g) = DOMAIN f \cup DOMAIN g
      /\ \A p \in DOMAIN f \cup DOMAIN g : Over(f, g)[p] = IF p \in DOMAIN f THEN f[p] ELSE g[p]
  BY DEF Over
<1>7. DOMAIN f = {ThreadFile(t)} /\ f[ThreadFile(t)] = v /\ DOMAIN g = {AnchorFile(t)} /\ g[AnchorFile(t)] = v
  BY <1>1 DEF f, g
<1> QED
  BY <1>3, <1>4, <1>5, <1>6, <1>7

LEMMA LaterTwice ==
    ASSUME NEW u \in Version, NEW v \in Version, NEW x \in Version, Later(v, u), Later(x, v)
    PROVE  Later(x, u)
BY DEF Later, Version

\* What get_thread reports has the note of the file and a revision its anchor does not
\* have for another note.
LEMMA ObservedIs ==
    ASSUME NEW s, IsFiles(s), NEW t \in Thread, ThreadFile(t) \in DOMAIN s
    PROVE  /\ Observed(s, t) \in Version /\ Observed(s, t).note = s[ThreadFile(t)].note
           /\ s[ThreadFile(t)] \in Version
           /\ AnchorFile(t) \notin DOMAIN s => Observed(s, t) = s[ThreadFile(t)]
           /\ AnchorFile(t) \in DOMAIN s =>
                 s[AnchorFile(t)] \in Version /\ Later(Observed(s, t), s[AnchorFile(t)])
<1> DEFINE file == s[ThreadFile(t)]  anchor == s[AnchorFile(t)]
           rev == Bigger(file.rev, anchor.rev + IF file.note # anchor.note THEN 1 ELSE 0)
<1>1. file \in Version
  BY Paths DEF IsFiles
<1>2. CASE AnchorFile(t) \notin DOMAIN s
  BY <1>1, <1>2 DEF Observed
<1>3. CASE AnchorFile(t) \in DOMAIN s
  <2>1. anchor \in Version
    BY <1>3, Paths DEF IsFiles
  <2>2. Observed(s, t) = [file EXCEPT !.rev = rev]
    BY <1>3 DEF Observed
  <2> HIDE DEF file, anchor
  <2>3. /\ rev \in Nat /\ rev >= anchor.rev
        /\ file.note # anchor.note => rev > anchor.rev
    BY <1>1, <2>1 DEF Version, Bigger
  <2> HIDE DEF rev
  <2>4. /\ Observed(s, t) \in Version
        /\ Observed(s, t).note = file.note /\ Observed(s, t).rev = rev
    BY <1>1, <2>2, <2>3 DEF Version
  <2>5. Observed(s, t).rev > anchor.rev \/ (Observed(s, t).rev = anchor.rev /\ Observed(s, t).note = anchor.note)
    BY <2>1, <2>3, <2>4 DEF Version
  <2>6. Later(Observed(s, t), anchor)
    BY <2>1, <2>4, <2>5 DEF Later, Version
  <2> QED
    BY <1>1, <1>3, <2>1, <2>4, <2>6 DEF file, anchor
<1> QED
  BY <1>2, <1>3


LEMMA NoFiles == IsFiles(NoWrites) /\ DOMAIN NoWrites = {}
BY DEF IsFiles, NoWrites

\* What a read stages anchors what it reports; without writes that is anchored already.
LEMMA ReadWritesAre ==
    ASSUME NEW s, IsFiles(s), NEW t \in Thread, ThreadFile(t) \in DOMAIN s
    PROVE  /\ IsFiles(ReadWrites(s, t))
           /\ DOMAIN ReadWrites(s, t) \subseteq {ThreadFile(t), AnchorFile(t)}
           /\ ReadWrites(s, t) = NoWrites =>
                AnchorFile(t) \in DOMAIN s /\ s[AnchorFile(t)] = Observed(s, t)
           /\ ReadWrites(s, t) # NoWrites =>
                AnchorFile(t) \in DOMAIN ReadWrites(s, t) /\ ReadWrites(s, t)[AnchorFile(t)] = Observed(s, t)
           /\ ThreadFile(t) \in DOMAIN ReadWrites(s, t) => ReadWrites(s, t)[ThreadFile(t)] = Observed(s, t)
<1> DEFINE writes == ReadWrites(s, t)  seen == Observed(s, t)
<1>1. /\ seen \in Version /\ s[ThreadFile(t)] \in Version
      /\ AnchorFile(t) \notin DOMAIN s => seen = s[ThreadFile(t)]
  BY ObservedIs
<1>2. CASE AnchorFile(t) \notin DOMAIN s
  <2>1. writes = Write(AnchorFile(t), seen)
    BY <1>1, <1>2 DEF ReadWrites
  <2> HIDE DEF writes, seen
  <2>2. DOMAIN writes = {AnchorFile(t)} /\ writes[AnchorFile(t)] = seen
    BY <2>1 DEF Write
  <2>3. IsFiles(writes)
    BY <1>1, <2>1, Paths, FilesWrite
  <2> QED
    BY <1>2, <2>2, <2>3, NoFiles, Paths DEF writes, seen
<1>3. CASE AnchorFile(t) \in DOMAIN s /\ s[AnchorFile(t)] # s[ThreadFile(t)]
  <2>1. writes = PutThread(t, seen)
    BY <1>3 DEF ReadWrites
  <2> HIDE DEF writes, seen
  <2>2. /\ DOMAIN writes = {ThreadFile(t), AnchorFile(t)}
        /\ writes[ThreadFile(t)] = seen /\ writes[AnchorFile(t)] = seen
        /\ IsFiles(writes)
    BY <1>1, <2>1, PutThreadIs
  <2> QED
    BY <1>3, <2>2, NoFiles DEF writes, seen
<1>4. CASE AnchorFile(t) \in DOMAIN s /\ s[AnchorFile(t)] = s[ThreadFile(t)]
  <2>1. writes = NoWrites
    BY <1>4 DEF ReadWrites
  <2>2. seen = s[ThreadFile(t)]
    <3> DEFINE file == s[ThreadFile(t)]
    <3>1. seen = [file EXCEPT !.rev = Bigger(file.rev, file.rev + 0)]
      BY <1>4 DEF Observed
    <3> HIDE DEF file
    <3>2. file \in Version /\ file.rev \in Nat
      BY <1>1 DEF file, Version
    <3>3. Bigger(file.rev, file.rev + 0) = file.rev
      BY <3>2 DEF Bigger
    <3>4. seen = [file EXCEPT !.rev = file.rev]
      BY <3>1, <3>3
    <3> HIDE DEF seen
    <3>5. seen = file
      BY <3>2, <3>4 DEF Version
    <3> QED
      BY <3>5 DEF file, seen
  <2> HIDE DEF seen, writes
  <2> QED
    BY <1>4, <2>1, <2>2, NoFiles DEF seen, writes
<1> QED
  BY <1>2, <1>3, <1>4

\* The writes of a plan: the version v of the thread t is anchored, later than the one
\* that was anchored, and told by the receipt that comes with it.
Writes(plan, s, t, v) ==
    /\ AnchorFile(t) \in DOMAIN plan /\ plan[AnchorFile(t)] = v
    /\ ThreadFile(t) \in DOMAIN plan \cup DOMAIN s
    /\ ThreadFile(t) \in DOMAIN plan => plan[ThreadFile(t)] = v
    /\ \A u \in Thread \ {t} : ThreadFile(u) \notin DOMAIN plan /\ AnchorFile(u) \notin DOMAIN plan
    /\ AnchorFile(t) \in DOMAIN s => Later(v, s[AnchorFile(t)])
    /\ \A o \in Identifier : ReceiptFile(o) \in DOMAIN plan =>
          /\ ReceiptFile(o) \notin DOMAIN s
          /\ plan[ReceiptFile(o)].thread = t /\ plan[ReceiptFile(o)].version = v

LEMMA TextsAreWritten ==
    /\ \A q \in ManageRequest : q.text \in Written
    /\ Text \subseteq Written /\ ForeignText \subseteq Written
    /\ \A s \in Seq(Written), x \in Written : Append(s, x) \in Seq(Written)
    /\ \A x \in Written : <<x>> \in Seq(Written)
BY DEF Written

\* A saved version is later than everything anchored before.
LEMMA SavedIs ==
    ASSUME NEW s, IsFiles(s), NEW t \in Thread, ThreadFile(t) \in DOMAIN s, NEW note \in Seq(Written)
    PROVE  /\ Saved(s, t, note) \in Version /\ Saved(s, t, note).note = note
           /\ AnchorFile(t) \in DOMAIN s => Later(Saved(s, t, note), s[AnchorFile(t)])
<1>1. /\ Observed(s, t) \in Version
      /\ AnchorFile(t) \in DOMAIN s =>
            s[AnchorFile(t)] \in Version /\ Later(Observed(s, t), s[AnchorFile(t)])
  BY ObservedIs
<1>2. Observed(s, t).rev \in Nat
  BY <1>1 DEF Version
<1>3. Saved(s, t, note) \in Version /\ Saved(s, t, note).note = note
      /\ Saved(s, t, note).rev = Observed(s, t).rev + 1
  BY <1>2 DEF Saved, Version
<1> QED
  BY <1>1, <1>2, <1>3 DEF Later, Version

\* A plan with a thread's version, and with a receipt of it.
LEMMA PutWrites ==
    ASSUME NEW s, NEW t \in Thread, NEW v \in Version,
           AnchorFile(t) \in DOMAIN s => Later(v, s[AnchorFile(t)])
    PROVE  Writes(PutThread(t, v), s, t, v)
<1>1. /\ DOMAIN PutThread(t, v) = {ThreadFile(t), AnchorFile(t)}
      /\ PutThread(t, v)[ThreadFile(t)] = v /\ PutThread(t, v)[AnchorFile(t)] = v
  BY PutThreadIs
<1> QED
  BY <1>1, Paths DEF Writes

LEMMA ReceiptPlan ==
    ASSUME NEW t \in Thread, NEW v \in Version, NEW o \in Identifier, NEW receipt \in Receipt
    PROVE  LET plan == Over(Write(ReceiptFile(o), receipt), PutThread(t, v)) IN
           /\ IsFiles(plan) /\ plan # NoWrites
           /\ DOMAIN plan = {ThreadFile(t), AnchorFile(t), ReceiptFile(o)}
           /\ plan[ThreadFile(t)] = v /\ plan[AnchorFile(t)] = v /\ plan[ReceiptFile(o)] = receipt
<1> DEFINE f == Write(ReceiptFile(o), receipt)  g == PutThread(t, v)  plan == Over(f, g)
<1>1. DOMAIN f = {ReceiptFile(o)} /\ f[ReceiptFile(o)] = receipt
  BY DEF Write
<1>2. /\ DOMAIN g = {ThreadFile(t), AnchorFile(t)}
      /\ g[ThreadFile(t)] = v /\ g[AnchorFile(t)] = v /\ IsFiles(g)
  BY PutThreadIs
<1>3. IsFiles(f)
  BY Paths, FilesWrite
<1> HIDE DEF f, g, plan
<1>4. plan = Over(f, g)
  BY DEF plan
<1>5. /\ DOMAIN plan = DOMAIN f \cup DOMAIN g
      /\ \A p \in DOMAIN plan : plan[p] = IF p \in DOMAIN f THEN f[p] ELSE g[p]
  BY <1>4 DEF Over
<1>6. IsFiles(plan)
  BY <1>2, <1>3, <1>4, FilesOver
<1>7. /\ DOMAIN plan = {ThreadFile(t), AnchorFile(t), ReceiptFile(o)}
      /\ plan[ThreadFile(t)] = v /\ plan[AnchorFile(t)] = v /\ plan[ReceiptFile(o)] = receipt
  BY <1>1, <1>2, <1>5, Paths
<1>8. plan # NoWrites
  BY <1>7, NoFiles
<1> QED
  BY <1>6, <1>7, <1>8 DEF f, g, plan

LEMMA ReceiptWrites ==
    ASSUME NEW s, NEW t \in Thread, NEW v \in Version, NEW o \in Identifier, NEW receipt,
           receipt \in Receipt, receipt.thread = t, receipt.version = v,
           ReceiptFile(o) \notin DOMAIN s,
           AnchorFile(t) \in DOMAIN s => Later(v, s[AnchorFile(t)])
    PROVE  Writes(Over(Write(ReceiptFile(o), receipt), PutThread(t, v)), s, t, v)
<1> DEFINE plan == Over(Write(ReceiptFile(o), receipt), PutThread(t, v))
<1>1. /\ DOMAIN plan = {ThreadFile(t), AnchorFile(t), ReceiptFile(o)}
      /\ plan[ThreadFile(t)] = v /\ plan[AnchorFile(t)] = v /\ plan[ReceiptFile(o)] = receipt
  BY ReceiptPlan
<1> HIDE DEF plan
<1>2. Writes(plan, s, t, v)
  BY <1>1, Paths DEF Writes
<1> QED
  BY <1>2 DEF plan

\* Every plan is the writes of one thread's version.
LEMMA PlanWrites ==
    ASSUME SpaceIInv, journal = Nil, NEW w \in Writer, NEW state, state \in WriterState,
           state.task \in Task, PlanFits(state),
           state.task.kind = "save" => Anchored(Settled, state.task.thread, state.task.version)
    PROVE  \E t \in Thread, v \in Version : Writes(state.plan, files, t, v)
<1>1. IsFiles(files) /\ Settled = files
  BY DEF SpaceIInv, SpaceShapes, Settled
<1>2. CASE state.task.kind = "manage"
  <2> DEFINE q == state.task.request  reply == state.reply  t == reply.thread  v == reply.version
  <2>1. q \in ManageRequest /\ q.op \in Identifier
    BY <1>2, WorkspaceAssumption DEF Task
  <2>2. Managed(files, q, reply, state.plan)
    BY <1>2 DEF PlanFits
  <2>3. /\ reply \in Receipt /\ t \in Thread /\ v \in Version
        /\ ReceiptFile(q.op) \notin DOMAIN files
        /\ state.plan = Over(Write(ReceiptFile(q.op), reply), PutThread(t, v))
    BY <2>2 DEF Managed, Receipt
  <2>4. AnchorFile(t) \in DOMAIN files => Later(v, files[AnchorFile(t)])
    <3>1. CASE q.action = "create" /\ ThreadFile(t) \notin DOMAIN files
      BY <1>1, <2>3, <3>1 DEF SpaceIInv, AnchorsHaveThreads
    <3>2. CASE /\ q.action # "create" /\ t = q.thread /\ ThreadFile(t) \in DOMAIN files
               /\ v = Saved(files, t, Edited(files[ThreadFile(t)].note, q))
      <4>1. files[ThreadFile(t)].note \in Seq(Written)
        BY <1>1, <2>3, <3>2, ObservedIs DEF Version
      <4>2. Edited(files[ThreadFile(t)].note, q) \in Seq(Written)
        BY <2>1, <4>1, TextsAreWritten DEF Edited
      <4> QED
        BY <1>1, <2>3, <3>2, <4>2, SavedIs
    <3> QED
      BY <2>2, <3>1, <3>2 DEF Managed, Effect
  <2>5. reply.thread = t /\ reply.version = v
    OBVIOUS
  <2> DEFINE plan == state.plan
  <2> HIDE DEF q, reply, t, v, plan
  <2>6. plan = Over(Write(ReceiptFile(q.op), reply), PutThread(t, v))
    BY <2>3 DEF plan
  <2> DEFINE o == q.op
  <2>7. /\ t \in Thread /\ v \in Version /\ o \in Identifier
        /\ reply \in Receipt /\ reply.thread = t /\ reply.version = v
        /\ ReceiptFile(o) \notin DOMAIN files
        /\ plan = Over(Write(ReceiptFile(o), reply), PutThread(t, v))
    BY <2>1, <2>3, <2>5, <2>6
  <2> HIDE DEF o
  <2>8. Writes(plan, files, t, v)
    BY <2>7, <2>4, ReceiptWrites
  <2> QED
    BY <2>3, <2>8 DEF plan
<1>3. CASE state.task.kind = "read"
  <2> DEFINE t == state.task.thread  v == Observed(files, t)  plan == state.plan
  <2>1. t \in Thread
    BY <1>3 DEF Task
  <2>2. ThreadFile(t) \in DOMAIN files /\ plan = ReadWrites(files, t) /\ plan # NoWrites
    BY <1>3 DEF PlanFits, WasRead
  <2> HIDE DEF t
  <2>3. /\ v \in Version
        /\ AnchorFile(t) \in DOMAIN files => Later(v, files[AnchorFile(t)])
    BY <1>1, <2>1, <2>2, ObservedIs
  <2>4. /\ DOMAIN plan \subseteq {ThreadFile(t), AnchorFile(t)}
        /\ AnchorFile(t) \in DOMAIN plan /\ plan[AnchorFile(t)] = v
        /\ ThreadFile(t) \in DOMAIN plan => plan[ThreadFile(t)] = v
    BY <1>1, <2>1, <2>2, ReadWritesAre
  <2> HIDE DEF v, plan
  <2>5. Writes(plan, files, t, v)
    BY <2>1, <2>2, <2>3, <2>4, Paths DEF Writes
  <2> QED
    BY <2>1, <2>3, <2>5 DEF plan
<1>4. CASE state.task.kind = "save"
  <2> DEFINE t == state.task.thread  note == Append(state.task.version.note, state.task.text)
             v == Saved(files, t, note)
  <2>1. t \in Thread /\ state.task.version \in Version /\ state.task.text \in Text
    BY <1>4 DEF Task
  <2>2. note \in Seq(Written)
    BY <2>1, TextsAreWritten DEF Version
  <2>3. state.plan = PutThread(t, v)
    BY <1>4 DEF PlanFits, WasSaved
  <2>4. ThreadFile(t) \in DOMAIN files
    BY <1>1, <1>4, <2>1 DEF Anchored, SpaceIInv, AnchorsHaveThreads
  <2> HIDE DEF t, note
  <2>5. v \in Version /\ (AnchorFile(t) \in DOMAIN files => Later(v, files[AnchorFile(t)]))
    BY <1>1, <2>1, <2>2, <2>4, SavedIs
  <2> HIDE DEF v
  <2>6. Writes(state.plan, files, t, v)
    BY <2>1, <2>3, <2>5, PutWrites
  <2> QED
    BY <2>1, <2>5, <2>6
<1> QED
  BY <1>2, <1>3, <1>4 DEF Task

\* Anchors only move on, and a receipt in the files stays there.
AnchorsGrow ==
    \A t \in Thread : AnchorFile(t) \in DOMAIN Settled =>
        AnchorFile(t) \in DOMAIN Settled' /\ Later(Settled'[AnchorFile(t)], Settled[AnchorFile(t)])

ReceiptsKept ==
    \A o \in Identifier : ReceiptFile(o) \in DOMAIN files =>
        ReceiptFile(o) \in DOMAIN files' /\ files'[ReceiptFile(o)] = files[ReceiptFile(o)]

LEMMA SettledAre == SpaceShapes => IsFiles(Settled)
BY FilesOver DEF SpaceShapes, Settled

LEMMA TaskParts ==
    ASSUME NEW task \in Task
    PROVE  /\ task.kind \in {"manage", "read", "save"} /\ task # Nil
           /\ task.kind = "manage" => task.request \in ManageRequest /\ task.request.op \in Identifier
           /\ task.kind \in {"read", "save"} => task.thread \in Thread /\ task.text \in Text
           /\ task.kind = "save" => task.version \in Version
BY NilAssumption, WorkspaceAssumption DEF Task

LEMMA ReceiptParts ==
    ASSUME NEW receipt \in Receipt
    PROVE  /\ receipt.request \in ManageRequest /\ receipt.request.op \in Identifier
           /\ receipt.thread \in Thread /\ receipt.version \in Version
BY WorkspaceAssumption DEF Receipt

LEMMA AnchoredStill ==
    ASSUME SpaceShapes, SpaceShapes', AnchorsGrow, NEW t \in Thread, NEW v \in Version,
           Anchored(Settled, t, v)
    PROVE  Anchored(Settled, t, v)'
<1> DEFINE a == Settled[AnchorFile(t)]  b == Settled'[AnchorFile(t)]
<1>1. AnchorFile(t) \in DOMAIN Settled /\ Later(a, v)
  BY DEF Anchored
<1>2. AnchorFile(t) \in DOMAIN Settled' /\ Later(b, a)
  BY <1>1 DEF AnchorsGrow
<1>3. IsFiles(Settled) /\ IsFiles(Settled')
  <2>1. IsFiles(Settled)'
    BY SettledAre, PTL
  <2> QED
    BY <2>1, SettledAre DEF IsFiles
<1>4. a \in Version /\ b \in Version
  BY <1>1, <1>2, <1>3, Paths DEF IsFiles
<1> HIDE DEF a, b
<1>5. Later(b, v)
  BY <1>1, <1>2, <1>4, LaterTwice
<1> QED
  BY <1>2, <1>5 DEF Anchored, b

\* A writer that holds no lock has in hand what stays true whoever goes on.
LEMMA RestStill ==
    ASSUME SpaceShapes, SpaceShapes', AnchorsGrow, ReceiptsKept, NEW v \in Writer, NEW state \in WriterState,
           state.at \in {"idle", "waiting"}, StateFits(state), writer'[v] = state
    PROVE  StateFits(writer[v])'
<1>1. state.left = {} /\ (state.at = "waiting" => state.task \in Task)
  BY DEF StateFits
<1>2. ASSUME state.task # Nil, state.task.kind = "save"
      PROVE  Anchored(Settled, state.task.thread, state.task.version)'
  <2>1. state.task \in Task
    BY <1>2 DEF WriterState
  <2>2. state.task.thread \in Thread /\ state.task.version \in Version
    BY <1>2, <2>1, TaskParts
  <2>3. Anchored(Settled, state.task.thread, state.task.version)
    BY <1>2 DEF StateFits
  <2> QED
    BY <2>2, <2>3, AnchoredStill
<1>3. ASSUME state.at = "idle", state.reply # Nil
      PROVE  ReceiptFile(state.reply.request.op) \in DOMAIN files' /\ files'[ReceiptFile(state.reply.request.op)] = state.reply
  <2>1. state.reply \in Receipt /\ Durable(state.reply)
    BY <1>3 DEF StateFits
  <2>2. state.reply.request.op \in Identifier
    BY <2>1, ReceiptParts
  <2> QED
    BY <2>1, <2>2 DEF Durable, ReceiptsKept
<1>4. state.at = "idle" => state.task = Nil /\ state.reply \in Receipt \cup {Nil}
  BY DEF StateFits
<1> QED
  BY <1>1, <1>2, <1>3, <1>4 DEF StateFits, Durable

\* The files and the plan are as before, and so is a writer.
LEMMA SameStill ==
    ASSUME files' = files, journal' = journal, NEW v \in Writer, NEW state, StateFits(state),
           writer'[v] = state
    PROVE  StateFits(writer[v])'
<1>1. Settled' = Settled
  BY DEF Settled
<1>2. state.at = "publishing" => PlanFits(state)
  BY DEF StateFits
<1>3. PlanFits(state) => PlanFits(writer[v])'
  BY DEF PlanFits
<1>4. ReplyFits(state) => ReplyFits(writer[v])'
  BY <1>1 DEF ReplyFits
<1>5. \A t, u : Anchored(Settled, t, u)' <=> Anchored(Settled, t, u)
  BY <1>1 DEF Anchored
<1>6. Durable(state.reply) => ReceiptFile(state.reply.request.op) \in DOMAIN files'
                              /\ files'[ReceiptFile(state.reply.request.op)] = state.reply
  BY DEF Durable
<1> QED
  BY <1>1, <1>2, <1>3, <1>4, <1>5, <1>6 DEF StateFits, Durable

\* One writer moves; files and plan are as before.
LEMMA Moves ==
    ASSUME SpaceIInv, NEW w \in Writer, NEW new \in WriterState, IsFiles(new.plan), StateFits(new),
           writer' = [writer EXCEPT ![w] = new], files' = files, journal' = journal,
           new.at \notin {"idle", "waiting"} => Holding(w) \/ LockIsFree
    PROVE  SpaceIInv'
<1>1. writer \in [Writer -> WriterState] /\ \A v \in Writer : IsFiles(writer[v].plan)
  BY DEF SpaceIInv, SpaceShapes
<1>2. /\ writer' \in [Writer -> WriterState]
      /\ \A v \in Writer : writer'[v] = IF v = w THEN new ELSE writer[v]
  BY <1>1
<1>3. SpaceShapes'
  BY <1>1, <1>2 DEF SpaceIInv, SpaceShapes
<1>4. OneHolder'
  BY <1>2 DEF SpaceIInv, OneHolder, Holding, LockIsFree
<1>5. Settled' = Settled
  BY DEF Settled
<1>6. ReceiptsAnchored' /\ AnchorsHaveThreads' /\ ReceiptsStay'
  BY <1>5 DEF SpaceIInv, ReceiptsAnchored, AnchorsHaveThreads, ReceiptsStay, Anchored
<1>7. \A v \in Writer : StateFits(writer[v])'
  <2> SUFFICES ASSUME NEW v \in Writer PROVE StateFits(writer[v])'
    OBVIOUS
  <2>1. PICK state : state = writer'[v] /\ StateFits(state)
    BY <1>2 DEF SpaceIInv
  <2> QED
    BY <2>1, SameStill
<1> QED
  BY <1>3, <1>4, <1>6, <1>7 DEF SpaceIInv

\* The holder of the lock moves, and changes the files or the plan.
LEMMA HolderMoves ==
    ASSUME SpaceIInv, NEW w \in Writer, Holding(w), NEW new \in WriterState, IsFiles(new.plan),
           writer' = [writer EXCEPT ![w] = new],
           IsFiles(files'), journal' = Nil \/ IsFiles(journal'),
           ReceiptsKept, AnchorsGrow, ReceiptsAnchored', AnchorsHaveThreads', ReceiptsStay',
           SpaceShapes' => StateFits(writer[w])'
    PROVE  SpaceIInv'
<1>1. writer \in [Writer -> WriterState] /\ \A v \in Writer : IsFiles(writer[v].plan)
  BY DEF SpaceIInv, SpaceShapes
<1>2. /\ writer' \in [Writer -> WriterState]
      /\ \A v \in Writer : writer'[v] = IF v = w THEN new ELSE writer[v]
  BY <1>1
<1>3. SpaceShapes'
  BY <1>1, <1>2 DEF SpaceShapes, IsFiles
<1>4. OneHolder'
  BY <1>2 DEF SpaceIInv, OneHolder, Holding
<1>5. ASSUME NEW v \in Writer, v # w PROVE StateFits(writer[v])'
  <2>1. PICK state \in WriterState : state = writer[v] /\ writer'[v] = state /\ StateFits(state)
    BY <1>1, <1>2, <1>5 DEF SpaceIInv
  <2>2. state.at \in {"idle", "waiting"}
    BY <1>5, <2>1 DEF SpaceIInv, OneHolder, Holding
  <2>3. SpaceShapes
    BY DEF SpaceIInv
  <2> QED
    BY <1>3, <2>1, <2>2, <2>3, RestStill
<1>6. \A v \in Writer : StateFits(writer[v])'
  BY <1>3, <1>5
<1> QED
  BY <1>3, <1>4, <1>6 DEF SpaceIInv

LEMMA RestingIs ==
    ASSUME NEW reply \in Receipt \cup Version \cup {Nil}
    PROVE  /\ Resting(reply) \in WriterState /\ IsFiles(Resting(reply).plan)
           /\ Resting(reply).at = "idle" /\ Resting(reply).task = Nil /\ Resting(reply).left = {}
           /\ Resting(reply).reply = reply
<1>1. NoWrites \in SomeFiles
  <2>1. NoWrites \in [{} -> Receipt \cup Version]
    BY NoFiles DEF IsFiles
  <2> QED
    BY <2>1 DEF SomeFiles
<1> QED
  BY <1>1, NoFiles DEF Resting, WriterState

\* A writer asks, and waits.
LEMMA WaitingIs ==
    ASSUME NEW task \in Task
    PROVE  LET new == [Resting(Nil) EXCEPT !.at = "waiting", !.task = task] IN
           /\ new \in WriterState /\ IsFiles(new.plan)
           /\ new.at = "waiting" /\ new.task = task /\ new.left = {}
<1> DEFINE rest == Resting(Nil)
<1>1. rest \in WriterState /\ IsFiles(rest.plan) /\ rest.left = {}
  BY RestingIs
<1> HIDE DEF rest
<1> QED
  BY <1>1 DEF rest, WriterState

LEMMA AskStep ==
    ASSUME SpaceIInv, NEW w \in Writer, NEW task \in Task, task.kind # "save", Ask(w, task)
    PROVE  SpaceIInv'
<1> DEFINE new == [Resting(Nil) EXCEPT !.at = "waiting", !.task = task]
<1>1. writer' = [writer EXCEPT ![w] = new] /\ files' = files /\ journal' = journal
  BY DEF Ask, SetWriter
<1>2. /\ new \in WriterState /\ IsFiles(new.plan)
      /\ new.at = "waiting" /\ new.task = task /\ new.left = {}
  BY WaitingIs
<1> HIDE DEF new
<1>3. StateFits(new)
  BY <1>2 DEF StateFits
<1> QED
  BY <1>1, <1>2, <1>3, Moves

LEMMA DieStep ==
    ASSUME SpaceIInv, NEW w \in Writer, writer' = [writer EXCEPT ![w] = Resting(Nil)],
           files' = files, journal' = journal
    PROVE  SpaceIInv'
<1> DEFINE new == Resting(Nil)
<1>1. /\ new \in WriterState /\ IsFiles(new.plan)
      /\ new.at = "idle" /\ new.task = Nil /\ new.left = {} /\ new.reply = Nil
  BY RestingIs
<1>2. writer' = [writer EXCEPT ![w] = new]
  OBVIOUS
<1> HIDE DEF new
<1>3. StateFits(new)
  BY <1>1 DEF StateFits
<1> QED
  BY <1>1, <1>2, <1>3, Moves

LEMMA LockStep ==
    ASSUME SpaceIInv, NEW w \in Writer, Lock(w)
    PROVE  SpaceIInv'
<1> DEFINE old == writer[w]
<1>1. /\ old \in WriterState /\ IsFiles(old.plan) /\ StateFits(old) /\ old.at = "waiting"
      /\ LockIsFree /\ files' = files /\ journal' = journal
  BY DEF Lock, Acquire, SpaceIInv, SpaceShapes
<1>2. old.task \in Task /\ old.left = {}
  BY <1>1 DEF StateFits
<1>3. CASE journal = Nil
  <2> DEFINE new == [old EXCEPT !.at = "inside"]
  <2>1. writer' = [writer EXCEPT ![w] = new]
    BY <1>3 DEF Lock, SetWriter
  <2>2. /\ new \in WriterState /\ new.plan = old.plan /\ new.at = "inside" /\ new.task = old.task
        /\ new.left = {}
    BY <1>1, <1>2 DEF WriterState
  <2> HIDE DEF new, old
  <2>3. StateFits(new)
    BY <1>1, <1>2, <1>3, <2>2 DEF StateFits
  <2> QED
    BY <1>1, <2>1, <2>2, <2>3, Moves
<1>4. CASE journal # Nil
  <2> DEFINE new == [old EXCEPT !.at = "recovering", !.left = DOMAIN journal]
  <2>1. writer' = [writer EXCEPT ![w] = new]
    BY <1>4 DEF Lock, SetWriter
  <2>2. DOMAIN journal \subseteq Path
    BY <1>4 DEF SpaceIInv, SpaceShapes, IsFiles
  <2>3. /\ new \in WriterState /\ new.plan = old.plan /\ new.at = "recovering" /\ new.task = old.task
        /\ new.left = DOMAIN journal
    BY <1>1, <2>2 DEF WriterState
  <2> HIDE DEF new, old
  <2>4. StateFits(new)
    BY <1>1, <1>2, <1>4, <2>3 DEF StateFits
  <2> QED
    BY <1>1, <2>1, <2>3, <2>4, Moves
<1> QED
  BY <1>3, <1>4

\* What a caller has in hand after a transaction that told it the truth.
LEMMA FinishedIs ==
    ASSUME SpaceShapes, NEW task \in Task, NEW reply \in Receipt \cup Version \cup {Nil},
           task.kind = "manage" => reply \in Receipt /\ Durable(reply),
           task.kind = "read" => reply \in Version /\ Anchored(Settled, task.thread, reply),
           task.kind = "save" => reply = Nil
    PROVE  /\ Finished(task, reply) \in WriterState /\ IsFiles(Finished(task, reply).plan)
           /\ Finished(task, reply).at \in {"idle", "waiting"} /\ StateFits(Finished(task, reply))
<1> DEFINE new == Finished(task, reply)
<1>1. task.kind \in {"manage", "read", "save"}
  BY TaskParts
<1>2. CASE task.kind = "read"
  <2> DEFINE next == [kind |-> "save", thread |-> task.thread, text |-> task.text, version |-> reply]
  <2>1. next \in Task /\ next.kind = "save" /\ next.thread = task.thread /\ next.version = reply
    <3>1. task.thread \in Thread /\ task.text \in Text
      BY <1>2, TaskParts
    <3> QED
      BY <1>2, <3>1 DEF Task
  <2>2. new = [Resting(Nil) EXCEPT !.at = "waiting", !.task = next]
    BY <1>2 DEF Finished
  <2> HIDE DEF next, new
  <2>3. /\ new \in WriterState /\ IsFiles(new.plan)
        /\ new.at = "waiting" /\ new.task = next /\ new.left = {}
    BY <2>1, <2>2, WaitingIs
  <2>4. StateFits(new)
    BY <1>2, <2>1, <2>3 DEF StateFits
  <2> QED
    BY <2>3, <2>4 DEF new
<1>3. CASE task.kind # "read"
  <2>1. new = Resting(reply)
    BY <1>3 DEF Finished
  <2> HIDE DEF new
  <2>2. /\ new \in WriterState /\ IsFiles(new.plan)
        /\ new.at = "idle" /\ new.task = Nil /\ new.left = {} /\ new.reply = reply
    BY <2>1, RestingIs
  <2>3. StateFits(new)
    BY <1>1, <1>3, <2>2 DEF StateFits
  <2> QED
    BY <2>2, <2>3 DEF new
<1> QED
  BY <1>2, <1>3

\* A body ends: its writes are to be published, or there are none and it is over.
LEMMA StageStep ==
    ASSUME SpaceIInv, NEW w \in Writer, writer[w].at = "inside", NEW writes, IsFiles(writes),
           NEW reply \in Receipt \cup Version \cup {Nil}, Stage(w, writes, reply),
           writes # NoWrites =>
               /\ writer[w].task.kind = "manage" => Managed(files, writer[w].task.request, reply, writes)
               /\ writer[w].task.kind = "read" => WasRead(files, writer[w].task.thread, reply, writes)
               /\ writer[w].task.kind = "save" => WasSaved(files, writer[w].task, reply, writes),
           writes = NoWrites =>
               /\ writer[w].task.kind = "manage" => reply \in Receipt /\ Durable(reply)
               /\ writer[w].task.kind = "read" => reply \in Version /\ Anchored(Settled, writer[w].task.thread, reply)
               /\ writer[w].task.kind = "save" => reply = Nil
    PROVE  SpaceIInv'
<1> DEFINE old == writer[w]
<1>1. /\ old \in WriterState /\ StateFits(old) /\ old.at = "inside" /\ SpaceShapes
      /\ files' = files /\ journal' = journal /\ Holding(w)
  BY DEF Stage, SpaceIInv, SpaceShapes, Holding
<1>2. old.task \in Task /\ old.left = {} /\ journal = Nil
  BY <1>1 DEF StateFits
<1>3. CASE writes = NoWrites
  <2> DEFINE new == Finished(old.task, reply)
  <2>1. writer' = [writer EXCEPT ![w] = new]
    BY <1>3 DEF Stage, SetWriter
  <2>2. new \in WriterState /\ IsFiles(new.plan) /\ new.at \in {"idle", "waiting"} /\ StateFits(new)
    BY <1>1, <1>2, <1>3, FinishedIs
  <2> HIDE DEF new
  <2> QED
    BY <1>1, <2>1, <2>2, Moves
<1>4. CASE writes # NoWrites
  <2> DEFINE new == [old EXCEPT !.at = "publishing", !.plan = writes, !.reply = reply]
  <2>1. writer' = [writer EXCEPT ![w] = new]
    BY <1>4 DEF Stage, SetWriter
  <2>2. writes \in SomeFiles
    <3>1. writes \in [DOMAIN writes -> Receipt \cup Version] /\ DOMAIN writes \in SUBSET Path
      BY DEF IsFiles
    <3> QED
      BY <3>1 DEF SomeFiles
  <2>3. /\ new \in WriterState /\ new.plan = writes /\ new.at = "publishing" /\ new.task = old.task
        /\ new.left = {} /\ new.reply = reply
    BY <1>1, <1>2, <2>2 DEF WriterState
  <2>4. /\ old.task.kind = "manage" => Managed(files, old.task.request, reply, writes)
        /\ old.task.kind = "read" => WasRead(files, old.task.thread, reply, writes)
        /\ old.task.kind = "save" => WasSaved(files, old.task, reply, writes)
    BY <1>4
  <2>5. old.task # Nil /\ old.task.kind = "save" => Anchored(Settled, old.task.thread, old.task.version)
    BY <1>1 DEF StateFits
  <2> HIDE DEF new, old
  <2>6. PlanFits(new)
    BY <1>4, <2>3, <2>4 DEF PlanFits
  <2>7. StateFits(new)
    BY <1>2, <2>3, <2>5, <2>6 DEF StateFits
  <2> QED
    BY <1>1, <2>1, <2>3, <2>7, Moves DEF old
<1> QED
  BY <1>3, <1>4

LEMMA DiscardStep ==
    ASSUME SpaceIInv, NEW w \in Writer, Discard(w)
    PROVE  SpaceIInv'
BY DieStep DEF Discard, SetWriter

\* A writer in the transaction's body: what it can rely on.
LEMMA InBody ==
    ASSUME SpaceIInv, NEW w \in Writer, writer[w].at = "inside"
    PROVE  /\ writer[w].task \in Task /\ journal = Nil /\ Settled = files /\ IsFiles(files)
           /\ writer[w].task.kind = "save" =>
                 Anchored(files, writer[w].task.thread, writer[w].task.version)
<1>1. StateFits(writer[w]) /\ IsFiles(files)
  BY DEF SpaceIInv, SpaceShapes
<1>2. writer[w].task \in Task /\ journal = Nil
  BY <1>1 DEF StateFits
<1>3. Settled = files
  BY <1>2 DEF Settled
<1> QED
  BY <1>1, <1>2, <1>3, TaskParts DEF StateFits

LEMMA RepeatStep ==
    ASSUME SpaceIInv, NEW w \in Writer, Repeat(w)
    PROVE  SpaceIInv'
<1> DEFINE q == writer[w].task.request  reply == files[ReceiptFile(q.op)]
<1>1. /\ writer[w].at = "inside" /\ writer[w].task.kind = "manage"
      /\ ReceiptFile(q.op) \in DOMAIN files
      /\ \/ reply.request = q /\ Stage(w, NoWrites, reply)
         \/ Discard(w)
  BY DEF Repeat, Inside
<1>2. CASE reply.request = q /\ Stage(w, NoWrites, reply)
  <2>1. IsFiles(files) /\ writer[w].task \in Task
    BY <1>1, InBody
  <2>2. q.op \in Identifier
    BY <1>1, <2>1, TaskParts
  <2>3. reply \in Receipt
    BY <1>1, <2>1, <2>2, Paths DEF IsFiles
  <2>4. Durable(reply)
    BY <1>1, <1>2 DEF Durable
  <2> HIDE DEF q, reply
  <2> QED
    BY <1>1, <1>2, <2>3, <2>4, NoFiles, StageStep
<1> QED
  BY <1>1, <1>2, DiscardStep

\* The effect of an operation with its receipt.
LEMMA PerformStep ==
    ASSUME SpaceIInv, NEW w \in Writer, writer[w].at = "inside", writer[w].task.kind = "manage",
           NEW q, q = writer[w].task.request, ReceiptFile(q.op) \notin DOMAIN files,
           NEW t \in Thread, NEW v \in Version, Perform(w, q, t, v), Effect(files, q, t, v)
    PROVE  SpaceIInv'
<1> DEFINE receipt == [request |-> q, thread |-> t, version |-> v]
           plan == Over(Write(ReceiptFile(q.op), receipt), PutThread(t, v))
<1>1. writer[w].task \in Task /\ Settled = files /\ IsFiles(files)
  BY InBody
<1>2. q \in ManageRequest /\ q.op \in Identifier
  BY <1>1, TaskParts
<1>3. /\ receipt \in Receipt /\ receipt.request = q /\ receipt.thread = t /\ receipt.version = v
  BY <1>2 DEF Receipt
<1>4. Stage(w, plan, receipt)
  BY DEF Perform
<1> HIDE DEF receipt
<1>5. AnchorFile(t) \in DOMAIN files => Later(v, files[AnchorFile(t)])
  <2>1. CASE ThreadFile(t) \notin DOMAIN files
    BY <1>1, <2>1 DEF SpaceIInv, AnchorsHaveThreads
  <2>2. CASE ThreadFile(t) \in DOMAIN files /\ v = Saved(files, t, Edited(files[ThreadFile(t)].note, q))
    <3>1. files[ThreadFile(t)].note \in Seq(Written)
      BY <1>1, <2>2, ObservedIs DEF Version
    <3>2. Edited(files[ThreadFile(t)].note, q) \in Seq(Written)
      BY <1>2, <3>1, TextsAreWritten DEF Edited
    <3> QED
      BY <1>1, <2>2, <3>2, SavedIs
  <2> QED
    BY <2>1, <2>2 DEF Effect
<1>6. IsFiles(plan) /\ plan # NoWrites
  <2>1. \A i \in Identifier, r \in Receipt :
           IsFiles(Over(Write(ReceiptFile(i), r), PutThread(t, v)))
    BY ReceiptPlan
  <2> DEFINE o == q.op
  <2>2. o \in Identifier /\ ReceiptFile(o) \notin DOMAIN files
    BY <1>2
  <2>3. plan = Over(Write(ReceiptFile(o), receipt), PutThread(t, v))
    OBVIOUS
  <2> HIDE DEF o, plan
  <2>4. Writes(plan, files, t, v)
    BY <2>2, <2>3, <1>3, <1>5, ReceiptWrites
  <2>5. AnchorFile(t) \in DOMAIN plan
    BY <2>4 DEF Writes
  <2> QED
    BY <2>1, <2>2, <2>3, <2>5, <1>3, NoFiles
<1>7. plan = Over(Write(ReceiptFile(q.op), receipt), PutThread(receipt.thread, receipt.version))
  BY <1>3
<1> HIDE DEF plan
<1>8. Managed(files, q, receipt, plan)
  BY <1>3, <1>7 DEF Managed
<1> QED
  BY <1>3, <1>4, <1>6, <1>8, StageStep

LEMMA CreateStep ==
    ASSUME SpaceIInv, NEW w \in Writer, Create(w)
    PROVE  SpaceIInv'
<1> DEFINE q == writer[w].task.request  v == [rev |-> 1, note |-> <<q.text>>]
<1>1. /\ writer[w].at = "inside" /\ writer[w].task.kind = "manage"
      /\ q.action = "create" /\ ReceiptFile(q.op) \notin DOMAIN files
      /\ \E t \in Thread : ThreadFile(t) \notin DOMAIN files /\ Perform(w, q, t, v)
  BY DEF Create, Inside
<1>2. PICK t \in Thread : ThreadFile(t) \notin DOMAIN files /\ Perform(w, q, t, v)
  BY <1>1
<1>3. v \in Version
  <2>1. writer[w].task \in Task
    BY <1>1, InBody
  <2>2. q \in ManageRequest
    BY <1>1, <2>1, TaskParts
  <2>3. <<q.text>> \in Seq(Written)
    BY <2>2, TextsAreWritten
  <2> QED
    BY <2>3 DEF Version
<1>4. v = [rev |-> 1, note |-> <<q.text>>] /\ q = writer[w].task.request
  OBVIOUS
<1> HIDE DEF q, v
<1> QED
  BY <1>1, <1>2, <1>3, <1>4, PerformStep DEF Effect

LEMMA SetNoteStep ==
    ASSUME SpaceIInv, NEW w \in Writer, SetNote(w)
    PROVE  SpaceIInv'
<1> DEFINE q == writer[w].task.request
           v == Saved(files, q.thread, Edited(files[ThreadFile(q.thread)].note, q))
<1>1. /\ writer[w].at = "inside" /\ writer[w].task.kind = "manage"
      /\ q.action # "create" /\ ReceiptFile(q.op) \notin DOMAIN files
      /\ \/ ThreadFile(q.thread) \in DOMAIN files /\ Perform(w, q, q.thread, v)
         \/ Discard(w)
  BY DEF SetNote, Inside
<1>2. CASE ThreadFile(q.thread) \in DOMAIN files /\ Perform(w, q, q.thread, v)
  <2>1. writer[w].task \in Task /\ IsFiles(files)
    BY <1>1, InBody
  <2>2. q \in ManageRequest /\ q.thread \in Thread
    BY <1>1, <2>1, TaskParts, WorkspaceAssumption
  <2>3. files[ThreadFile(q.thread)].note \in Seq(Written)
    BY <1>2, <2>1, <2>2, ObservedIs DEF Version
  <2>4. Edited(files[ThreadFile(q.thread)].note, q) \in Seq(Written)
    BY <2>2, <2>3, TextsAreWritten DEF Edited
  <2>5. v \in Version
    BY <1>2, <2>1, <2>2, <2>4, SavedIs
  <2>6. v = Saved(files, q.thread, Edited(files[ThreadFile(q.thread)].note, q)) /\ q = writer[w].task.request
    OBVIOUS
  <2> HIDE DEF q, v
  <2> QED
    BY <1>1, <1>2, <2>2, <2>5, <2>6, PerformStep DEF Effect
<1> QED
  BY <1>1, <1>2, DiscardStep

LEMMA ReadStep ==
    ASSUME SpaceIInv, NEW w \in Writer, Read(w)
    PROVE  SpaceIInv'
<1> DEFINE t == writer[w].task.thread  writes == ReadWrites(files, t)  seen == Observed(files, t)
<1>1. /\ writer[w].at = "inside" /\ writer[w].task.kind = "read"
      /\ \/ ThreadFile(t) \in DOMAIN files /\ Stage(w, writes, seen)
         \/ Discard(w)
  BY DEF Read, Inside
<1>2. CASE ThreadFile(t) \in DOMAIN files /\ Stage(w, writes, seen)
  <2>1. writer[w].task \in Task /\ IsFiles(files) /\ Settled = files
    BY <1>1, InBody
  <2>2. t \in Thread
    BY <1>1, <2>1, TaskParts
  <2>3. seen \in Version
    BY <1>2, <2>1, <2>2, ObservedIs
  <2>4. /\ IsFiles(writes)
        /\ writes = NoWrites => AnchorFile(t) \in DOMAIN files /\ files[AnchorFile(t)] = seen
    BY <1>2, <2>1, <2>2, ReadWritesAre
  <2>5. WasRead(files, t, seen, writes)
    BY <1>2 DEF WasRead
  <2> HIDE DEF writes, seen
  <2>6. writes = NoWrites => seen \in Version /\ Anchored(Settled, t, seen)
    BY <2>1, <2>3, <2>4 DEF Anchored, Later
  <2> QED
    BY <1>1, <1>2, <2>3, <2>4, <2>5, <2>6, StageStep
<1> QED
  BY <1>1, <1>2, DiscardStep

LEMMA SaveStep ==
    ASSUME SpaceIInv, NEW w \in Writer, SaveThread(w)
    PROVE  SpaceIInv'
<1> DEFINE task == writer[w].task  t == task.thread
           v == Saved(files, t, Append(task.version.note, task.text))
<1>1. /\ writer[w].at = "inside" /\ task.kind = "save"
      /\ \/ Observed(files, t).rev = task.version.rev /\ Stage(w, PutThread(t, v), Nil)
         \/ Discard(w)
  BY DEF SaveThread, Inside
<1>2. CASE Observed(files, t).rev = task.version.rev /\ Stage(w, PutThread(t, v), Nil)
  <2>1. task \in Task /\ IsFiles(files) /\ Settled = files /\ Anchored(files, t, task.version)
    BY <1>1, InBody
  <2>2. t \in Thread /\ task.text \in Text /\ task.version \in Version
    BY <1>1, <2>1, TaskParts
  <2>3. ThreadFile(t) \in DOMAIN files
    BY <2>1, <2>2 DEF SpaceIInv, AnchorsHaveThreads, Anchored
  <2>4. Append(task.version.note, task.text) \in Seq(Written)
    BY <2>2, TextsAreWritten DEF Version
  <2>5. v \in Version
    BY <2>1, <2>2, <2>3, <2>4, SavedIs
  <2>6. WasSaved(files, task, Nil, PutThread(t, v))
    BY <1>2 DEF WasSaved
  <2> HIDE DEF v
  <2>7. IsFiles(PutThread(t, v)) /\ AnchorFile(t) \in DOMAIN PutThread(t, v)
    BY <2>2, <2>5, PutThreadIs
  <2>8. PutThread(t, v) # NoWrites
    BY <2>7, NoFiles
  <2> QED
    BY <1>1, <1>2, <2>6, <2>7, <2>8, StageStep
<1> QED
  BY <1>1, <1>2, DiscardStep

\* The plan of an operation: the receipt, and the version in the thread and its anchor.
OperationPlan(reply, plan) ==
    /\ reply \in Receipt
    /\ DOMAIN plan = {ThreadFile(reply.thread), AnchorFile(reply.thread), ReceiptFile(reply.request.op)}
    /\ plan[ThreadFile(reply.thread)] = reply.version /\ plan[ReceiptFile(reply.request.op)] = reply

LEMMA ManagedIs ==
    ASSUME NEW s, NEW q \in ManageRequest, NEW reply, NEW plan, Managed(s, q, reply, plan)
    PROVE  reply.request = q /\ OperationPlan(reply, plan)
<1>1. /\ reply \in Receipt /\ reply.request = q /\ reply.thread \in Thread /\ reply.version \in Version
      /\ plan = Over(Write(ReceiptFile(q.op), reply), PutThread(reply.thread, reply.version))
  BY ReceiptParts DEF Managed
<1>2. q.op \in Identifier
  BY WorkspaceAssumption
<1>3. PICK t \in Thread, v \in Version, o \in Identifier, receipt \in Receipt :
        t = reply.thread /\ v = reply.version /\ o = q.op /\ receipt = reply
  BY <1>1, <1>2
<1> DEFINE full == Over(Write(ReceiptFile(o), receipt), PutThread(t, v))
<1>4. plan = full
  BY <1>1, <1>3
<1>5. /\ IsFiles(full) /\ full # NoWrites
      /\ DOMAIN full = {ThreadFile(t), AnchorFile(t), ReceiptFile(o)}
      /\ full[ThreadFile(t)] = v /\ full[AnchorFile(t)] = v /\ full[ReceiptFile(o)] = receipt
  BY ReceiptPlan
<1> HIDE DEF full
<1> QED
  BY <1>1, <1>3, <1>4, <1>5 DEF OperationPlan

\* The plan is published: the transaction has happened.
LEMMA PublishStep ==
    ASSUME SpaceIInv, NEW w \in Writer, Publish(w)
    PROVE  SpaceIInv'
<1>0. PICK old \in WriterState : old = writer[w]
  BY DEF SpaceIInv, SpaceShapes
<1> DEFINE plan == old.plan
           new == [old EXCEPT !.at = "applying", !.plan = NoWrites, !.left = DOMAIN plan]
<1>1. /\ old \in WriterState /\ StateFits(old) /\ old.at = "publishing" /\ SpaceShapes
      /\ IsFiles(plan) /\ IsFiles(files)
      /\ files' = files /\ journal' = plan /\ Holding(w)
      /\ writer' = [writer EXCEPT ![w] = new]
  BY <1>0 DEF Publish, SetWriter, SpaceIInv, SpaceShapes, Holding
<1>2. /\ old.task \in Task /\ journal = Nil /\ PlanFits(old)
      /\ old.task.kind = "save" => Anchored(Settled, old.task.thread, old.task.version)
  BY <1>1, TaskParts DEF StateFits
<1>3. plan # Nil
  <2>1. plan \in [DOMAIN plan -> Receipt \cup Version] /\ DOMAIN plan \in SUBSET Path
    BY <1>1 DEF IsFiles
  <2> QED
    BY <2>1, NilAssumption
<1>4. Settled = files /\ Settled' = Over(plan, files)
  BY <1>1, <1>2, <1>3 DEF Settled
<1>5. PICK t \in Thread, v \in Version : Writes(plan, files, t, v)
  BY <1>1, <1>2, PlanWrites
<1>6. /\ new \in WriterState /\ new.plan = NoWrites /\ new.at = "applying" /\ new.task = old.task
      /\ new.left = DOMAIN plan /\ new.reply = old.reply
  <2>1. NoWrites \in SomeFiles
    BY RestingIs DEF Resting, WriterState
  <2>2. DOMAIN plan \subseteq Path
    BY <1>1 DEF IsFiles
  <2> HIDE DEF plan
  <2> QED
    BY <1>1, <2>1, <2>2 DEF WriterState
<1>7. writer'[w] = new
  BY <1>1 DEF SpaceShapes
<1> HIDE DEF new, plan
<1>8. /\ DOMAIN Settled' = DOMAIN plan \cup DOMAIN files
      /\ \A p \in DOMAIN Settled' : Settled'[p] = IF p \in DOMAIN plan THEN plan[p] ELSE files[p]
  BY <1>4 DEF Over
<1>9. AnchorsGrow
  <2> SUFFICES ASSUME NEW u \in Thread, AnchorFile(u) \in DOMAIN Settled
               PROVE  AnchorFile(u) \in DOMAIN Settled' /\ Later(Settled'[AnchorFile(u)], Settled[AnchorFile(u)])
    BY DEF AnchorsGrow
  <2>1. CASE u = t
    BY <2>1, <1>4, <1>5, <1>8 DEF Writes
  <2>2. CASE u # t
    BY <2>2, <1>4, <1>5, <1>8 DEF Writes, Later
  <2> QED
    BY <2>1, <2>2
<1>10. ReceiptsKept
  BY <1>1 DEF ReceiptsKept
<1>11. AnchorsHaveThreads'
  <2> SUFFICES ASSUME NEW u \in Thread, AnchorFile(u) \in DOMAIN Settled'
               PROVE  ThreadFile(u) \in DOMAIN Settled'
    BY DEF AnchorsHaveThreads
  <2>1. CASE u = t
    BY <2>1, <1>5, <1>8 DEF Writes
  <2>2. CASE u # t
    BY <2>2, <1>4, <1>5, <1>8 DEF Writes, SpaceIInv, AnchorsHaveThreads
  <2> QED
    BY <2>1, <2>2
<1>12. ReceiptsStay'
  BY <1>1, <1>5 DEF ReceiptsStay, Writes
<1>13. SpaceShapes'
  <2>1. writer' \in [Writer -> WriterState] /\ \A u \in Writer : IsFiles(writer'[u].plan)
    <3>1. \A u \in Writer : writer'[u] = IF u = w THEN new ELSE writer[u]
      BY <1>1 DEF SpaceShapes
    <3> QED
      BY <1>1, <1>6, <3>1, NoFiles DEF SpaceShapes
  <2> QED
    BY <1>1, <2>1 DEF SpaceShapes, IsFiles
<1>14. ReceiptsAnchored'
  <2> SUFFICES ASSUME NEW o \in Identifier, ReceiptFile(o) \in DOMAIN Settled'
               PROVE  Anchored(Settled', Settled'[ReceiptFile(o)].thread, Settled'[ReceiptFile(o)].version)
    BY DEF ReceiptsAnchored, Anchored
  <2>1. CASE ReceiptFile(o) \in DOMAIN plan
    <3>1. Settled'[ReceiptFile(o)].thread = t /\ Settled'[ReceiptFile(o)].version = v
      BY <2>1, <1>5, <1>8 DEF Writes
    <3>2. AnchorFile(t) \in DOMAIN Settled' /\ Settled'[AnchorFile(t)] = v
      BY <1>5, <1>8 DEF Writes
    <3> QED
      BY <3>1, <3>2 DEF Anchored, Later
  <2>2. CASE ReceiptFile(o) \notin DOMAIN plan
    <3>0. PICK receipt : receipt = files[ReceiptFile(o)]
      OBVIOUS
    <3>1. ReceiptFile(o) \in DOMAIN files /\ Settled'[ReceiptFile(o)] = receipt
      BY <3>0, <2>2, <1>8
    <3>2. receipt \in Receipt
      BY <1>1, <3>0, <3>1, Paths DEF IsFiles
    <3>3. Anchored(Settled, receipt.thread, receipt.version)
      BY <1>4, <3>0, <3>1 DEF SpaceIInv, ReceiptsAnchored
    <3>4. Anchored(Settled, receipt.thread, receipt.version)'
      BY <1>1, <1>9, <1>13, <3>2, <3>3, ReceiptParts, AnchoredStill
    <3> QED
      BY <3>1, <3>4 DEF Anchored
  <2> QED
    BY <2>1, <2>2
<1>15. StateFits(writer[w])'
  <2>1. /\ old.task.kind = "manage" =>
             /\ old.reply \in Receipt /\ ReceiptFile(old.reply.request.op) \in DOMAIN plan
             /\ plan[ReceiptFile(old.reply.request.op)] = old.reply
    <3> SUFFICES ASSUME old.task.kind = "manage"
                 PROVE  /\ old.reply \in Receipt /\ ReceiptFile(old.reply.request.op) \in DOMAIN plan
                        /\ plan[ReceiptFile(old.reply.request.op)] = old.reply
      OBVIOUS
    <3>1. PICK q, reply, writes : q = old.task.request /\ reply = old.reply /\ writes = plan
      OBVIOUS
    <3>2. Managed(files, q, reply, writes)
      BY <1>2, <3>1 DEF PlanFits, plan
    <3>3. q \in ManageRequest
      BY <1>2, <3>1, TaskParts
    <3>4. OperationPlan(reply, writes)
      BY <3>2, <3>3, ManagedIs
    <3> QED
      BY <3>1, <3>4 DEF OperationPlan
  <2>2. old.task.kind = "read" =>
             AnchorFile(old.task.thread) \in DOMAIN Settled' /\ old.reply = Settled'[AnchorFile(old.task.thread)]
    <3> SUFFICES ASSUME old.task.kind = "read"
                 PROVE  AnchorFile(old.task.thread) \in DOMAIN plan /\ old.reply = plan[AnchorFile(old.task.thread)]
      BY <1>8
    <3>1. old.task.thread \in Thread
      BY <1>2, TaskParts
    <3>2. /\ WasRead(files, old.task.thread, old.reply, plan) /\ plan # NoWrites
      BY <1>2 DEF PlanFits, plan
    <3> QED
      BY <1>1, <3>1, <3>2, ReadWritesAre DEF WasRead
  <2>3. old.task.kind = "save" => old.reply = Nil
    BY <1>2 DEF PlanFits, WasSaved
  <2>4. old.task.kind = "save" => Anchored(Settled, old.task.thread, old.task.version)'
    <3> SUFFICES ASSUME old.task.kind = "save" PROVE Anchored(Settled, old.task.thread, old.task.version)'
      OBVIOUS
    <3>1. old.task.thread \in Thread /\ old.task.version \in Version
      BY <1>2, TaskParts
    <3> QED
      BY <1>1, <1>2, <1>9, <1>13, <3>1, AnchoredStill
  <2>5. ReplyFits(writer[w])'
    BY <1>1, <1>6, <1>7, <2>1, <2>2, <2>3 DEF ReplyFits
  <2> QED
    BY <1>1, <1>2, <1>3, <1>6, <1>7, <2>4, <2>5 DEF StateFits
<1> QED
  BY <1>1, <1>6, <1>9, <1>10, <1>11, <1>12, <1>14, <1>15, NoFiles, HolderMoves

LEMMA OverAgain ==
    ASSUME NEW plan, NEW under, NEW p \in DOMAIN plan
    PROVE  Over(plan, Over(Write(p, plan[p]), under)) = Over(plan, under)
BY DEF Over, Write

LEMMA OverApplied ==
    ASSUME NEW plan, NEW under, under = [p \in DOMAIN under |-> under[p]],
           \A p \in DOMAIN plan : p \in DOMAIN under /\ under[p] = plan[p]
    PROVE  Over(plan, under) = under
BY DEF Over

\* One file of the plan is written: what the workspace amounts to is the same.
LEMMA ApplyStep ==
    ASSUME SpaceIInv, NEW w \in Writer, NEW p \in writer[w].left, Apply(w, p)
    PROVE  SpaceIInv' /\ Settled' = Settled
<1>0. PICK old \in WriterState : old = writer[w]
  BY DEF SpaceIInv, SpaceShapes
<1> DEFINE new == [old EXCEPT !.left = @ \ {p}]
<1>1. /\ old \in WriterState /\ StateFits(old) /\ old.at \in {"recovering", "applying"} /\ SpaceShapes
      /\ IsFiles(old.plan) /\ IsFiles(files)
      /\ files' = Over(Write(p, journal[p]), files) /\ journal' = journal /\ Holding(w)
      /\ writer' = [writer EXCEPT ![w] = new]
  BY <1>0 DEF Apply, SetWriter, SpaceIInv, SpaceShapes, Holding
<1>2. /\ journal # Nil /\ old.left \subseteq DOMAIN journal /\ IsFiles(journal)
      /\ \A r \in DOMAIN journal \ old.left : r \in DOMAIN files /\ files[r] = journal[r]
  BY <1>1 DEF StateFits, SpaceShapes
<1>3. /\ new \in WriterState /\ new.plan = old.plan /\ new.at = old.at /\ new.task = old.task
      /\ new.left = old.left \ {p} /\ new.reply = old.reply
  BY <1>1 DEF WriterState
<1>4. writer'[w] = new
  BY <1>1 DEF SpaceShapes
<1> HIDE DEF new
<1>5. /\ DOMAIN files' = {p} \cup DOMAIN files
      /\ \A r \in DOMAIN files' : files'[r] = IF r = p THEN journal[p] ELSE files[r]
  BY <1>1 DEF Over, Write
<1>6. p \in DOMAIN journal
  BY <1>0, <1>2
<1>7. IsFiles(files')
  <2>1. IsFiles(Write(p, journal[p]))
    BY <1>2, <1>6, FilesWrite DEF IsFiles
  <2> QED
    BY <1>1, <2>1, FilesOver
<1>8. Settled' = Settled
  BY <1>1, <1>2, <1>6, OverAgain DEF Settled
<1>9. ReceiptsKept
  BY <1>2, <1>5, <1>6 DEF ReceiptsKept, SpaceIInv, ReceiptsStay
<1>10. AnchorsGrow
  BY <1>8 DEF AnchorsGrow, Later
<1>11. ReceiptsAnchored' /\ AnchorsHaveThreads'
  BY <1>8 DEF SpaceIInv, ReceiptsAnchored, AnchorsHaveThreads, Anchored
<1>12. ReceiptsStay'
  BY <1>1, <1>2, <1>5 DEF SpaceIInv, ReceiptsStay
<1>13. StateFits(writer[w])'
  <2>1. \A r \in DOMAIN journal' \ new.left : r \in DOMAIN files' /\ files'[r] = journal'[r]
    BY <1>1, <1>2, <1>3, <1>5
  <2>2. /\ old.task \in Task /\ (old.at = "applying" => ReplyFits(old))
        /\ old.task # Nil /\ old.task.kind = "save" => Anchored(Settled, old.task.thread, old.task.version)
    BY <1>1 DEF StateFits
  <2>3. old.at = "applying" => ReplyFits(writer[w])'
    BY <1>1, <1>3, <1>4, <1>8, <2>2 DEF ReplyFits
  <2>4. old.task # Nil /\ old.task.kind = "save" => Anchored(Settled, old.task.thread, old.task.version)'
    BY <1>8, <2>2 DEF Anchored
  <2> QED
    BY <1>1, <1>2, <1>3, <1>4, <2>1, <2>2, <2>3, <2>4 DEF StateFits
<1>14. IsFiles(new.plan) /\ (journal' = Nil \/ IsFiles(journal'))
  BY <1>1, <1>2, <1>3 DEF IsFiles
<1>15. SpaceIInv'
  BY <1>1, <1>3, <1>7, <1>9, <1>10, <1>11, <1>12, <1>13, <1>14, HolderMoves
<1> QED
  BY <1>8, <1>15

\* A plan that is in the files is unlinked: the workspace amounts to the same.
LEMMA UnlinkStep ==
    ASSUME SpaceIInv, NEW w \in Writer, Unlink(w)
    PROVE  SpaceIInv' /\ Settled' = Settled
<1>0. PICK old \in WriterState : old = writer[w]
  BY DEF SpaceIInv, SpaceShapes
<1> DEFINE new == IF old.at = "recovering" THEN [old EXCEPT !.at = "inside"]
                  ELSE Finished(old.task, old.reply)
<1>1. /\ StateFits(old) /\ old.at \in {"recovering", "applying"} /\ old.left = {} /\ SpaceShapes
      /\ IsFiles(old.plan) /\ IsFiles(files)
      /\ files' = files /\ journal' = Nil /\ Holding(w)
      /\ writer' = [writer EXCEPT ![w] = new]
  BY <1>0 DEF Unlink, Settle, SetWriter, SpaceIInv, SpaceShapes, Holding
<1>2. /\ journal # Nil /\ old.task \in Task
      /\ \A r \in DOMAIN journal : r \in DOMAIN files /\ files[r] = journal[r]
      /\ old.at = "applying" => ReplyFits(old)
      /\ old.task.kind = "save" => Anchored(Settled, old.task.thread, old.task.version)
  BY <1>1, TaskParts DEF StateFits
<1>3. Settled = files /\ Settled' = Settled
  <2>1. files = [p \in DOMAIN files |-> files[p]]
    BY <1>1 DEF IsFiles
  <2> QED
    BY <1>1, <1>2, <2>1, OverApplied DEF Settled
<1>4. writer'[w] = new
  BY <1>1 DEF SpaceShapes
<1>5. ReceiptsKept /\ AnchorsGrow
  BY <1>1, <1>3 DEF ReceiptsKept, AnchorsGrow, Later
<1>6. ReceiptsAnchored' /\ AnchorsHaveThreads' /\ ReceiptsStay'
  BY <1>1, <1>3 DEF SpaceIInv, ReceiptsAnchored, AnchorsHaveThreads, Anchored, ReceiptsStay
<1>7. new \in WriterState /\ IsFiles(new.plan) /\ (SpaceShapes' => StateFits(writer[w])')
  <2>1. CASE old.at = "recovering"
    <3>1. /\ new \in WriterState /\ new.plan = old.plan /\ new.at = "inside" /\ new.task = old.task
          /\ new.left = {}
      BY <1>1, <2>1 DEF WriterState
    <3>2. old.task.kind = "save" => Anchored(Settled, old.task.thread, old.task.version)'
      BY <1>2, <1>3 DEF Anchored
    <3> HIDE DEF new
    <3>3. StateFits(writer[w])'
      BY <1>1, <1>2, <1>4, <3>1, <3>2 DEF StateFits
    <3> QED
      BY <1>1, <3>1, <3>3
  <2>2. CASE old.at = "applying"
    <3>1. PICK task, reply : task = old.task /\ reply = old.reply
      OBVIOUS
    <3>2. new = Finished(task, reply) /\ task \in Task /\ reply \in Receipt \cup Version \cup {Nil}
      BY <1>2, <2>2, <3>1 DEF WriterState
    <3>3. ReplyFits(old)
      BY <1>2, <2>2
    <3>4. task.kind = "manage" => reply \in Receipt /\ Durable(reply)
      BY <1>2, <3>1, <3>3 DEF ReplyFits, Durable
    <3>5. task.kind = "read" => reply \in Version /\ Anchored(Settled, task.thread, reply)
      <4> SUFFICES ASSUME task.kind = "read"
                   PROVE  reply \in Version /\ Anchored(Settled, task.thread, reply)
        OBVIOUS
      <4>1. task.thread \in Thread
        BY <3>2, TaskParts
      <4>2. AnchorFile(task.thread) \in DOMAIN files /\ reply = files[AnchorFile(task.thread)]
        BY <1>3, <3>1, <3>3 DEF ReplyFits
      <4> QED
        BY <1>1, <1>3, <4>1, <4>2, Paths DEF IsFiles, Anchored, Later
    <3>6. task.kind = "save" => reply = Nil
      BY <3>1, <3>3 DEF ReplyFits
    <3> HIDE DEF new
    <3>7. new \in WriterState /\ IsFiles(new.plan) /\ new.at \in {"idle", "waiting"} /\ StateFits(new)
      BY <1>1, <3>2, <3>4, <3>5, <3>6, FinishedIs
    <3> QED
      BY <1>1, <1>4, <1>5, <3>7, RestStill
  <2> QED
    BY <1>1, <2>1, <2>2
<1> HIDE DEF new
<1>8. SpaceIInv'
  BY <1>1, <1>5, <1>6, <1>7, HolderMoves
<1> QED
  BY <1>3, <1>8

\* A foreign program writes one thread's file and nothing else.
LEMMA ForeignSaveIs ==
    ASSUME SpaceIInv, NEW t \in Thread, NEW x \in ForeignText, ForeignSave(t, <<x>>)
    PROVE  /\ IsFiles(files') /\ journal' = journal /\ writer' = writer
           /\ DOMAIN files' = DOMAIN files /\ DOMAIN Settled' = DOMAIN Settled
           /\ \A p \in DOMAIN files : p # ThreadFile(t) => files'[p] = files[p]
           /\ \A p \in DOMAIN Settled : p # ThreadFile(t) => Settled'[p] = Settled[p]
           /\ ThreadFile(t) \in DOMAIN files /\ files'[ThreadFile(t)].note = <<x>>
<1>1. PICK rev \in {0, files[ThreadFile(t)].rev} :
        files' = Over(Write(ThreadFile(t), [rev |-> rev, note |-> <<x>>]), files)
  BY DEF ForeignSave
<1>2. /\ ThreadFile(t) \in DOMAIN files /\ IsFiles(files) /\ (journal = Nil \/ IsFiles(journal))
      /\ journal' = journal /\ writer' = writer
  BY DEF ForeignSave, SpaceIInv, SpaceShapes
<1>3. files[ThreadFile(t)] \in Version
  BY <1>2, ObservedIs
<1> DEFINE v == [rev |-> rev, note |-> <<x>>]
<1>4. v \in Version /\ v.note = <<x>>
  BY <1>1, <1>3, TextsAreWritten DEF Version
<1>5. files' = Over(Write(ThreadFile(t), v), files)
  BY <1>1
<1> HIDE DEF v
<1>6. IsFiles(files')
  <2>1. IsFiles(Write(ThreadFile(t), v))
    BY <1>4, FilesWrite, Paths
  <2> QED
    BY <1>2, <1>5, <2>1, FilesOver
<1>7. /\ DOMAIN files' = DOMAIN files
      /\ \A p \in DOMAIN files : files'[p] = IF p = ThreadFile(t) THEN v ELSE files[p]
  BY <1>2, <1>5 DEF Over, Write
<1>8. /\ DOMAIN Settled' = DOMAIN Settled
      /\ \A p \in DOMAIN Settled : p # ThreadFile(t) => Settled'[p] = Settled[p]
  <2>1. CASE journal = Nil
    BY <1>2, <1>7, <2>1 DEF Settled
  <2>2. CASE journal # Nil
    <3>1. Settled = Over(journal, files) /\ Settled' = Over(journal, files')
      BY <1>2, <2>2 DEF Settled
    <3> QED
      BY <1>7, <3>1 DEF Over
  <2> QED
    BY <2>1, <2>2
<1> QED
  BY <1>2, <1>4, <1>6, <1>7, <1>8

LEMMA ForeignSaveStep ==
    ASSUME SpaceIInv, NEW t \in Thread, NEW x \in ForeignText, ForeignSave(t, <<x>>)
    PROVE  SpaceIInv'
<1>1. /\ IsFiles(files') /\ journal' = journal /\ writer' = writer
      /\ DOMAIN files' = DOMAIN files /\ DOMAIN Settled' = DOMAIN Settled
      /\ \A p \in DOMAIN files : p # ThreadFile(t) => files'[p] = files[p]
      /\ \A p \in DOMAIN Settled : p # ThreadFile(t) => Settled'[p] = Settled[p]
  BY ForeignSaveIs
<1>2. SpaceShapes /\ LockIsFree
  BY DEF SpaceIInv, ForeignSave
<1>3. SpaceShapes'
  BY <1>1, <1>2 DEF SpaceShapes, IsFiles
<1>4. /\ \A u \in Thread : AnchorFile(u) \in DOMAIN Settled => Settled'[AnchorFile(u)] = Settled[AnchorFile(u)]
      /\ \A o \in Identifier : /\ ReceiptFile(o) \in DOMAIN Settled => Settled'[ReceiptFile(o)] = Settled[ReceiptFile(o)]
                               /\ ReceiptFile(o) \in DOMAIN files => files'[ReceiptFile(o)] = files[ReceiptFile(o)]
  BY <1>1, Paths
<1>5. AnchorsGrow /\ ReceiptsKept
  BY <1>1, <1>4 DEF AnchorsGrow, ReceiptsKept, Later
<1>6. AnchorsHaveThreads' /\ ReceiptsStay'
  BY <1>1, <1>4 DEF SpaceIInv, AnchorsHaveThreads, ReceiptsStay
<1>7. ReceiptsAnchored'
  <2> SUFFICES ASSUME NEW o \in Identifier, ReceiptFile(o) \in DOMAIN Settled'
               PROVE  Anchored(Settled', Settled'[ReceiptFile(o)].thread, Settled'[ReceiptFile(o)].version)
    BY DEF ReceiptsAnchored, Anchored
  <2>1. PICK receipt : receipt = Settled[ReceiptFile(o)]
    OBVIOUS
  <2>2. ReceiptFile(o) \in DOMAIN Settled /\ Settled'[ReceiptFile(o)] = receipt
    BY <1>1, <1>4, <2>1
  <2>3. receipt \in Receipt
    BY <1>2, <2>1, <2>2, SettledAre, Paths DEF IsFiles
  <2>4. Anchored(Settled, receipt.thread, receipt.version)
    BY <2>1, <2>2 DEF SpaceIInv, ReceiptsAnchored
  <2>5. Anchored(Settled, receipt.thread, receipt.version)'
    BY <1>2, <1>3, <1>5, <2>3, <2>4, ReceiptParts, AnchoredStill
  <2> QED
    BY <2>2, <2>5 DEF Anchored
<1>8. OneHolder'
  BY <1>1 DEF SpaceIInv, OneHolder, Holding
<1>9. ASSUME NEW v \in Writer PROVE StateFits(writer[v])'
  <2>1. PICK state \in WriterState : state = writer[v] /\ writer'[v] = state /\ StateFits(state)
    BY <1>1, <1>2 DEF SpaceIInv, SpaceShapes
  <2>2. state.at \in {"idle", "waiting"}
    BY <1>2, <2>1 DEF LockIsFree, Holding
  <2> QED
    BY <1>2, <1>3, <1>5, <2>1, <2>2, RestStill
<1> QED
  BY <1>3, <1>6, <1>7, <1>8, <1>9 DEF SpaceIInv

\* Every step keeps the invariant.
LEMMA SpaceSteps ==
    ASSUME SpaceIInv, [SpaceNext]_spaceVars
    PROVE  SpaceIInv'
<1>1. CASE UNCHANGED spaceVars
  <2>1. files' = files /\ journal' = journal /\ writer' = writer
    BY <1>1 DEF spaceVars
  <2>2. Settled' = Settled
    BY <2>1 DEF Settled
  <2>3. ASSUME NEW v \in Writer PROVE StateFits(writer[v])'
    <3>1. PICK state : state = writer[v] /\ writer'[v] = state /\ StateFits(state)
      BY <2>1 DEF SpaceIInv
    <3> QED
      BY <2>1, <3>1, SameStill
  <2> QED
    BY <2>1, <2>2, <2>3 DEF SpaceIInv, SpaceShapes, OneHolder, Holding, ReceiptsAnchored, AnchorsHaveThreads,
                            ReceiptsStay, Anchored, IsFiles
<1>2. ASSUME NEW w \in Writer, NEW q \in ManageRequest, Ask(w, [kind |-> "manage", request |-> q])
      PROVE  SpaceIInv'
  <2> DEFINE task == [kind |-> "manage", request |-> q]
  <2>1. task \in Task /\ task.kind # "save" /\ Ask(w, task)
    BY <1>2 DEF Task
  <2> HIDE DEF task
  <2> QED
    BY <2>1, AskStep
<1>3. ASSUME NEW w \in Writer, NEW t \in Thread, NEW x \in Text, Ask(w, [kind |-> "read", thread |-> t, text |-> x])
      PROVE  SpaceIInv'
  <2> DEFINE task == [kind |-> "read", thread |-> t, text |-> x]
  <2>1. task \in Task /\ task.kind # "save" /\ Ask(w, task)
    BY <1>3 DEF Task
  <2> HIDE DEF task
  <2> QED
    BY <2>1, AskStep
<1>4. ASSUME NEW w \in Writer, Body(w)
      PROVE  SpaceIInv'
  BY <1>4, RepeatStep, CreateStep, SetNoteStep, ReadStep, SaveStep DEF Body
<1>5. ASSUME NEW w \in Writer, WriterStep(w)
      PROVE  SpaceIInv'
  BY <1>4, <1>5, LockStep, ApplyStep, UnlinkStep, PublishStep DEF WriterStep
<1>6. ASSUME NEW w \in Writer, DieWriting(w)
      PROVE  SpaceIInv'
  BY <1>6, DieStep DEF DieWriting, SetWriter
<1>7. ASSUME NEW t \in Thread, NEW x \in ForeignText, ForeignSave(t, <<x>>)
      PROVE  SpaceIInv'
  BY <1>7, ForeignSaveStep
<1> QED
  BY <1>1, <1>2, <1>3, <1>5, <1>6, <1>7 DEF SpaceNext

LEMMA SpaceStarts ==
    ASSUME SpaceInit
    PROVE  SpaceIInv
<1>1. PICK anchored \in SUBSET Existing :
        files = [p \in {ThreadFile(t) : t \in Existing} \cup {AnchorFile(t) : t \in anchored} |->
                    [rev |-> IF p[2] \in anchored THEN 1 ELSE 0, note |-> <<>>]]
  BY DEF SpaceInit
<1> DEFINE known == {ThreadFile(t) : t \in Existing} \cup {AnchorFile(t) : t \in anchored}
<1>2. /\ DOMAIN files = known /\ files = [p \in DOMAIN files |-> files[p]]
      /\ \A p \in known : files[p] \in Version
  <2>1. <<>> \in Seq(Written)
    OBVIOUS
  <2>2. \A p \in known : [rev |-> IF p[2] \in anchored THEN 1 ELSE 0, note |-> <<>>] \in Version
    BY <2>1 DEF Version
  <2> HIDE DEF known
  <2> QED
    BY <1>1, <2>2 DEF known
<1>3. /\ known \subseteq Path /\ \A p \in known : p[1] # "management-operations"
      /\ \A o \in Identifier : ReceiptFile(o) \notin known
      /\ \A t \in Thread : AnchorFile(t) \in known => ThreadFile(t) \in known
  <2>1. Existing \subseteq Thread /\ anchored \subseteq Existing
    BY WorkspaceAssumption
  <2>2. \A p \in known : \/ \E t \in Existing : p = ThreadFile(t)
                         \/ \E t \in anchored : p = AnchorFile(t)
    OBVIOUS
  <2> QED
    BY <2>1, <2>2, Paths
<1> HIDE DEF known
<1>4. IsFiles(files)
  BY <1>2, <1>3 DEF IsFiles
<1>5. journal = Nil /\ Settled = files /\ writer = [w \in Writer |-> Resting(Nil)]
  BY DEF SpaceInit, Settled
<1> DEFINE rest == Resting(Nil)
<1>6. /\ rest \in WriterState /\ IsFiles(rest.plan) /\ rest.at = "idle" /\ rest.task = Nil /\ rest.left = {}
      /\ rest.reply = Nil
  BY RestingIs
<1>7. writer = [w \in Writer |-> rest]
  BY <1>5
<1> HIDE DEF rest
<1>8. StateFits(rest)
  BY <1>6 DEF StateFits
<1>9. SpaceShapes /\ OneHolder /\ \A w \in Writer : StateFits(writer[w])
  BY <1>4, <1>5, <1>6, <1>7, <1>8 DEF SpaceShapes, OneHolder, Holding
<1>10. ReceiptsAnchored /\ AnchorsHaveThreads /\ ReceiptsStay
  BY <1>2, <1>3, <1>5 DEF ReceiptsAnchored, AnchorsHaveThreads, ReceiptsStay
<1> QED
  BY <1>9, <1>10 DEF SpaceIInv

LEMMA SpaceHolds == SpaceSpec => []SpaceIInv
BY SpaceStarts, SpaceSteps, PTL DEF SpaceSpec

\* The invariant gives what the runs check.
LEMMA SpaceIsSound ==
    ASSUME SpaceIInv
    PROVE  SpaceInv
<1>1. SpaceShapes /\ IsFiles(Settled)
  BY SettledAre DEF SpaceIInv
<1>2. SpaceTypeOK
  <2> SUFFICES ASSUME NEW w \in Writer
               PROVE  /\ writer[w].at \in {"idle", "waiting", "recovering", "inside", "publishing", "applying"}
                      /\ writer[w].task \in Task \cup {Nil}
                      /\ IsFiles(writer[w].plan)
                      /\ writer[w].left # {} => journal # Nil /\ writer[w].left \subseteq DOMAIN journal
                      /\ writer[w].reply \in Receipt \cup Version \cup {Nil}
    BY <1>1 DEF SpaceTypeOK, SpaceShapes
  <2>1. PICK state \in WriterState : state = writer[w] /\ StateFits(state) /\ IsFiles(state.plan)
    BY <1>1 DEF SpaceIInv, SpaceShapes
  <2>2. state.left # {} => journal # Nil /\ state.left \subseteq DOMAIN journal
    BY <2>1 DEF StateFits
  <2> QED
    BY <2>1, <2>2 DEF WriterState
<1>3. RevisionIdentifiesContent
  <2> SUFFICES ASSUME NEW told \in Told
               PROVE  \/ Observed(Settled, told.thread).rev > told.version.rev
                      \/ Observed(Settled, told.thread) = told.version
    BY DEF RevisionIdentifiesContent
  <2>1. told.thread \in Thread /\ told.version \in Version /\ Anchored(Settled, told.thread, told.version)
    <3>1. CASE \E p \in {ReceiptFile(o) : o \in Identifier} \cap DOMAIN Settled :
                  told = [thread |-> Settled[p].thread, version |-> Settled[p].version]
      <4>1. PICK o \in Identifier : /\ ReceiptFile(o) \in DOMAIN Settled
                                    /\ told = [thread |-> Settled[ReceiptFile(o)].thread,
                                               version |-> Settled[ReceiptFile(o)].version]
        BY <3>1
      <4>2. Settled[ReceiptFile(o)] \in Receipt
        BY <1>1, <4>1, Paths DEF IsFiles
      <4>3. Anchored(Settled, Settled[ReceiptFile(o)].thread, Settled[ReceiptFile(o)].version)
        BY <4>1 DEF SpaceIInv, ReceiptsAnchored
      <4> QED
        BY <4>1, <4>2, <4>3, ReceiptParts
    <3>2. CASE \E v \in Writer : /\ writer[v].task # Nil /\ writer[v].task.kind = "save"
                                 /\ told = [thread |-> writer[v].task.thread, version |-> writer[v].task.version]
      <4>1. PICK v \in Writer : /\ writer[v].task # Nil /\ writer[v].task.kind = "save"
                                /\ told = [thread |-> writer[v].task.thread, version |-> writer[v].task.version]
        BY <3>2
      <4>2. PICK state \in WriterState : state = writer[v] /\ StateFits(state)
        BY <1>1 DEF SpaceIInv, SpaceShapes
      <4>3. state.task \in Task
        BY <4>1, <4>2 DEF WriterState
      <4>4. Anchored(Settled, state.task.thread, state.task.version)
        BY <4>1, <4>2 DEF StateFits
      <4> QED
        BY <4>1, <4>2, <4>3, <4>4, TaskParts
    <3> QED
      BY <3>1, <3>2 DEF Told
  <2>2. PICK t \in Thread, v \in Version : t = told.thread /\ v = told.version
    BY <2>1
  <2>3. AnchorFile(t) \in DOMAIN Settled /\ ThreadFile(t) \in DOMAIN Settled /\ Later(Settled[AnchorFile(t)], v)
    BY <2>1, <2>2 DEF Anchored, SpaceIInv, AnchorsHaveThreads
  <2>4. /\ Observed(Settled, t) \in Version /\ Settled[AnchorFile(t)] \in Version
        /\ Later(Observed(Settled, t), Settled[AnchorFile(t)])
    BY <1>1, <2>3, ObservedIs
  <2>5. Later(Observed(Settled, t), v)
    BY <2>3, <2>4, LaterTwice
  <2> QED
    BY <2>2, <2>5 DEF Later
<1>4. AnsweredIsDurable
  BY DEF SpaceIInv, StateFits, Durable, AnsweredIsDurable
<1> QED
  BY <1>2, <1>3, <1>4 DEF SpaceInv

\* Wherever a writer dies and whoever replays its plan, a revision that was handed out
\* belongs to one content and an answered operation is in the files as it was answered
\* (transaction, _recover, get_thread, manage).
THEOREM RevisionsAndAnswersHold == SpaceSpec => []SpaceInv
BY SpaceHolds, SpaceIsSound, PTL

(***************************************************************************)
(* Workspace: the transactions implement the log                            *)
(***************************************************************************)

NotesIn(s) == [t \in {u \in Thread : ThreadFile(u) \in DOMAIN s} |-> s[ThreadFile(t)].note]

ReceiptsIn(s) ==
    [o \in {q \in Identifier : ReceiptFile(q) \in DOMAIN s} |->
        LET receipt == s[ReceiptFile(o)] IN
        [request |-> receipt.request, thread |-> receipt.thread, note |-> receipt.version.note]]

\* One thread's file differs.
LEMMA OneNote ==
    ASSUME NEW s, NEW r, NEW t \in Thread, ThreadFile(t) \in DOMAIN r,
           \A u \in Thread : u # t => /\ ThreadFile(u) \in DOMAIN r <=> ThreadFile(u) \in DOMAIN s
                                      /\ ThreadFile(u) \in DOMAIN s => r[ThreadFile(u)] = s[ThreadFile(u)]
    PROVE  NotesIn(r) = Log!With(NotesIn(s), t, r[ThreadFile(t)].note)
BY DEF NotesIn, Log!With

LEMMA SameNotes ==
    ASSUME NEW s, NEW r,
           \A u \in Thread : /\ ThreadFile(u) \in DOMAIN r <=> ThreadFile(u) \in DOMAIN s
                             /\ ThreadFile(u) \in DOMAIN s => r[ThreadFile(u)].note = s[ThreadFile(u)].note
    PROVE  NotesIn(r) = NotesIn(s)
BY DEF NotesIn

\* One receipt is new.
LEMMA OneReceipt ==
    ASSUME NEW s, NEW r, NEW o \in Identifier, NEW receipt, ReceiptFile(o) \in DOMAIN r,
           r[ReceiptFile(o)] = receipt,
           \A i \in Identifier : i # o => /\ ReceiptFile(i) \in DOMAIN r <=> ReceiptFile(i) \in DOMAIN s
                                          /\ ReceiptFile(i) \in DOMAIN s => r[ReceiptFile(i)] = s[ReceiptFile(i)]
    PROVE  ReceiptsIn(r) = Log!With(ReceiptsIn(s), o,
               [request |-> receipt.request, thread |-> receipt.thread, note |-> receipt.version.note])
BY DEF ReceiptsIn, Log!With

LEMMA SameReceipts ==
    ASSUME NEW s, NEW r,
           \A i \in Identifier : /\ ReceiptFile(i) \in DOMAIN r <=> ReceiptFile(i) \in DOMAIN s
                                 /\ ReceiptFile(i) \in DOMAIN s => r[ReceiptFile(i)] = s[ReceiptFile(i)]
    PROVE  ReceiptsIn(r) = ReceiptsIn(s)
BY DEF ReceiptsIn

LEMMA LogStays ==
    ASSUME NotesIn(Settled)' = NotesIn(Settled), ReceiptsIn(Settled)' = ReceiptsIn(Settled)
    PROVE  UNCHANGED Log!lvars
BY DEF NotesIn, ReceiptsIn, Log!lvars

LEMMA LogEdits ==
    ASSUME NEW t \in Thread, NEW x \in Text, t \in DOMAIN NotesIn(Settled),
           NotesIn(Settled)' = Log!With(NotesIn(Settled), t, Append(NotesIn(Settled)[t], x)),
           ReceiptsIn(Settled)' = ReceiptsIn(Settled)
    PROVE  Log!Next
<1>1. Log!Edit(t, x)
  BY DEF NotesIn, ReceiptsIn, Log!Edit
<1> QED
  BY <1>1 DEF Log!Next

LEMMA LogReplaces ==
    ASSUME NEW t \in Thread, NEW x \in ForeignText, t \in DOMAIN NotesIn(Settled),
           NotesIn(Settled)' = Log!With(NotesIn(Settled), t, <<x>>),
           ReceiptsIn(Settled)' = ReceiptsIn(Settled)
    PROVE  Log!Next
<1> DEFINE note == <<x>>
<1>1. note \in {<<y>> : y \in ForeignText}
  OBVIOUS
<1>2. NotesIn(Settled)' = Log!With(NotesIn(Settled), t, note)
  OBVIOUS
<1> HIDE DEF note
<1>3. Log!Replace(t, note)
  BY <1>2 DEF NotesIn, ReceiptsIn, Log!Replace
<1> QED
  BY <1>1, <1>3 DEF Log!Next

LEMMA LogPerforms ==
    ASSUME NEW q \in ManageRequest, NEW t \in Thread, NEW note, q.op \notin DOMAIN ReceiptsIn(Settled),
           NotesIn(Settled)' = Log!With(NotesIn(Settled), t, note),
           ReceiptsIn(Settled)' = Log!With(ReceiptsIn(Settled), q.op, [request |-> q, thread |-> t, note |-> note]),
           \/ q.action = "create" /\ t \notin DOMAIN NotesIn(Settled) /\ note = <<q.text>>
           \/ /\ q.action # "create" /\ t = q.thread /\ t \in DOMAIN NotesIn(Settled)
              /\ note = Edited(NotesIn(Settled)[t], q)
    PROVE  Log!Next
<1>1. Log!Perform(q, t, note)
  BY DEF NotesIn, ReceiptsIn, Log!Perform
<1>2. CASE q.action = "create" /\ t \notin DOMAIN NotesIn(Settled) /\ note = <<q.text>>
  <2>1. Log!Create(q, t)
    BY <1>1, <1>2 DEF NotesIn, Log!Create
  <2> QED
    BY <2>1 DEF Log!Next
<1>3. CASE /\ q.action # "create" /\ t = q.thread /\ t \in DOMAIN NotesIn(Settled)
           /\ note = Edited(NotesIn(Settled)[t], q)
  <2>1. Log!SetNote(q)
    BY <1>1, <1>3 DEF NotesIn, Log!SetNote, Log!Edited, Edited
  <2> QED
    BY <2>1 DEF Log!Next
<1> QED
  BY <1>2, <1>3

\* What the plan of an operation makes of the files is one step of the log.
LEMMA ManagedLogs ==
    ASSUME NEW q \in ManageRequest, NEW reply, NEW plan, IsFiles(files), Settled = files,
           Managed(files, q, reply, plan), Settled' = Over(plan, files)
    PROVE  Log!Next
<1>1. /\ reply \in Receipt /\ reply.request = q /\ Effect(files, q, reply.thread, reply.version)
      /\ ReceiptFile(q.op) \notin DOMAIN files
  BY DEF Managed
<1>2. OperationPlan(reply, plan)
  BY ManagedIs
<1>3. PICK t \in Thread, v \in Version, o \in Identifier : t = reply.thread /\ v = reply.version /\ o = q.op
  BY <1>1, ReceiptParts
<1>4. PICK s, r : s = files /\ r = Settled'
  OBVIOUS
<1>5. /\ DOMAIN plan = {ThreadFile(t), AnchorFile(t), ReceiptFile(o)}
      /\ plan[ThreadFile(t)] = v /\ plan[ReceiptFile(o)] = reply
  BY <1>1, <1>2, <1>3 DEF OperationPlan
<1>6. /\ DOMAIN r = {ThreadFile(t), AnchorFile(t), ReceiptFile(o)} \cup DOMAIN s
      /\ \A p \in DOMAIN r : r[p] = IF p \in DOMAIN plan THEN plan[p] ELSE s[p]
  BY <1>4, <1>5 DEF Over
<1>7. NotesIn(r) = Log!With(NotesIn(s), t, v.note)
  <2>1. ThreadFile(t) \in DOMAIN r /\ r[ThreadFile(t)] = v
    BY <1>5, <1>6
  <2>2. \A u \in Thread : u # t => /\ ThreadFile(u) \in DOMAIN r <=> ThreadFile(u) \in DOMAIN s
                                   /\ ThreadFile(u) \in DOMAIN s => r[ThreadFile(u)] = s[ThreadFile(u)]
    BY <1>5, <1>6, Paths
  <2> QED
    BY <2>1, <2>2, OneNote
<1>8. ReceiptsIn(r) = Log!With(ReceiptsIn(s), o, [request |-> q, thread |-> t, note |-> v.note])
  <2>1. ReceiptFile(o) \in DOMAIN r /\ r[ReceiptFile(o)] = reply
    BY <1>5, <1>6
  <2>2. \A i \in Identifier : i # o => /\ ReceiptFile(i) \in DOMAIN r <=> ReceiptFile(i) \in DOMAIN s
                                       /\ ReceiptFile(i) \in DOMAIN s => r[ReceiptFile(i)] = s[ReceiptFile(i)]
    BY <1>5, <1>6, Paths
  <2>3. ReceiptsIn(r) = Log!With(ReceiptsIn(s), o,
            [request |-> reply.request, thread |-> reply.thread, note |-> reply.version.note])
    BY <2>1, <2>2, OneReceipt
  <2> QED
    BY <1>1, <1>3, <2>3
<1>9. /\ NotesIn(Settled)' = NotesIn(r) /\ ReceiptsIn(Settled)' = ReceiptsIn(r)
      /\ NotesIn(Settled) = NotesIn(s) /\ ReceiptsIn(Settled) = ReceiptsIn(s)
  BY <1>4 DEF NotesIn, ReceiptsIn
<1>10. q.op \notin DOMAIN ReceiptsIn(Settled)
  BY <1>1 DEF ReceiptsIn
<1>11. Effect(s, q, t, v)
  BY <1>1, <1>3, <1>4
<1>12. \/ q.action = "create" /\ t \notin DOMAIN NotesIn(s) /\ v.note = <<q.text>>
       \/ /\ q.action # "create" /\ t = q.thread /\ t \in DOMAIN NotesIn(s)
          /\ v.note = Edited(NotesIn(s)[t], q)
  <2>1. CASE /\ q.action = "create" /\ ThreadFile(t) \notin DOMAIN s
             /\ v = [rev |-> 1, note |-> <<q.text>>]
    BY <2>1 DEF NotesIn
  <2>2. CASE /\ q.action # "create" /\ t = q.thread /\ ThreadFile(t) \in DOMAIN s
             /\ v = Saved(s, t, Edited(s[ThreadFile(t)].note, q))
    <3>1. v.note = Edited(s[ThreadFile(t)].note, q)
      BY <2>2 DEF Saved
    <3>2. t \in DOMAIN NotesIn(s) /\ NotesIn(s)[t] = s[ThreadFile(t)].note
      BY <2>2 DEF NotesIn
    <3> QED
      BY <2>2, <3>1, <3>2
  <2> QED
    BY <1>11, <2>1, <2>2 DEF Effect
<1>13. PICK note : note = v.note
  OBVIOUS
<1> QED
  BY <1>3, <1>7, <1>8, <1>9, <1>10, <1>12, <1>13, LogPerforms

\* Reading leaves the notes alone.
LEMMA ReadLogs ==
    ASSUME NEW t \in Thread, NEW reply, NEW plan, IsFiles(files), Settled = files, plan # NoWrites,
           WasRead(files, t, reply, plan), Settled' = Over(plan, files)
    PROVE  UNCHANGED Log!lvars
<1>1. PICK s, r : s = files /\ r = Settled'
  OBVIOUS
<1>2. /\ ThreadFile(t) \in DOMAIN s /\ DOMAIN plan \subseteq {ThreadFile(t), AnchorFile(t)}
      /\ ThreadFile(t) \in DOMAIN plan => plan[ThreadFile(t)].note = s[ThreadFile(t)].note
  BY <1>1, ReadWritesAre, ObservedIs DEF WasRead
<1>3. /\ DOMAIN r = DOMAIN plan \cup DOMAIN s
      /\ \A p \in DOMAIN r : r[p] = IF p \in DOMAIN plan THEN plan[p] ELSE s[p]
  BY <1>1 DEF Over
<1>4. NotesIn(r) = NotesIn(s)
  <2>1. \A u \in Thread : /\ ThreadFile(u) \in DOMAIN r <=> ThreadFile(u) \in DOMAIN s
                          /\ ThreadFile(u) \in DOMAIN s => r[ThreadFile(u)].note = s[ThreadFile(u)].note
    BY <1>2, <1>3, Paths
  <2> QED
    BY <2>1, SameNotes
<1>5. ReceiptsIn(r) = ReceiptsIn(s)
  <2>1. \A i \in Identifier : /\ ReceiptFile(i) \in DOMAIN r <=> ReceiptFile(i) \in DOMAIN s
                              /\ ReceiptFile(i) \in DOMAIN s => r[ReceiptFile(i)] = s[ReceiptFile(i)]
    BY <1>2, <1>3, Paths
  <2> QED
    BY <2>1, SameReceipts
<1>6. /\ NotesIn(Settled)' = NotesIn(r) /\ ReceiptsIn(Settled)' = ReceiptsIn(r)
      /\ NotesIn(Settled) = NotesIn(s) /\ ReceiptsIn(Settled) = ReceiptsIn(s)
  BY <1>1 DEF NotesIn, ReceiptsIn
<1> QED
  BY <1>4, <1>5, <1>6, LogStays

\* A save whose revision is still the observed one appends to the note as it is.
LEMMA SaveLogs ==
    ASSUME SpaceIInv, NEW task \in Task, task.kind = "save", NEW reply, NEW plan, Settled = files,
           WasSaved(files, task, reply, plan), Anchored(files, task.thread, task.version),
           Settled' = Over(plan, files)
    PROVE  Log!Next
<1>1. PICK s, r, t, told, x : /\ s = files /\ r = Settled' /\ t = task.thread
                              /\ told = task.version /\ x = task.text
  OBVIOUS
<1>2. t \in Thread /\ told \in Version /\ x \in Text /\ IsFiles(s)
  BY <1>1, TaskParts DEF SpaceIInv, SpaceShapes
<1>3. /\ AnchorFile(t) \in DOMAIN s /\ ThreadFile(t) \in DOMAIN s /\ Later(s[AnchorFile(t)], told)
  BY <1>1, <1>2 DEF Anchored, SpaceIInv, AnchorsHaveThreads
<1>4. Observed(s, t).rev = told.rev
  BY <1>1 DEF WasSaved
<1>5. Observed(s, t) = told
  <2>1. /\ Observed(s, t) \in Version /\ s[AnchorFile(t)] \in Version
        /\ Later(Observed(s, t), s[AnchorFile(t)])
    BY <1>2, <1>3, ObservedIs
  <2>2. Later(Observed(s, t), told)
    BY <1>2, <1>3, <2>1, LaterTwice
  <2> QED
    BY <1>2, <1>4, <2>1, <2>2 DEF Later, Version
<1>6. told.note = s[ThreadFile(t)].note
  BY <1>2, <1>3, <1>5, ObservedIs
<1> DEFINE v == Saved(s, t, Append(told.note, x))
<1>7. v \in Version /\ v.note = Append(told.note, x)
  <2>1. Append(told.note, x) \in Seq(Written)
    BY <1>2, TextsAreWritten DEF Version
  <2> QED
    BY <1>2, <1>3, <2>1, SavedIs
<1>8. plan = PutThread(t, v)
  BY <1>1 DEF WasSaved
<1> HIDE DEF v
<1>9. DOMAIN plan = {ThreadFile(t), AnchorFile(t)} /\ plan[ThreadFile(t)] = v
  BY <1>2, <1>7, <1>8, PutThreadIs
<1>10. /\ DOMAIN r = {ThreadFile(t), AnchorFile(t)} \cup DOMAIN s
       /\ \A p \in DOMAIN r : r[p] = IF p \in DOMAIN plan THEN plan[p] ELSE s[p]
  BY <1>1, <1>9 DEF Over
<1>11. NotesIn(r) = Log!With(NotesIn(s), t, v.note)
  <2>1. ThreadFile(t) \in DOMAIN r /\ r[ThreadFile(t)] = v
    BY <1>9, <1>10
  <2>2. \A u \in Thread : u # t => /\ ThreadFile(u) \in DOMAIN r <=> ThreadFile(u) \in DOMAIN s
                                   /\ ThreadFile(u) \in DOMAIN s => r[ThreadFile(u)] = s[ThreadFile(u)]
    BY <1>2, <1>9, <1>10, Paths
  <2> QED
    BY <1>2, <2>1, <2>2, OneNote
<1>12. ReceiptsIn(r) = ReceiptsIn(s)
  <2>1. \A i \in Identifier : /\ ReceiptFile(i) \in DOMAIN r <=> ReceiptFile(i) \in DOMAIN s
                              /\ ReceiptFile(i) \in DOMAIN s => r[ReceiptFile(i)] = s[ReceiptFile(i)]
    BY <1>2, <1>9, <1>10, Paths
  <2> QED
    BY <2>1, SameReceipts
<1>13. /\ NotesIn(Settled)' = NotesIn(r) /\ ReceiptsIn(Settled)' = ReceiptsIn(r)
       /\ NotesIn(Settled) = NotesIn(s) /\ ReceiptsIn(Settled) = ReceiptsIn(s)
  BY <1>1 DEF NotesIn, ReceiptsIn
<1>14. t \in DOMAIN NotesIn(s) /\ NotesIn(s)[t] = told.note
  BY <1>2, <1>3, <1>6 DEF NotesIn
<1> QED
  BY <1>2, <1>7, <1>11, <1>12, <1>13, <1>14, LogEdits

LEMMA PublishLogs ==
    ASSUME SpaceIInv, NEW w \in Writer, Publish(w)
    PROVE  Log!Next \/ UNCHANGED Log!lvars
<1>1. PICK old \in WriterState : old = writer[w] /\ StateFits(old) /\ IsFiles(old.plan)
  BY DEF SpaceIInv, SpaceShapes
<1>2. PICK plan, reply, task : plan = old.plan /\ reply = old.reply /\ task = old.task
  OBVIOUS
<1>3. /\ old.at = "publishing" /\ files' = files /\ journal' = plan
  BY <1>1, <1>2 DEF Publish
<1>4. /\ task \in Task /\ journal = Nil /\ plan # NoWrites /\ IsFiles(plan) /\ IsFiles(files)
      /\ task.kind = "manage" => Managed(files, task.request, reply, plan)
      /\ task.kind = "read" => WasRead(files, task.thread, reply, plan)
      /\ task.kind = "save" => WasSaved(files, task, reply, plan)
      /\ task.kind = "save" => Anchored(Settled, task.thread, task.version)
  BY <1>1, <1>2, <1>3, TaskParts DEF StateFits, PlanFits, SpaceIInv, SpaceShapes
<1>5. plan # Nil
  <2>1. plan \in [DOMAIN plan -> Receipt \cup Version] /\ DOMAIN plan \in SUBSET Path
    BY <1>4 DEF IsFiles
  <2> QED
    BY <2>1, NilAssumption
<1>6. Settled = files /\ Settled' = Over(plan, files)
  BY <1>3, <1>4, <1>5 DEF Settled
<1>7. CASE task.kind = "manage"
  <2>1. PICK q : q = task.request
    OBVIOUS
  <2>2. q \in ManageRequest /\ Managed(files, q, reply, plan)
    BY <1>4, <1>7, <2>1, TaskParts
  <2> QED
    BY <1>4, <1>6, <2>2, ManagedLogs
<1>8. CASE task.kind = "read"
  <2>1. PICK t : t = task.thread
    OBVIOUS
  <2>2. t \in Thread /\ WasRead(files, t, reply, plan)
    BY <1>4, <1>8, <2>1, TaskParts
  <2> QED
    BY <1>4, <1>6, <2>2, ReadLogs
<1>9. CASE task.kind = "save"
  <2>1. Anchored(files, task.thread, task.version) /\ WasSaved(files, task, reply, plan)
    BY <1>4, <1>6, <1>9
  <2> QED
    BY <1>4, <1>6, <1>9, <2>1, SaveLogs
<1> QED
  BY <1>4, <1>7, <1>8, <1>9, TaskParts

\* A plan that is still to be applied covers a foreign save of the same thread.
LEMMA ForeignSaveLogs ==
    ASSUME SpaceIInv, NEW t \in Thread, NEW x \in ForeignText, ForeignSave(t, <<x>>)
    PROVE  Log!Next \/ UNCHANGED Log!lvars
<1>1. PICK s, r : s = Settled /\ r = Settled'
  OBVIOUS
<1>2. /\ DOMAIN r = DOMAIN s /\ journal' = journal
      /\ \A p \in DOMAIN s : p # ThreadFile(t) => r[p] = s[p]
      /\ ThreadFile(t) \in DOMAIN files /\ DOMAIN files' = DOMAIN files /\ files'[ThreadFile(t)].note = <<x>>
  BY <1>1, ForeignSaveIs
<1>3. ThreadFile(t) \in DOMAIN s
  BY <1>1, <1>2 DEF Settled, Over
<1>4. r[ThreadFile(t)] = s[ThreadFile(t)] \/ r[ThreadFile(t)].note = <<x>>
  <2>1. CASE journal = Nil
    BY <1>1, <1>2, <2>1 DEF Settled
  <2>2. CASE journal # Nil
    <3>1. s = Over(journal, files) /\ r = Over(journal, files')
      BY <1>1, <1>2, <2>2 DEF Settled
    <3> QED
      BY <1>2, <3>1 DEF Over
  <2> QED
    BY <2>1, <2>2
<1>5. ReceiptsIn(r) = ReceiptsIn(s)
  <2>1. \A i \in Identifier : /\ ReceiptFile(i) \in DOMAIN r <=> ReceiptFile(i) \in DOMAIN s
                              /\ ReceiptFile(i) \in DOMAIN s => r[ReceiptFile(i)] = s[ReceiptFile(i)]
    BY <1>2, Paths
  <2> QED
    BY <2>1, SameReceipts
<1>6. \A u \in Thread : u # t => /\ ThreadFile(u) \in DOMAIN r <=> ThreadFile(u) \in DOMAIN s
                                 /\ ThreadFile(u) \in DOMAIN s => r[ThreadFile(u)] = s[ThreadFile(u)]
  BY <1>2, Paths
<1>7. /\ NotesIn(Settled)' = NotesIn(r) /\ ReceiptsIn(Settled)' = ReceiptsIn(r)
      /\ NotesIn(Settled) = NotesIn(s) /\ ReceiptsIn(Settled) = ReceiptsIn(s)
  BY <1>1 DEF NotesIn, ReceiptsIn
<1>8. CASE r[ThreadFile(t)] = s[ThreadFile(t)]
  <2>1. \A u \in Thread : /\ ThreadFile(u) \in DOMAIN r <=> ThreadFile(u) \in DOMAIN s
                          /\ ThreadFile(u) \in DOMAIN s => r[ThreadFile(u)].note = s[ThreadFile(u)].note
    BY <1>2, <1>6, <1>8
  <2>2. NotesIn(r) = NotesIn(s)
    BY <2>1, SameNotes
  <2> QED
    BY <1>5, <1>7, <2>2, LogStays
<1>9. CASE r[ThreadFile(t)].note = <<x>>
  <2>1. NotesIn(r) = Log!With(NotesIn(s), t, r[ThreadFile(t)].note)
    BY <1>2, <1>3, <1>6, OneNote
  <2>2. t \in DOMAIN NotesIn(Settled)
    BY <1>3, <1>7 DEF NotesIn
  <2> QED
    BY <1>5, <1>7, <1>9, <2>1, <2>2, LogReplaces
<1> QED
  BY <1>4, <1>8, <1>9

LEMMA LogSteps ==
    ASSUME SpaceIInv, [SpaceNext]_spaceVars
    PROVE  [Log!Next]_(Log!lvars)
<1>1. ASSUME Settled' = Settled PROVE UNCHANGED Log!lvars
  BY <1>1 DEF Log!lvars
<1>2. ASSUME files' = files, journal' = journal PROVE UNCHANGED Log!lvars
  BY <1>1, <1>2 DEF Settled
<1>3. CASE UNCHANGED spaceVars
  BY <1>2, <1>3 DEF spaceVars
<1>4. ASSUME NEW w \in Writer, NEW task, Ask(w, task) PROVE UNCHANGED Log!lvars
  BY <1>2, <1>4 DEF Ask
<1>5. ASSUME NEW w \in Writer, DieWriting(w) PROVE UNCHANGED Log!lvars
  BY <1>2, <1>5 DEF DieWriting
<1>6. ASSUME NEW w \in Writer, Body(w) PROVE UNCHANGED Log!lvars
  BY <1>2, <1>6 DEF Body, Repeat, Create, SetNote, Read, SaveThread, Perform, Stage, Discard
<1>7. ASSUME NEW w \in Writer, Lock(w) PROVE UNCHANGED Log!lvars
  BY <1>2, <1>7 DEF Lock, Acquire
<1>8. ASSUME NEW w \in Writer, WriterStep(w) PROVE Log!Next \/ UNCHANGED Log!lvars
  BY <1>1, <1>6, <1>7, <1>8, ApplyStep, UnlinkStep, PublishLogs DEF WriterStep
<1> QED
  BY <1>3, <1>4, <1>5, <1>8, ForeignSaveLogs DEF SpaceNext

LEMMA LogStarts ==
    ASSUME SpaceInit
    PROVE  Log!Init
<1>1. PICK anchored \in SUBSET Existing :
        files = [p \in {ThreadFile(t) : t \in Existing} \cup {AnchorFile(t) : t \in anchored} |->
                    [rev |-> IF p[2] \in anchored THEN 1 ELSE 0, note |-> <<>>]]
  BY DEF SpaceInit
<1>2. DOMAIN files = {ThreadFile(t) : t \in Existing} \cup {AnchorFile(t) : t \in anchored}
  BY <1>1
<1>3. \A o \in Identifier : ReceiptFile(o) \notin DOMAIN files
  BY <1>2, Paths, WorkspaceAssumption
<1>4. Settled = files
  BY DEF SpaceInit, Settled
<1>5. {o \in Identifier : ReceiptFile(o) \in DOMAIN Settled} = {}
  BY <1>3, <1>4
<1>6. ReceiptsIn(Settled) = <<>>
  BY <1>5 DEF ReceiptsIn
<1> QED
  BY <1>6 DEF Log!Init, ReceiptsIn

\* An operation with its receipt, and every edit, takes effect in one step at the
\* publication of its plan: a log without locks, journals, revisions or anchors
\* (transaction, manage, save_thread).
THEOREM TransactionsImplementTheLog == SpaceSpec => ImplementsLog
BY LogStarts, LogSteps, SpaceHolds, PTL DEF SpaceSpec, ImplementsLog, Log!Spec
===============================================================================
