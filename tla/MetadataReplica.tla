--------------------------- MODULE MetadataReplica ---------------------------
(* The metadata of one bound project, a title and one task with its lifecycle, *)
(* kept by the server and by the desktops that are bound to it                *)
(* (server_sync/metadata.py, lifecycle.py, metadata_routes.py).               *)
(*                                                                            *)
(* A desktop saves an operation (the last common document and its own) before *)
(* it sends it; the server merges three ways, journals what it refused and    *)
(* keeps the answer as a receipt; the desktop merges the answer into a store  *)
(* its owner goes on editing, again under a receipt, and only then advances   *)
(* its checkpoint.  Whiteboard entries and file references, which merge by    *)
(* union, are left out; the node stands for relations, its leaves are one.    *)
EXTENDS Integers, FiniteSets

CONSTANTS Replica, Server,
          None,          \* an absent leaf, lifecycle, operation or answer
          MaxEdits,      \* bound on titles and task contents written
          MaxActs,       \* bound on moves to the trash, restores, reviews
          MaxUpsets     \* bound on purges and on passes that die or lose an answer

Site == Replica \cup {Server}

\* Documents, and a desktop's operation: the last common document and its own.
Life == [generation : Nat, revision : Nat, state : {"trashed", "restored"}]
Document == [title : Nat, node : Nat \cup {None}, life : Life \cup {None}]
Operation == [base : Document, document : Document]

ASSUME MetaAssumption ==
    Server \notin Replica /\ MaxEdits \in Nat /\ None \notin Nat \cup Document \cup Operation

VARIABLES docs,       \* what each site's workspace holds
          base,       \* a desktop's checkpoint: the last common document
          pending,    \* a desktop's checkpoint: the operation in doubt
          answered,   \* whether the pass has the server's answer
          receipt,    \* the server's receipt of a desktop's last operation
          absorbed,   \* whether the desktop has its own receipt of it
          disputes,   \* refused leaves each site journalled
          refused,    \* refused lifecycle transitions each site journalled
          written,    \* how many contents were written (they are numbered)
          past,       \* past[w]: the writes the author of w knew
          known,      \* the writes each site knows
          retired,    \* writes an owner replaced or decided against, knowing them
          decided,    \* writes a review of a conflict chose
          metaCount   \* the bounds used up
metaVars == <<docs, base, pending, answered, receipt, absorbed, disputes, refused,
              written, past, known, retired, decided, metaCount>>

WriteValue == 1 .. written
\* The document of a freshly bound project, whose title is nobody's write.
Bootstrap == [title |-> 0, node |-> None, life |-> None]

\* A document names a node's lifecycle only while the node exists.
Export(s) ==
    [title |-> docs[s].title, node |-> docs[s].node,
     life |-> IF docs[s].node = None THEN None ELSE docs[s].life]

Tomb(g, r, s) == [generation |-> g, revision |-> r, state |-> s]
Hidden(life) == life # None /\ life.state # "restored"
NextGeneration(life) == IF life = None THEN 1 ELSE life.generation + 1

-----------------------------------------------------------------------------
(* Merging *)

\* guard_merge: why the incoming lifecycle is not taken over; {} when it is.
Refusal(b, l, r) ==
    LET target == l.life
        actual == r.life
    IN CASE target = None /\ actual = None -> {}
         [] target = None                  -> {"stale_writer"}
         [] target = actual ->
              IF Hidden(actual) /\ l.node # r.node THEN {"edit_of_trashed"} ELSE {}
         [] actual = None ->
              IF target # Tomb(1, target.revision, "trashed") THEN {"no_generation"}
              ELSE IF b.node # r.node THEN {"delete_edit"} ELSE {}
         [] target.generation < actual.generation -> {"stale_generation"}
         [] actual.state = "trashed" /\ target.state = "restored" ->
              IF target # Tomb(actual.generation, actual.revision + 1, "restored")
              THEN {"no_generation"}
              ELSE IF b.node # r.node THEN {"delete_edit"} ELSE {}
         [] actual.state = "restored" /\ target.state = "trashed" ->
              IF target # Tomb(actual.generation + 1, 1, "trashed") THEN {"gap"}
              ELSE IF b.node # r.node THEN {"delete_edit"} ELSE {}
         [] OTHER -> {"lifecycle_conflict"}

\* One leaf of merge_documents: an unchanged leaf yields, absence never deletes.
Unchanged(old, left, right) == left = right \/ left = old
Taken(old, left, right) ==
    ~Unchanged(old, left, right) /\ left # None /\ right \in {old, None}
\* Faulty variant: a changed leaf always wins.
LeafOverwriting(old, left, right) == left
Leaf(old, left, right) == IF Taken(old, left, right) THEN left ELSE right
Disputed(old, left, right) ==
    ~Unchanged(old, left, right) /\ ~Taken(old, left, right)

Merge(b, l, r) ==
    IF Refusal(b, l, r) # {} THEN r
    ELSE [title |-> Leaf(b.title, l.title, r.title),
          node  |-> Leaf(b.node, l.node, r.node),
          life  |-> IF l.life = None THEN r.life ELSE l.life]

Disputes(b, l, r) ==
    IF Refusal(b, l, r) # {} THEN {}
    ELSE {[path |-> p, old |-> b[p], incoming |-> l[p], current |-> r[p]] :
            p \in {q \in {"title", "node"} : Disputed(b[q], l[q], r[q])}}

\* A refused first restore keeps the payload a later choice would need.
Refused(b, l, r) ==
    {[reason |-> why, incoming |-> l.life, current |-> r.life,
      payload |-> IF l.life = Tomb(1, 2, "restored") /\ r.node = None
                  THEN l.node ELSE None, open |-> TRUE] : why \in Refusal(b, l, r)}

\* validate_document: no lifecycle without its object.
Valid(m) == m.life # None => m.node # None

\* _apply refuses to write into a trashed or once purged object, to restore
\* without a matching generation, and a move that lands on another generation.
Applies(s, m, explicit) ==
    LET now == docs[s].life
        between == IF m.life # None /\ ~Hidden(m.life) THEN m.life ELSE now
    IN /\ Valid(m)
       /\ \/ Export(s) = m
          \/ /\ m.node # docs[s].node =>
                   /\ ~Hidden(between)
                   /\ ~(docs[s].node = None /\ docs[s].burnt)
             /\ m.life \notin {None, now} =>
                   CASE m.life.state = "trashed" -> m.life = Tomb(NextGeneration(now), 1, "trashed")
                     [] Hidden(now) -> m.life = Tomb(now.generation, now.revision + 1, "restored")
                     [] OTHER -> explicit /\ m.life = Tomb(NextGeneration(now), 2, "restored")

\* A new object gets an identifier derived from its origin, not a native one.
Applied(s, m) ==
    [docs[s] EXCEPT !.title = m.title, !.node = m.node,
                    !.life = IF m.node = None THEN @ ELSE m.life,
                    !.native = @ /\ docs[s].node # None]

\* synchronize: the effect at site s of an operation it has no receipt for.
\* A title or a task content a merge brings in is known with its past.
Learnt(doc) ==
    LET seen == {doc.title, doc.node} \cap WriteValue
    IN seen \cup UNION {past[w] : w \in seen}

Synchronize(s, b, l) ==
    LET r == Export(s)
        m == Merge(b, l, r)
    IN /\ Applies(s, m, FALSE)
       /\ docs' = [docs EXCEPT ![s] = Applied(s, m)]
       /\ disputes' = [disputes EXCEPT ![s] = @ \cup Disputes(b, l, r)]
       /\ refused' = [refused EXCEPT ![s] = @ \cup Refused(b, l, r)]
       /\ known' = [known EXCEPT ![s] = @ \cup Learnt(l)]

-----------------------------------------------------------------------------
(* The owners, at any site and at any time *)

Author(s, path) ==
    /\ written < MaxEdits
    /\ written' = written + 1
    /\ past' = [past EXCEPT ![written + 1] = known[s]]
    /\ known' = [known EXCEPT ![s] = @ \cup {written + 1}]
    /\ retired' = retired \cup ({docs[s][path]} \ {None})
    /\ docs' = [docs EXCEPT ![s][path] = written + 1]
    /\ UNCHANGED <<base, pending, answered, receipt, absorbed, disputes, refused, decided,
                   metaCount>>

WriteTitle(s) == Author(s, "title")
WriteNode(s) == docs[s].node # None /\ ~Hidden(docs[s].life) /\ Author(s, "node")

CreateNode(s) ==
    /\ ~metaCount.created /\ written < MaxEdits
    /\ metaCount' = [metaCount EXCEPT !.created = TRUE]
    /\ written' = written + 1
    /\ known' = [known EXCEPT ![s] = @ \cup {written + 1}]
    /\ docs' = [docs EXCEPT ![s].node = written + 1, ![s].native = TRUE]
    /\ UNCHANGED <<base, pending, answered, receipt, absorbed, disputes, refused, past, retired, decided>>

Act == /\ metaCount.acts < MaxActs
       /\ metaCount' = [metaCount EXCEPT !.acts = @ + 1]

ChangeLife(s, new) ==
    /\ Act
    /\ docs' = [docs EXCEPT ![s] = new]
    /\ UNCHANGED <<base, pending, answered, receipt, absorbed, disputes, refused, written,
                   past, known, decided>>

MoveNode(s) ==
    /\ docs[s].node # None /\ ~Hidden(docs[s].life)
    /\ ChangeLife(s, [docs[s] EXCEPT !.life =
            Tomb(NextGeneration(@), 1, "trashed")])
    /\ UNCHANGED retired

RestoreNode(s) ==
    /\ docs[s].node # None /\ Hidden(docs[s].life)
    /\ ChangeLife(s, [docs[s] EXCEPT !.life =
            Tomb(@.generation, @.revision + 1, "restored")])
    /\ UNCHANGED retired

\* The tombstone of a native object stays under an identifier that no import
\* uses; that of an imported one bars its origin from being imported again.
PurgeNode(s) ==
    /\ docs[s].node # None /\ Hidden(docs[s].life)
    /\ metaCount.upsets < MaxUpsets
    /\ metaCount' = [metaCount EXCEPT !.upsets = @ + 1, !.purged = TRUE]
    /\ docs' = [docs EXCEPT ![s].node = None, ![s].life = None, ![s].native = FALSE,
                            ![s].burnt = @ \/ ~docs[s].native]
    /\ retired' = retired \cup {docs[s].node}
    /\ UNCHANGED <<base, pending, answered, receipt, absorbed, disputes, refused,
                   written, past, known, decided>>

\* resolve_conflict: the stored or the refused value of a leaf, once, bound to
\* the current value the reviewer saw.
ResolveLeaf(s, d, chosen) ==
    /\ d \in disputes[s] /\ chosen \in {d.incoming, d.current} \ {None}
    /\ LET m == [Export(s) EXCEPT ![d.path] = chosen]
       IN /\ Applies(s, m, FALSE)
          /\ docs' = [docs EXCEPT ![s] = Applied(s, m)]
    /\ disputes' = [disputes EXCEPT ![s] = @ \ {d}]
    /\ retired' = retired \cup ({docs[s][d.path], d.incoming, d.current} \ {None, chosen})
    /\ decided' = decided \cup {chosen}
    /\ Act
    /\ UNCHANGED <<base, pending, answered, receipt, absorbed, refused, written, past, known>>

\* The same for a lifecycle transition; a first restore that was refused may be
\* adopted here, and only here, with the payload its receipt retained.
ResolveLife(s, c, chosen) ==
    /\ c \in refused[s] /\ c.open /\ chosen \in {c.incoming, c.current}
    /\ LET now == Export(s)
           adopts == /\ chosen = Tomb(NextGeneration(now.life), 2, "restored")
                     /\ ~Hidden(now.life)
           target == [now EXCEPT !.life = chosen,
                                 !.node = IF @ = None THEN c.payload ELSE @]
       IN \/ chosen = now.life /\ UNCHANGED docs
          \/ /\ chosen # now.life /\ chosen # None
             /\ now.node = None => adopts /\ target.node # None
             /\ adopts \/ Refusal(now, target, now) = {}
             /\ Applies(s, target, TRUE)
             /\ docs' = [docs EXCEPT ![s] = Applied(s, target)]
    /\ refused' = [refused EXCEPT ![s] = (@ \ {c}) \cup {[c EXCEPT !.open = FALSE]}]
    /\ Act
    /\ UNCHANGED <<base, pending, answered, receipt, absorbed, disputes, written, past, known,
                   retired, decided>>

-----------------------------------------------------------------------------
(* A pass of a desktop: MetadataReplica.sync_once *)

\* Faulty variant: a desktop without changes does not look at the server.
PrepareUnprobed(r) ==
    /\ pending[r] = None /\ Export(r) # base[r]
    /\ pending' = [pending EXCEPT ![r] = [base |-> base[r], document |-> Export(r)]]
    /\ receipt' = [receipt EXCEPT ![r] = None]
    /\ absorbed' = [absorbed EXCEPT ![r] = FALSE]
    /\ UNCHANGED <<docs, base, answered, disputes, refused, written, past, known,
                   retired, decided, metaCount>>

\* Nothing is sent while the desktop and the server both still hold the base.
Prepare(r) ==
    /\ pending[r] = None
    /\ Export(r) = base[r] => Export(Server) # base[r]
    /\ pending' = [pending EXCEPT ![r] = [base |-> base[r], document |-> Export(r)]]
    /\ receipt' = [receipt EXCEPT ![r] = None]
    /\ absorbed' = [absorbed EXCEPT ![r] = FALSE]
    /\ UNCHANGED <<docs, base, answered, disputes, refused, written, past, known,
                   retired, decided, metaCount>>

\* POST metadata/sync: merged at the server, or answered from the receipt.
Post(r) ==
    /\ pending[r] # None /\ ~answered[r]
    /\ answered' = [answered EXCEPT ![r] = TRUE]
    /\ \/ /\ receipt[r] = None
          /\ receipt' = [receipt EXCEPT ![r] =
                Merge(pending[r].base, pending[r].document, Export(Server))]
          /\ Synchronize(Server, pending[r].base, pending[r].document)
       \/ receipt[r] # None /\ UNCHANGED <<docs, disputes, refused, known, receipt>>
    /\ UNCHANGED <<base, pending, absorbed, written, past, retired, decided, metaCount>>

\* The answer merged into the desktop's own store, which may have moved on.
Absorb(r) ==
    /\ answered[r] /\ ~absorbed[r]
    /\ Synchronize(r, pending[r].document, receipt[r])
    /\ absorbed' = [absorbed EXCEPT ![r] = TRUE]
    /\ UNCHANGED <<base, pending, answered, receipt, written, past, retired, decided,
                   metaCount>>

Checkpoint(r) ==
    /\ answered[r] /\ absorbed[r]
    /\ base' = [base EXCEPT ![r] = receipt[r]]
    /\ pending' = [pending EXCEPT ![r] = None]
    /\ answered' = [answered EXCEPT ![r] = FALSE]
    /\ UNCHANGED <<docs, receipt, absorbed, disputes, refused, written, past, known,
                   retired, decided, metaCount>>

\* A lost answer, or a desktop that dies: the checkpoint and the receipts stay.
Crash(r) ==
    /\ answered[r] /\ metaCount.upsets < MaxUpsets
    /\ metaCount' = [metaCount EXCEPT !.upsets = @ + 1]
    /\ answered' = [answered EXCEPT ![r] = FALSE]
    /\ UNCHANGED <<docs, base, pending, receipt, absorbed, disputes, refused, written,
                   past, known, retired, decided>>

-----------------------------------------------------------------------------
\* A freshly bound project; the server's document is the base of every desktop.
MetaInit ==
    /\ docs = [s \in Site |-> [title |-> 0, node |-> None, life |-> None,
                               native |-> FALSE, burnt |-> FALSE]]
    /\ base = [r \in Replica |-> Bootstrap]
    /\ pending = [r \in Replica |-> None]
    /\ answered = [r \in Replica |-> FALSE]
    /\ receipt = [r \in Replica |-> None]
    /\ absorbed = [r \in Replica |-> FALSE]
    /\ disputes = [s \in Site |-> {}]
    /\ refused = [s \in Site |-> {}]
    /\ written = 0
    /\ past = [w \in 1 .. MaxEdits |-> {}]
    /\ known = [s \in Site |-> {}]
    /\ retired = {} /\ decided = {}
    /\ metaCount = [acts |-> 0, upsets |-> 0, created |-> FALSE, purged |-> FALSE]

Owners ==
    \E s \in Site :
        \/ WriteTitle(s) \/ WriteNode(s) \/ CreateNode(s)
        \/ MoveNode(s) \/ RestoreNode(s) \/ PurgeNode(s)
        \/ \E d \in disputes[s] : \E v \in {d.incoming, d.current} : ResolveLeaf(s, d, v)
        \/ \E c \in refused[s] : \E v \in {c.incoming, c.current} : ResolveLife(s, c, v)

Pass(r) == Prepare(r) \/ Post(r) \/ Absorb(r) \/ Checkpoint(r)

MetaNext == Owners \/ \E r \in Replica : Pass(r) \/ Crash(r)

MetaSpec == MetaInit /\ [][MetaNext]_metaVars

-----------------------------------------------------------------------------
(* Properties *)

MetaTypeOK ==
    /\ written \in 0 .. MaxEdits
    /\ \A s \in Site :
          /\ docs[s].title \in 0 .. written /\ docs[s].node \in WriteValue \cup {None}
          /\ known[s] \subseteq WriteValue
          /\ docs[s].node = None => docs[s].life = None
    /\ \A r \in Replica : answered[r] => pending[r] # None

Journalled(s) == UNION {{d.incoming, d.current} : d \in disputes[s]}
Present(s) == {docs[s].title, docs[s].node} \cup Journalled(s)
NothingRefused == \A s \in Site : refused[s] = {}
Undisturbed == NothingRefused /\ ~metaCount.purged

\* Three-way merges lose nothing: whatever an owner wrote is still somewhere, or
\* in a journalled conflict, unless an owner who knew it replaced, purged or
\* decided against it (merge_documents, sync_once with its replays).
EditsSurvive == WriteValue \subseteq retired \cup UNION {Present(s) : s \in Site}
EditsSurviveMerges == NothingRefused => EditsSurvive

\* Replays after lost answers and dead passes invent no conflicts: neither of two
\* disputed writes was made in the knowledge of the other (the receipts of
\* synchronize at the server and at the desktop).
ConflictsAreReal ==
    Undisturbed =>
        \A s \in Site : \A d \in disputes[s] :
            {d.incoming, d.current} \subseteq WriteValue \ decided =>
                d.incoming \notin past[d.current] /\ d.current \notin past[d.incoming]

\* When passes go on and nobody edits any more, all sites come to hold the same
\* document, unless a lifecycle was refused or a node purged (sync_once, which
\* sends nothing only when the server, too, still has the base).
DocumentsConverge ==
    <>[](~Undisturbed \/ \A s, t \in Site : Export(s) = Export(t))

\* However merges, answers and deaths of passes interleave with edits, nothing is lost or
\* disputed without a reason (merge_metadata, sync_metadata_once, synchronize).
MetaInv ==
    /\ MetaTypeOK
    /\ EditsSurviveMerges
    /\ ConflictsAreReal
==============================================================================
