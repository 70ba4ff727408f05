-------------------------------- MODULE Trash --------------------------------
(* The reversible lifecycle of threads, nodes and relations in one workspace   *)
(* (services/trash.py, trash_receipts.py, storage/lifecycle.py,                *)
(* purge_receipts.py): a move, a restore and a purge each run in a transaction *)
(* of the store, under an operation identity, while previews, approvals and    *)
(* commands of other programs are in flight.  A command leaves a reservation   *)
(* before it runs and a copy of its result after it (Commands).                *)
EXTENDS Integers, Sequences, FiniteSets

CONSTANTS Object,
          MaxOperations,   \* bound on operation identities
          NoRequest,       \* no receipt
          MaxVersions,     \* bound on contents written
          MaxDeletions,    \* bound on deletions of one object
          MaxApprovals,    \* bound on purge previews held at a time
          MaxCommands      \* bound on commands

ASSUME TrashAssumption == MaxOperations \in Nat /\ MaxDeletions \in Nat

VARIABLES payload,      \* object |-> its stored content; revision 0 when purged
          links,        \* <<s, t>>: s refers to t
          issued,       \* objects an issued handoff names
          deletions,    \* object |-> its trash entries, by generation
          results,     \* operation |-> the owner's receipt of it
          commands,     \* operation |-> the command's receipt of it
          approvals,    \* purge previews somebody holds
          versions      \* how many contents were written
trashVars == <<payload, links, issued, deletions, results, commands, approvals, versions>>

Identity == 1 .. MaxOperations

Gone == [revision |-> 0, content |-> 0]
Exists(o) == payload[o] # Gone
NoReceipt == [request |-> NoRequest, carries |-> {}]
NoCommand == [state |-> "none", request |-> NoRequest, carries |-> {}]

Generation(o) == Len(deletions[o])
Latest(o) == deletions[o][Generation(o)]
InTrash(o) == Generation(o) > 0 /\ Latest(o).state \in {"trashed", "purged"}
Live(o) == Exists(o) /\ ~InTrash(o)

Asks(act, o, generation, revision, binding) ==
    [act |-> act, object |-> o, generation |-> generation, revision |-> revision,
     binding |-> binding]

-----------------------------------------------------------------------------
(* Operations: a request runs once under its identity; its receipt is final *)

\* The operation may run under a command's reservation of exactly this request.
MayRun(op, request) ==
    /\ results[op] = NoReceipt
    /\ commands[op].state \in {"none", "pending"}
    /\ commands[op].state = "pending" => commands[op].request = request

\* What a request returns when it runs: a copy of its object, unless it purges it.
Returned(request) == IF request.act = "purge" THEN {} ELSE {request.object}

TakeReceipt(op, request) ==
    results' = [results EXCEPT ![op] = [request |-> request, carries |-> Returned(request)]]

\* The command's receipt copies the result its worker has held since it ran, or the
\* stored one when the same identity and request are sent again.
CompleteCommand(op) ==
    /\ commands[op].state = "pending"
    /\ results[op] # NoReceipt /\ results[op].request = commands[op].request
    /\ \E result \in {Returned(commands[op].request), results[op].carries} :
          commands' = [commands EXCEPT ![op].state = "complete", ![op].carries = result]
    /\ UNCHANGED <<payload, links, issued, deletions, results, approvals, versions>>

ReserveCommand(op, request) ==
    /\ commands[op].state = "none" /\ results[op] = NoReceipt
    /\ Cardinality({x \in Identity : commands[x].state # "none"}) < MaxCommands
    /\ commands' = [commands EXCEPT ![op] = [state |-> "pending", request |-> request,
                                             carries |-> {}]]
    /\ UNCHANGED <<payload, links, issued, deletions, results, approvals, versions>>

\* The owner refused: the command records a failure.
RefuseRequest(op) ==
    /\ commands[op].state = "pending" /\ results[op] = NoReceipt
    /\ commands' = [commands EXCEPT ![op].state = "failed"]
    /\ UNCHANGED <<payload, links, issued, deletions, results, approvals, versions>>

-----------------------------------------------------------------------------
(* The objects: edits and links, which the store allows only between live ones *)

Content(o) == [revision |-> payload[o].revision + 1, content |-> versions + 1]

Edit(op, o) ==
    LET request == Asks("edit", o, 0, payload[o].revision, {})
    IN /\ MayRun(op, request) /\ Live(o) /\ versions < MaxVersions
       /\ versions' = versions + 1
       /\ payload' = [payload EXCEPT ![o] = Content(o)]
       /\ TakeReceipt(op, request)
       /\ UNCHANGED <<links, issued, deletions, commands, approvals>>

AddLink(s, t) ==
    /\ s # t /\ Live(s) /\ Live(t) /\ links' = links \cup {<<s, t>>}
    /\ UNCHANGED <<payload, issued, deletions, results, commands, approvals, versions>>

RemoveLink(s, t) ==
    /\ Live(s) /\ links' = links \ {<<s, t>>}
    /\ UNCHANGED <<payload, issued, deletions, results, commands, approvals, versions>>

Issue(o) ==
    /\ Live(o) /\ issued' = issued \cup {o}
    /\ UNCHANGED <<payload, links, deletions, results, commands, approvals, versions>>

\* An older program knows no trash and no revisions; the anchor of get_thread
\* counts its edit.
ForeignEdit(o) ==
    /\ Exists(o) /\ versions < MaxVersions
    /\ versions' = versions + 1
    /\ payload' = [payload EXCEPT ![o] = Content(o)]
    /\ UNCHANGED <<links, issued, deletions, results, commands, approvals>>

-----------------------------------------------------------------------------
(* The lifecycle *)

MoveToTrash(op, o, revision) ==
    LET request == Asks("move", o, 0, revision, {})
    IN /\ MayRun(op, request) /\ Live(o) /\ payload[o].revision = revision
       /\ Generation(o) < MaxDeletions
       /\ deletions' = [deletions EXCEPT ![o] =
              Append(@, [state |-> "trashed", revision |-> 1,
                         content |-> payload[o].content, full |-> TRUE])]
       /\ TakeReceipt(op, request)
       /\ UNCHANGED <<payload, links, issued, commands, approvals, versions>>

\* Faulty variant: the content is not compared.
ExactByRevision(o, generation, revision) ==
    /\ generation = Generation(o) /\ revision = Latest(o).revision
    /\ Latest(o).state = "trashed" /\ Exists(o)

\* _exact_entry: the newest deletion, in the revision asked for, still in the trash
\* and with the content it had.
Exact(o, generation, revision) ==
    /\ generation = Generation(o) /\ revision = Latest(o).revision
    /\ Latest(o).state = "trashed"
    /\ Exists(o) /\ payload[o].content = Latest(o).content

Restore(op, o, generation, revision) ==
    LET request == Asks("restore", o, generation, revision, {})
    IN /\ MayRun(op, request) /\ generation \in DOMAIN deletions[o]
       /\ Exact(o, generation, revision)
       /\ deletions' = [deletions EXCEPT ![o][generation].state = "restored",
                                         ![o][generation].revision = @ + 1]
       /\ TakeReceipt(op, request)
       /\ UNCHANGED <<payload, links, issued, commands, approvals, versions>>

Referring(o) == {s \in Object : <<s, o>> \in links /\ Exists(s)}
Copies(o) == {op \in Identity : o \in results[op].carries}
CommandCopies(o) == {op \in Identity : o \in commands[op].carries}
\* A purge's own reservation is the only one that may be open (exempt_pending).
\* Faulty variant: open commands do not block a purge.
UnconfirmedIgnored(own) == {}
Unconfirmed(own) == {op \in Identity \ own : commands[op].state = "pending"}

\* What a purge would destroy and reduce; its digest is what the approval names.
Binding(o, own) ==
    [references |-> Referring(o), copies |-> <<Copies(o), CommandCopies(o)>>,
     open |-> Unconfirmed(own), history |-> deletions[o]]

PreviewPurge(o) ==
    /\ Generation(o) > 0 /\ Latest(o).state = "trashed" /\ Exists(o)
    /\ Cardinality(approvals) < MaxApprovals
    /\ approvals' = approvals \cup
          {[object |-> o, generation |-> Generation(o), revision |-> Latest(o).revision,
            binding |-> Binding(o, {}), content |-> payload[o].content]}
    /\ UNCHANGED <<payload, links, issued, deletions, results, commands, versions>>

Blocked(o, own) == Referring(o) # {} \/ o \in issued \/ Unconfirmed(own) # {}

\* ReceiptPlan.apply and minimal_entry: what results keep of a purged object.
Reduced(receipt, o) == [receipt EXCEPT !.carries = @ \ {o}]
Minimal(entry) == [entry EXCEPT !.full = FALSE]
Final(entry) == [Minimal(entry) EXCEPT !.state = "purged", !.revision = @ + 1]

Purge(op, a) ==
    LET o == a.object
        request == Asks("purge", o, a.generation, a.revision, a.binding)
        own == IF commands[op].state = "pending" THEN {op} ELSE {}
        g == a.generation
    IN /\ MayRun(op, request) /\ Exact(o, g, a.revision)
       /\ Binding(o, own) = a.binding /\ ~Blocked(o, own)
       /\ payload' = [payload EXCEPT ![o] = Gone]
       /\ links' = {l \in links : l[1] # o}
       /\ deletions' = [deletions EXCEPT ![o] =
              [i \in DOMAIN @ |-> IF i = g THEN Final(@[i]) ELSE Minimal(@[i])]]
       /\ results' = [[x \in Identity |-> Reduced(results[x], o)]
                          EXCEPT ![op] = [request |-> request, carries |-> {}]]
       /\ commands' = [x \in Identity |-> Reduced(commands[x], o)]
       /\ UNCHANGED <<issued, approvals, versions>>

-----------------------------------------------------------------------------
TrashInit ==
    /\ payload = [o \in Object |-> [revision |-> 1, content |-> 0]]
    /\ links = {} /\ issued = {}
    /\ deletions = [o \in Object |-> <<>>]
    /\ results = [op \in Identity |-> NoReceipt]
    /\ commands = [op \in Identity |-> NoCommand]
    /\ approvals = {}
    /\ versions = 0

TrashRequests ==
    {Asks(act, o, 0, payload[o].revision, {}) : act \in {"edit", "move"}, o \in Object}
    \cup {Asks("restore", o, Generation(o), 1, {}) : o \in Object}
    \cup {Asks("purge", a.object, a.generation, a.revision, a.binding) : a \in approvals}

\* Identities are drawn at random: a new one is the next number.
Usable == {op \in Identity : \A q \in 1 .. op - 1 :
              results[q] # NoReceipt \/ commands[q].state # "none"}

TrashNext ==
    \/ \E op \in Usable :
          \/ \E request \in TrashRequests : ReserveCommand(op, request)
          \/ CompleteCommand(op) \/ RefuseRequest(op)
          \/ \E o \in Object :
                \/ Edit(op, o) \/ MoveToTrash(op, o, payload[o].revision)
                \/ \E g \in DOMAIN deletions[o], r \in 1 .. 2 : Restore(op, o, g, r)
          \/ \E a \in approvals : Purge(op, a)
    \/ \E o \in Object : Issue(o) \/ ForeignEdit(o) \/ PreviewPurge(o)
    \/ \E s, t \in Object : AddLink(s, t) \/ RemoveLink(s, t)

TrashSpec == TrashInit /\ [][TrashNext]_trashVars

-----------------------------------------------------------------------------
(* Properties *)

TrashTypeOK ==
    /\ \A o \in Object : /\ Generation(o) <= MaxDeletions
                         /\ payload[o].content \in 0 .. versions
                         /\ Exists(o) \/ Latest(o).state = "purged"
    /\ \A op \in Identity : commands[op].state \in {"none", "pending", "complete", "failed"}

\* A purge destroys what its approval showed: the content, the references, the
\* deletion and the receipts have not changed since (purge under _exact_entry).
PurgeIsAsApproved ==
    [][\A o \in Object : Exists(o) /\ payload'[o] = Gone =>
          \E a \in approvals : /\ a.object = o /\ a.content = payload[o].content
                               /\ a.binding.history = deletions[o]
                               /\ a.binding.references = {} /\ Referring(o) = {}]_trashVars

\* No copy of a purged content stays or comes back, in an entry, an owner's receipt
\* or the result of a command that was under way (receipt_plan's blockers).
NothingRemainsOfPurged ==
    \A o \in Object : ~Exists(o) =>
        /\ \A g \in DOMAIN deletions[o] : ~deletions[o][g].full
        /\ Copies(o) = {} /\ CommandCopies(o) = {}

\* A purge leaves nothing that refers to the object (preview's blockers with
\* require_live_object, whatever was linked or restored in between).
NoDanglingLinks == \A l \in links : Exists(l[1]) /\ Exists(l[2])

\* Whatever was linked, quoted or commanded before: of a purged object nothing remains
\* and nothing that exists refers to it (purge, reduce receipts).
TrashInv ==
    /\ TrashTypeOK
    /\ NothingRemainsOfPurged
    /\ NoDanglingLinks
==============================================================================
