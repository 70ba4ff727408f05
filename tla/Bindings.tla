------------------------------ MODULE Bindings -------------------------------
(* The private binding of one thread to a server project                      *)
(* (server_sync/desktop.py BindingBook and DesktopSyncManager, identity.py),  *)
(* while passes use it: each reads the configuration once, under a lock of    *)
(* its process, and writes results back to a configuration its owner may have *)
(* replaced.  A pass's file work (SyncClient) is one transfer of one file.    *)
EXTENDS Integers, FiniteSets

CONSTANTS Process,       \* programs that run passes or edit the binding
          Remote,        \* server, project and credential of a configuration
          Root,          \* project directories
          NoBook,
          MaxSaves,      \* bound on configurations the owner saves
          MaxToggles,    \* bound on offline choices of the owner
          MaxTransfers   \* bound on uploads begun

VARIABLES book,          \* the saved configuration, or NoBook
          checkpoint,    \* [remote, root] |-> file checkpoint, or NoBook
          policy,        \* remote |-> whether the server offers offline copies
          transfer,      \* upload |-> its state at the server
          run,           \* process |-> its pass: a snapshot of the book and a stage
          choice,        \* the owner's or the browser's latest offline choice
          tenure,        \* what happened since the book got its present remote
          bookCount      \* the bounds used up
bookVars == <<book, checkpoint, policy, transfer, run, choice, tenure, bookCount>>

Upload == 1 .. MaxTransfers

\* A saved configuration with what it carries over to the next directory.
Configuration ==
    [id : Nat, remote : Remote, root : Root, device : Nat, offline : BOOLEAN, sending : BOOLEAN,
     bases : Nat, retired : SUBSET Upload]

ASSUME BookAssumption == MaxTransfers \in Nat /\ NoBook \notin Configuration

NoPass == [stage |-> "idle", config |-> NoBook]
Place == Remote \X Root
BoundPlace == <<book.remote, book.root>>
PassPlace(p) == <<run[p].config.remote, run[p].config.root>>

\* A checkpoint's base is its last common revision, 0 if there is none.
NoCheckpoint == [device |-> 0, base |-> 0, uploads |-> {}, exists |-> FALSE]
Newer(a, b) == IF a > b THEN a ELSE b
Touch == bookCount.config + 1

Device(same, moved) == IF same THEN book.device ELSE bookCount.device + 1
Bases(same, old) ==
    CASE ~same         -> 0
      [] old.base # 0  -> old.base
      [] OTHER         -> book.bases
Retired(same, old) == IF same THEN book.retired \cup old.uploads ELSE {}

-----------------------------------------------------------------------------
(* The owner *)

\* save: a configuration form.  Moving the directory takes the pass lock of this
\* process; the same remote keeps its device, and a move takes the bases and the
\* pending uploads of the old checkpoint along.
SaveBook(p, remote, root, offline) ==
    LET same == book # NoBook /\ book.remote = remote
        moved == same /\ book.root # root
        old == IF moved THEN checkpoint[BoundPlace] ELSE NoCheckpoint
    IN /\ bookCount.saves < MaxSaves
       /\ book # NoBook /\ book.root # root => run[p].stage = "idle"
       /\ old.exists => old.device = book.device
       /\ bookCount' = [bookCount EXCEPT !.saves = @ + 1, !.config = @ + 1,
                                         !.device = Newer(@, Device(same, moved)),
                                         !.tenures = IF same THEN @ ELSE @ + 1]
       /\ book' = [id |-> Touch, remote |-> remote, root |-> root,
                   device |-> Device(same, moved),
                   offline |-> offline, sending |-> TRUE,
                   bases |-> Bases(same, old), retired |-> Retired(same, old)]
       /\ choice' = [by |-> "owner", offline |-> offline]
       /\ tenure' = IF same THEN tenure ELSE [begun |-> {}, base |-> 0]
       /\ UNCHANGED <<checkpoint, policy, transfer, run>>

\* update without a configuration id: the owner's offline switch.
Toggle(offline) ==
    /\ book # NoBook /\ bookCount.toggles < MaxToggles
    /\ book' = [book EXCEPT !.offline = offline, !.sending = TRUE, !.id = Touch]
    /\ bookCount' = [bookCount EXCEPT !.toggles = @ + 1, !.config = @ + 1]
    /\ choice' = [by |-> "owner", offline |-> offline]
    /\ UNCHANGED <<checkpoint, policy, transfer, run, tenure>>

\* The browser's switch at the server.
Browse(offline) ==
    /\ book # NoBook /\ bookCount.toggles < MaxToggles
    /\ bookCount' = [bookCount EXCEPT !.toggles = @ + 1]
    /\ policy' = [policy EXCEPT ![book.remote] = offline]
    /\ choice' = [by |-> "browser", offline |-> offline]
    /\ UNCHANGED <<book, checkpoint, transfer, run, tenure>>

-----------------------------------------------------------------------------
(* A pass: DesktopSyncManager.run_once *)

PassStage(p, stage) == run' = [run EXCEPT ![p].stage = stage]

\* update with the pass's configuration id: ignored when the owner saved since.
\* Faulty variant: a result is written to whatever the book says by now.
WriteBackBlindly(p, new) == book' = new
WriteBack(p, new) ==
    book' = IF book.id = run[p].config.id THEN new ELSE book

BeginPass(p) ==
    /\ run[p].stage = "idle" /\ book # NoBook
    /\ run' = [run EXCEPT ![p] = [stage |-> "policy", config |-> book]]
    /\ UNCHANGED <<book, checkpoint, policy, transfer, choice, tenure, bookCount>>

\* PUT offline, then the acknowledgement in the book.
PutPolicy(p) ==
    /\ run[p].stage = "policy"
    /\ policy' = IF run[p].config.sending
                 THEN [policy EXCEPT ![run[p].config.remote] = run[p].config.offline]
                 ELSE policy
    /\ PassStage(p, "sent")
    /\ UNCHANGED <<book, checkpoint, transfer, choice, tenure, bookCount>>

AcknowledgeUpload(p) ==
    /\ run[p].stage = "sent" /\ PassStage(p, "open")
    /\ WriteBack(p, [book EXCEPT !.sending = @ /\ ~run[p].config.sending])
    /\ UNCHANGED <<checkpoint, policy, transfer, choice, tenure, bookCount>>

\* SyncClient: the checkpoint of this remote and directory, seeded when new and
\* refused when it belongs to another device.
Open(p) ==
    LET config == run[p].config
        found == checkpoint[PassPlace(p)]
    IN /\ run[p].stage = "open" /\ PassStage(p, "close")
       /\ found.exists => found.device = config.device
       /\ checkpoint' = IF found.exists THEN checkpoint
                        ELSE [checkpoint EXCEPT ![PassPlace(p)] =
                                  [device |-> config.device, base |-> config.bases,
                                   uploads |-> {}, exists |-> TRUE]]
       /\ UNCHANGED <<book, policy, transfer, choice, tenure, bookCount>>

\* The server's terminal state of an upload: what was not committed is aborted.
Terminal(t) == IF transfer[t].state = "committed" THEN transfer[t]
               ELSE [transfer[t] EXCEPT !.state = "aborted"]

\* close_retired_transfers: every retired upload is terminal before the bases of
\* the committed ones are taken over, unless a newer base is there already.
CloseRetired(p) ==
    LET ledger == run[p].config.retired
        mine == checkpoint[PassPlace(p)]
        carried == {t \in ledger : /\ transfer[t].state = "committed"
                                   /\ mine.base \in {0, transfer[t].base}}
    IN /\ run[p].stage = "close"
       /\ transfer' = [t \in Upload |-> IF t \in ledger THEN Terminal(t) ELSE transfer[t]]
       /\ checkpoint' = IF carried = {} THEN checkpoint
                        ELSE [checkpoint EXCEPT ![PassPlace(p)].base = CHOOSE t \in carried : TRUE]
       /\ PassStage(p, "closed")
       /\ UNCHANGED <<book, policy, choice, tenure, bookCount>>

ClearLedger(p) ==
    /\ run[p].stage = "closed" /\ PassStage(p, "files")
    /\ WriteBack(p, IF run[p].config.retired = {} THEN book
                    ELSE [book EXCEPT !.retired = {}])
    /\ UNCHANGED <<checkpoint, policy, transfer, choice, tenure, bookCount>>

\* SyncClient.sync_once, in three steps: an upload saved before it is announced, the
\* server's commit, and the new base.  A pending upload is resumed.
StartTransfer(p) ==
    LET t == bookCount.transfers + 1
    IN /\ run[p].stage = "files" /\ t \in Upload /\ checkpoint[PassPlace(p)].uploads = {}
       /\ bookCount' = [bookCount EXCEPT !.transfers = t]
       /\ transfer' = [transfer EXCEPT ![t] = [state |-> "receiving",
                                               base |-> checkpoint[PassPlace(p)].base]]
       /\ checkpoint' = [checkpoint EXCEPT ![PassPlace(p)].uploads = {t}]
       /\ tenure' = IF run[p].config.remote = book.remote
                    THEN [tenure EXCEPT !.begun = @ \cup {t}] ELSE tenure
       /\ UNCHANGED <<book, policy, run, choice>>

CommitTransfer(p) ==
    /\ run[p].stage = "files"
    /\ \E t \in checkpoint[PassPlace(p)].uploads :
          /\ transfer[t].state = "receiving"
          /\ transfer' = [transfer EXCEPT ![t].state = "committed"]
    /\ UNCHANGED <<book, checkpoint, policy, run, choice, tenure, bookCount>>

Remember(p) ==
    /\ run[p].stage = "files"
    /\ \E t \in checkpoint[PassPlace(p)].uploads :
          /\ transfer[t].state # "receiving"
          /\ checkpoint' = [checkpoint EXCEPT
                ![PassPlace(p)].uploads = {},
                ![PassPlace(p)].base = IF transfer[t].state = "committed" THEN t ELSE @]
    /\ tenure' = IF run[p].config.remote = book.remote
                 THEN [tenure EXCEPT !.base = Newer(@, checkpoint'[PassPlace(p)].base)]
                 ELSE tenure
    /\ UNCHANGED <<book, policy, transfer, run, choice, bookCount>>

\* The last request reads the policy; then the seeds are spent and it is taken over.
ReadStatus(p) ==
    /\ run[p].stage = "files" /\ checkpoint[PassPlace(p)].uploads = {}
    /\ run' = [run EXCEPT ![p].stage = "done",
                          ![p].config.offline = policy[run[p].config.remote]]
    /\ UNCHANGED <<book, checkpoint, policy, transfer, choice, tenure, bookCount>>

Finish(p) ==
    /\ run[p].stage = "done"
    /\ WriteBack(p, [book EXCEPT !.bases = 0, !.offline = run[p].config.offline])
    /\ run' = [run EXCEPT ![p] = NoPass]
    /\ UNCHANGED <<checkpoint, policy, transfer, choice, tenure, bookCount>>

\* Any request may fail; the pass reports it and gives up the lock.
GiveUp(p) ==
    /\ run[p].stage # "idle"
    /\ run' = [run EXCEPT ![p] = NoPass]
    /\ UNCHANGED <<book, checkpoint, policy, transfer, choice, tenure, bookCount>>

-----------------------------------------------------------------------------
BookInit ==
    /\ book = NoBook
    /\ checkpoint = [x \in Place |-> NoCheckpoint]
    /\ policy = [m \in Remote |-> FALSE]
    /\ transfer = [t \in Upload |-> [state |-> "absent", base |-> 0]]
    /\ run = [p \in Process |-> NoPass]
    /\ choice = [by |-> "nobody", offline |-> FALSE]
    /\ tenure = [begun |-> {}, base |-> 0]
    /\ bookCount = [saves |-> 0, toggles |-> 0, transfers |-> 0, config |-> 0,
                     device |-> 0, tenures |-> 0]

PassOf(p) ==
    \/ BeginPass(p) \/ PutPolicy(p) \/ AcknowledgeUpload(p) \/ Open(p) \/ CloseRetired(p)
    \/ ClearLedger(p) \/ StartTransfer(p) \/ CommitTransfer(p) \/ Remember(p)
    \/ ReadStatus(p) \/ Finish(p)

BookNext ==
    \/ \E p \in Process : PassOf(p) \/ GiveUp(p)
    \/ \E p \in Process, m \in Remote, r \in Root, on \in BOOLEAN : SaveBook(p, m, r, on)
    \/ \E on \in BOOLEAN : Toggle(on) \/ Browse(on)

BookSpec == BookInit /\ [][BookNext]_bookVars

-----------------------------------------------------------------------------
(* Properties *)

AtRest == book # NoBook /\ \A p \in Process : run[p].stage = "idle"

\* No pass in flight undoes the offline choice: once the book has nothing to send
\* and no pass runs, the latest choice of the owner holds here and at the server
\* (the configuration id checked by update, the generation it renews).
OfflineChoiceStands ==
    AtRest /\ ~book.sending /\ choice.by = "owner" =>
        book.offline = choice.offline /\ policy[book.remote] = choice.offline

\* However often the directory moves and passes fail, an upload begun for the
\* present remote and not settled is in the checkpoint in use, which resumes it,
\* or in the ledger of uploads to close (save, close_retired_transfers).
NoUploadForgotten ==
    AtRest => {t \in tenure.begun : transfer[t].state = "receiving"}
                \subseteq book.retired \cup checkpoint[BoundPlace].uploads

\* The remote knows one reporter for the binding, in whatever directory it is,
\* as long as the owner does not bind the thread elsewhere in between.
OneReporter ==
    book # NoBook /\ bookCount.tenures = 1 =>
        \A x \in Place : checkpoint[x].exists => checkpoint[x].device = book.device

\* Whenever the owner moves or pauses a binding in the middle of a pass: the choice
\* stands, no upload is forgotten and one device reports (DesktopSyncManager).
BookInv ==
    /\ OfflineChoiceStands
    /\ NoUploadForgotten
    /\ OneReporter
==============================================================================
