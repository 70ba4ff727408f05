------------------------------ MODULE SyncClient ------------------------------
(***************************************************************************)
(* Replicas that synchronize one file with a SyncStore over HTTP: the       *)
(* passes of server_sync/client.py (SyncClient.sync_once), interleaved with *)
(* each other, with the owners' edits, with an operator at the server, and  *)
(* with killed processes and requests that are lost or arrive late.         *)
(*                                                                          *)
(* A pass is a sequence of HTTP requests and file operations; each of them  *)
(* is one action, because anything can happen between two of them.  The     *)
(* checkpoint database (base, pending), the file and its recovery copies    *)
(* survive a crash; everything else a pass knows does not.  Files of a      *)
(* project are handled one after the other and independently, so one file   *)
(* is modelled; file contents are stamps (size and digest).                 *)
(***************************************************************************)
EXTENDS SyncStore

CONSTANTS
    Client,      \* the replicas, each with its device identifier
    Home, File,  \* the synchronized project and file
    Edits,       \* the contents that owners save
    MaxEdits,    \* bound on the saves and removals of each owner
    MaxFaults,   \* bound on failed passes
    MaxOps,      \* bound on interventions of the operator
    MaxTroubles, \* bound on failed passes and interventions together
    MaxLate      \* bound on requests under way after their pass gave up

ASSUME ClientAssumption ==
    /\ Client \subseteq Reporter \ {Browser}
    /\ Home \in Project /\ File \in Path
    /\ Edits \subseteq {s \in Stamp : Len(s.sha256) = s.size}
    \* identifiers are interchangeable: the least fresh one stands for any uuid4
    /\ Transfer \subseteq Nat /\ Revision \subseteq Nat
    /\ MaxEdits \in [Client -> Nat] /\ MaxFaults \in Nat /\ MaxOps \in Nat
    /\ MaxTroubles \in Nat /\ MaxLate \in Nat

VARIABLES
    disk,      \* the file of each replica, Null when there is none
    recovery,  \* contents kept in .threaddesk-sync-conflicts of each replica
    base,      \* table base: the last common revision, Null when there is none
    pending,   \* table uploads: the set of at most one [stamp, base, transfer]
    minted,    \* transfer identifiers each replica has drawn (uuid4)
    pass,      \* the running pass of each replica
    late,      \* requests under way whose pass no longer waits for the answer
    edits, faults, ops   \* what the owners, the environment and the operator did

server     == vars
checkpoint == <<base, pending, minted>>
local      == <<disk, recovery>>
bounds     == <<edits, faults, ops>>
cvars      == <<server, checkpoint, local, pass, late, bounds>>

Idle == [at |-> "idle", seen |-> Null, view |-> {}, head |-> Null, moved |-> Null,
         offset |-> 0, begins |-> 0, remember |-> FALSE, issue |-> FALSE]

ClientTypeOK ==
    /\ disk \in [Client -> Edits \cup {Null}]
    /\ recovery \in [Client -> SUBSET Edits]
    /\ base \in [Client -> Revision \cup {Null}]
    /\ \A d \in Client :
          /\ pending[d] \subseteq [stamp : Edits, base : Revision \cup {Null},
                                   transfer : minted[d]]
          /\ Cardinality(pending[d]) <= 1
          /\ pass[d].seen \in Edits \cup {Null}
          /\ pass[d].view \subseteq DOMAIN versions
          /\ pass[d].moved \in recovery[d] \cup {Null}
    /\ \A d, e \in Client : d # e => minted[d] \cap minted[e] = {}

CInit ==
    /\ projects = Put(<<>>, Home, TRUE)
    /\ manifests = <<>> /\ versions = <<>> /\ heads = {} /\ uploads = <<>> /\ chunks = <<>>
    /\ disk = [d \in Client |-> Null] /\ recovery = [d \in Client |-> {}]
    /\ base = [d \in Client |-> Null] /\ pending = [d \in Client |-> {}]
    /\ minted = [d \in Client |-> {}]
    /\ pass = [d \in Client |-> Idle]
    /\ late = {} /\ edits = [d \in Client |-> 0] /\ faults = 0 /\ ops = 0

(***************************************************************************)
(* Helpers                                                                  *)
(***************************************************************************)

HeadsNow    == Heads(Home, File)
StampOf(r)  == versions[r].stamp
BaseStamp(d) == IF base[d] = Null THEN Null ELSE StampOf(base[d])

\* The only row of the uploads table, and its transfer at the server.
Row(d) == CHOOSE row \in pending[d] : TRUE
U(d)   == <<Home, Row(d).transfer>>

Least(S) == {t \in S : \A s \in S : t <= s}
FreshTransfer == Least(Transfer \ UNION {minted[d] : d \in Client})
FreshRevision == Least(Revision \ DOMAIN versions)

Inventoried(content) == IF content = Null THEN <<>> ELSE [path \in {File} |-> content]

At(d, place) == pass[d].at = place
Go(d, place) == pass' = [pass EXCEPT ![d].at = place]
\* An exception ends the pass; what it knew is gone.
Fail(d)      == pass' = [pass EXCEPT ![d] = Idle]
\* A ClientError or OSError about this file is reported and the pass goes on.
Report(d, place) == pass' = [pass EXCEPT ![d].at = place, ![d].issue = TRUE]

(***************************************************************************)
(* Discovery, and closing what a changed file has left behind               *)
(***************************************************************************)

\* Faulty variant: pending transfers are looked at only when they are resumed.
DiscoverOnly(d) ==
    /\ At(d, "idle")
    /\ pass' = [pass EXCEPT ![d] = [Idle EXCEPT !.seen = disk[d], !.at = "declare"]]
    /\ UNCHANGED <<server, checkpoint, local, late, bounds>>

\* _discover, and the first half of _reconcile_pending: unchanged bytes resume
\* through their persisted transfer, any other pending transfer is closed first.
Discover(d) ==
    /\ At(d, "idle")
    /\ pass' = [pass EXCEPT ![d] =
          [Idle EXCEPT !.seen = disk[d],
                       !.at = IF \A row \in pending[d] : row.stamp = disk[d]
                              THEN "declare" ELSE "probe"]]
    /\ UNCHANGED <<server, checkpoint, local, late, bounds>>

\* _terminal_transfer: GET the transfer, and abort it unless it is terminal.
Probe(d) ==
    /\ At(d, "probe")
    /\ Go(d, IF U(d) \in DOMAIN uploads \ Receiving THEN "settle" ELSE "abort")
    /\ UNCHANGED <<server, checkpoint, local, late, bounds>>

\* The abort finds a terminal state when a late request was faster.
Cancel(d) ==
    /\ At(d, "abort")
    /\ \/ AbortUpload(Home, Row(d).transfer)
       \/ U(d) \in DOMAIN uploads \ Receiving /\ UNCHANGED server
    /\ Go(d, "settle")
    /\ UNCHANGED <<checkpoint, local, late, bounds>>

\* With terminal proof (terminal rows never change) the pending row is forgotten
\* in the transaction that records the new base: the head being remembered, or
\* the receipt of a commit whose answer was lost.
Settle(d) ==
    /\ At(d, "settle")
    /\ base' = [base EXCEPT ![d] =
          IF pass[d].remember THEN pass[d].head
          ELSE IF uploads[U(d)].state = "committed" THEN uploads[U(d)].receipt
          ELSE @]
    /\ pending' = [pending EXCEPT ![d] = {}]
    /\ Go(d, IF ~pass[d].remember THEN "declare"
             ELSE IF Cardinality(pass[d].view) > 1 THEN "copies" ELSE "redeclare")
    /\ UNCHANGED <<server, minted, local, late, bounds>>

\* POST manifest; a project without offline copies ends the pass here.
Declare(d) ==
    /\ At(d, "declare")
    /\ DeclareManifest(Home, d, Inventoried(pass[d].seen), FALSE)
    /\ IF projects[Home] THEN Go(d, "list") ELSE Fail(d)
    /\ UNCHANGED <<checkpoint, local, late, bounds>>

(***************************************************************************)
(* Uploading                                                                *)
(***************************************************************************)

\* Faulty variant: a replica without a base only downloads what already has heads.
ListOnlyBased(d) ==
    /\ At(d, "list")
    /\ LET seen == pass[d].seen IN
       Go(d, IF seen = Null \/ (HeadsNow # {} /\ base[d] = Null) \/ seen = BaseStamp(d)
             THEN "collect" ELSE "reserve")
    /\ UNCHANGED <<server, checkpoint, local, late, bounds>>

\* GET files: upload what no head has, unless it is the unchanged base.
List(d) ==
    /\ At(d, "list")
    /\ LET seen == pass[d].seen IN
       Go(d, IF \/ seen = Null
                \/ \E r \in HeadsNow : StampOf(r) = seen
                \/ seen = BaseStamp(d) /\ HeadsNow # {}
             THEN "collect" ELSE "reserve")
    /\ UNCHANGED <<server, checkpoint, local, late, bounds>>

\* Faulty variants: a new identifier for every pass, in place of or beside the old.
ReserveInto(d, rows) ==
    /\ At(d, "reserve") /\ disk[d] = pass[d].seen
    /\ \E t \in FreshTransfer :
          /\ minted' = [minted EXCEPT ![d] = @ \cup {t}]
          /\ pending' = [pending EXCEPT ![d] =
                rows \cup {[stamp |-> disk[d], base |-> base[d], transfer |-> t]}]
    /\ Go(d, "begin")
    /\ UNCHANGED <<server, base, local, late, bounds>>

ReserveAnew(d) == ReserveInto(d, {})

\* _upload: a new transfer identifier is persisted before the server hears of it.
\* A row for other bytes or another base cannot be met here, its closure in _upload
\* never runs: the pass has closed it before (see PendingContinuesBase).
Reserve(d) ==
    /\ At(d, "reserve")
    /\ \/ /\ disk[d] # pass[d].seen
          /\ Report(d, "collect")
          /\ UNCHANGED checkpoint
       \/ /\ disk[d] = pass[d].seen /\ pending[d] # {}
          /\ Go(d, "begin")
          /\ UNCHANGED checkpoint
       \/ /\ disk[d] = pass[d].seen /\ pending[d] = {}
          /\ \E t \in FreshTransfer :
                /\ minted' = [minted EXCEPT ![d] = @ \cup {t}]
                /\ pending' = [pending EXCEPT ![d] =
                      {[stamp |-> disk[d], base |-> base[d], transfer |-> t]}]
          /\ Go(d, "begin")
          /\ UNCHANGED base
    /\ UNCHANGED <<server, local, late, bounds>>

\* The server has the file up to this offset: send the next block or commit.
Continue(d, offset) ==
    pass' = [pass EXCEPT ![d].offset = offset,
                         ![d].at = IF offset = Row(d).stamp.size THEN "commit" ELSE "send"]

\* POST the transfer.  Only a positively reported abort draws a new identifier,
\* once per pass; a refusal (offline disabled, quota) ends the pass.
Begin(d) ==
    /\ At(d, "begin")
    /\ LET u == U(d)
           row == Row(d)
       IN
       \/ /\ u \in DOMAIN uploads /\ uploads[u].state # "aborted"
          /\ Continue(d, uploads[u].offset)
          /\ UNCHANGED <<server, checkpoint>>
       \/ /\ StartUpload(Home, row.transfer, File, row.stamp, row.base)
          /\ Continue(d, 0)
          /\ UNCHANGED checkpoint
       \/ /\ u \notin DOMAIN uploads
          /\ ~projects[Home] \/ ~WithinQuota(row.stamp.size)
          /\ Fail(d)
          /\ UNCHANGED <<server, checkpoint>>
       \/ /\ u \in DOMAIN uploads /\ uploads[u].state = "aborted"
          /\ pass[d].begins = 0
          /\ \E t \in FreshTransfer :
                /\ minted' = [minted EXCEPT ![d] = @ \cup {t}]
                /\ pending' = [pending EXCEPT ![d] = {[row EXCEPT !.transfer = t]}]
          /\ pass' = [pass EXCEPT ![d].begins = 1]
          /\ UNCHANGED <<server, base>>
       \/ /\ u \in DOMAIN uploads /\ uploads[u].state = "aborted"
          /\ pass[d].begins = 1
          /\ Report(d, "collect")
          /\ UNCHANGED <<server, checkpoint>>
    /\ UNCHANGED <<local, late, bounds>>

\* The next block of the file.
NextBlock(d) ==
    LET from == pass[d].offset
        upto == IF from + MaxChunk < Row(d).stamp.size THEN from + MaxChunk
                ELSE Row(d).stamp.size
    IN  SubSeq(Row(d).stamp.sha256, from + 1, upto)

\* PATCH one block; a repeated block is acknowledged, a closed or suspended
\* transfer refuses it and ends the pass.
Send(d) ==
    /\ At(d, "send")
    /\ LET u    == U(d)
           from == pass[d].offset
           data == NextBlock(d)
       IN
       \/ /\ AppendChunk(Home, u[2], from, data)
          /\ Continue(d, from + Len(data))
       \/ /\ u \in Receiving /\ <<u, from>> \in DOMAIN chunks
          /\ Continue(d, from + Len(data))
          /\ UNCHANGED server
       \/ /\ u \notin Receiving \/ (~projects[Home] /\ <<u, from>> \notin DOMAIN chunks)
          /\ Fail(d)
          /\ UNCHANGED server
    /\ UNCHANGED <<checkpoint, local, late, bounds>>

\* POST commit; its receipt is not trusted, the read-back below decides.
Commit(d) ==
    /\ At(d, "commit")
    /\ \/ /\ \E r \in FreshRevision : FinishUpload(Home, Row(d).transfer, r)
          /\ Go(d, "collect")
       \/ /\ uploads[U(d)].state = "committed"
          /\ Go(d, "collect")
          /\ UNCHANGED server
       \/ /\ uploads[U(d)].state # "committed"
          /\ uploads[U(d)].state = "aborted" \/ ~projects[Home]
          /\ Fail(d)
          /\ UNCHANGED server
    /\ UNCHANGED <<checkpoint, local, late, bounds>>

(***************************************************************************)
(* Downloading                                                              *)
(***************************************************************************)

\* The second GET files.
Collect(d) ==
    /\ At(d, "collect")
    /\ pass' = [pass EXCEPT ![d].view = HeadsNow,
                            ![d].at = IF HeadsNow = {} THEN "redeclare" ELSE "apply"]
    /\ UNCHANGED <<server, checkpoint, local, late, bounds>>

\* The heads, as they were listed, against the file as it was discovered: a head
\* with its bytes is remembered once the file has been read again, an only head
\* replaces an absent file or the unchanged base, and anything else is kept
\* beside the file.
Apply(d) ==
    /\ At(d, "apply")
    /\ LET seen == pass[d].seen
           mine == {h \in pass[d].view : StampOf(h) = seen}
           only == Cardinality(pass[d].view) = 1
       IN
       \/ /\ mine # {} /\ disk[d] = seen
          /\ \E h \in mine :
                pass' = [pass EXCEPT ![d].head = h, ![d].remember = TRUE,
                                     ![d].at = IF pending[d] = {} THEN "settle" ELSE "probe"]
       \/ /\ mine # {} /\ disk[d] # seen
          /\ Report(d, IF only \/ disk[d] = Null THEN "redeclare" ELSE "copies")
       \/ /\ mine = {} /\ only
          /\ seen \in {Null, BaseStamp(d)}
          /\ \E h \in pass[d].view : pass' = [pass EXCEPT ![d].head = h, ![d].at = "install"]
       \/ /\ mine = {}
          /\ ~(only /\ seen \in {Null, BaseStamp(d)})
          /\ Go(d, "copies")
    /\ UNCHANGED <<server, checkpoint, local, late, bounds>>

\* Faulty variant: only the first of several heads is kept.
CopyOne(d) ==
    /\ At(d, "copies")
    /\ \E h \in pass[d].view :
          recovery' = [recovery EXCEPT ![d] =
              @ \cup (IF StampOf(h) = pass[d].seen THEN {} ELSE {StampOf(h)})]
    /\ Report(d, "redeclare")
    /\ UNCHANGED <<server, checkpoint, disk, late, bounds>>

\* _conflict_copy of every head that is not the file's content.
Copies(d) ==
    /\ At(d, "copies")
    /\ recovery' = [recovery EXCEPT ![d] =
          @ \cup {StampOf(h) : h \in {h \in pass[d].view : StampOf(h) # pass[d].seen}}]
    /\ Report(d, "redeclare")
    /\ UNCHANGED <<server, checkpoint, disk, late, bounds>>

\* _install, first part: download, and compare the file with what was discovered.
Install(d) ==
    /\ At(d, "install")
    /\ IF disk[d] = pass[d].seen
       THEN Go(d, IF disk[d] = Null THEN "publish" ELSE "displace")
       ELSE Report(d, "redeclare")
    /\ UNCHANGED <<server, checkpoint, local, late, bounds>>

\* Whatever bears the name now is renamed into the recovery directory.
Displace(d) ==
    /\ At(d, "displace")
    /\ \/ /\ disk[d] = Null
          /\ Report(d, "redeclare")
          /\ UNCHANGED local
       \/ /\ disk[d] # Null
          /\ recovery' = [recovery EXCEPT ![d] = @ \cup {disk[d]}]
          /\ disk' = [disk EXCEPT ![d] = Null]
          /\ pass' = [pass EXCEPT ![d].moved = disk[d], ![d].at = "publish"]
    /\ UNCHANGED <<server, checkpoint, late, bounds>>

\* What is common to the faulty variants of Publish.
PublishIf(d, mayPublish) ==
    /\ At(d, "publish")
    /\ \/ /\ mayPublish
          /\ disk' = [disk EXCEPT ![d] = StampOf(pass[d].head)]
          /\ pass' = [pass EXCEPT ![d].remember = TRUE, ![d].at = "restore"]
       \/ /\ ~mayPublish
          /\ Report(d, "restore")
          /\ UNCHANGED disk
    /\ UNCHANGED <<server, checkpoint, recovery, late, bounds>>

\* Faulty variant: the name is taken whoever uses it by now.
PublishOver(d) == PublishIf(d, pass[d].moved = pass[d].seen)

\* The download takes the name only if the renamed file was the expected one and
\* nobody has used the name since.
Publish(d) ==
    /\ At(d, "publish")
    /\ \/ /\ pass[d].moved = pass[d].seen /\ disk[d] = Null
          /\ disk' = [disk EXCEPT ![d] = StampOf(pass[d].head)]
          /\ pass' = [pass EXCEPT ![d].remember = TRUE, ![d].at = "restore"]
       \/ /\ pass[d].moved # pass[d].seen \/ disk[d] # Null
          /\ Report(d, "restore")
          /\ UNCHANGED disk
    /\ UNCHANGED <<server, checkpoint, recovery, late, bounds>>

\* The finally block: link the renamed file back unless the name is taken.
Restore(d) ==
    /\ At(d, "restore")
    /\ disk' = [disk EXCEPT ![d] = IF @ = Null THEN pass[d].moved ELSE @]
    /\ Go(d, IF ~pass[d].remember THEN "redeclare"
             ELSE IF pending[d] = {} THEN "settle" ELSE "probe")
    /\ UNCHANGED <<server, checkpoint, recovery, late, bounds>>

\* The final discovery and manifest.
Redeclare(d) ==
    /\ At(d, "redeclare")
    /\ DeclareManifest(Home, d, Inventoried(disk[d]), pass[d].issue)
    /\ Fail(d)
    /\ UNCHANGED <<checkpoint, local, late, bounds>>

(***************************************************************************)
(* Owners, operator, crashes and the network                                *)
(***************************************************************************)

Edit(d, content) ==
    /\ edits[d] < MaxEdits[d] /\ content # disk[d]
    /\ disk' = [disk EXCEPT ![d] = content]
    /\ edits' = [edits EXCEPT ![d] = @ + 1]
    /\ UNCHANGED <<server, checkpoint, recovery, pass, late, faults, ops>>

\* The process dies, or a request fails before it reaches the server.
Crash(d) ==
    /\ ~At(d, "idle") /\ faults < MaxFaults /\ faults + ops < MaxTroubles
    /\ Fail(d)
    /\ faults' = faults + 1
    /\ UNCHANGED <<server, checkpoint, local, late, edits, ops>>

\* A request that changes the server is sent, and its answer is not awaited.
Request(d) ==
    [kind |-> pass[d].at, transfer |-> Row(d).transfer, stamp |-> Row(d).stamp,
     base |-> Row(d).base, from |-> pass[d].offset,
     data |-> IF At(d, "send") THEN NextBlock(d) ELSE <<>>]

TimeOut(d) ==
    /\ pass[d].at \in {"abort", "begin", "send", "commit"}
    /\ faults < MaxFaults /\ faults + ops < MaxTroubles /\ Cardinality(late) < MaxLate
    /\ late' = late \cup {Request(d)}
    /\ Fail(d)
    /\ faults' = faults + 1
    /\ UNCHANGED <<server, checkpoint, local, edits, ops>>

\* It arrives after all, or it is refused or lost.
Arrive(q) ==
    /\ \/ q.kind = "abort" /\ AbortUpload(Home, q.transfer)
       \/ q.kind = "begin" /\ StartUpload(Home, q.transfer, File, q.stamp, q.base)
       \/ q.kind = "send" /\ AppendChunk(Home, q.transfer, q.from, q.data)
       \/ q.kind = "commit" /\ \E r \in FreshRevision : FinishUpload(Home, q.transfer, r)
       \/ UNCHANGED server
    /\ late' = late \ {q}
    /\ UNCHANGED <<checkpoint, local, pass, bounds>>

Operate ==
    /\ ops < MaxOps /\ faults + ops < MaxTroubles
    /\ ops' = ops + 1
    /\ \/ \E u \in Receiving : AbortUpload(u[1], u[2])
       \/ /\ \E chosen \in HeadsNow : Resolve(Home, File, HeadsNow, chosen)
          /\ Cardinality(HeadsNow) > 1
       \/ \E enabled \in BOOLEAN : enabled # projects[Home] /\ SetOffline(Home, enabled)
    /\ UNCHANGED <<checkpoint, local, pass, late, edits, faults>>

PassStep(d) ==
    \/ Probe(d) \/ Cancel(d) \/ Settle(d) \/ Declare(d) \/ List(d)
    \/ Reserve(d) \/ Begin(d) \/ Send(d) \/ Commit(d) \/ Collect(d) \/ Apply(d)
    \/ Copies(d) \/ Install(d) \/ Displace(d) \/ Publish(d) \/ Restore(d) \/ Redeclare(d)

CNext ==
    \/ \E d \in Client : Discover(d) \/ PassStep(d) \/ Crash(d) \/ TimeOut(d)
    \/ \E d \in Client, content \in Edits \cup {Null} : Edit(d, content)
    \/ \E q \in late : Arrive(q)
    \/ Operate

CSpec == CInit /\ [][CNext]_cvars

\* watch() starts pass after pass for as long as the client runs.
FairCSpec == CSpec /\ \A d \in Client : WF_cvars(Discover(d) \/ PassStep(d))

(***************************************************************************)
(* What synchronization promises                                            *)
(***************************************************************************)

\* Transfers of replica d that were committed, and the versions they published.
Authored(d) == {r \in DOMAIN versions : \E t \in minted[d] :
                   <<Home, t>> \in DOMAIN uploads /\ uploads[<<Home, t>>].receipt = r}

\* No reservation at the server is orphaned: its identifier is in the pending row
\* of a replica that will resume or close it, whatever was lost, late or aborted.
NoOrphanReservation ==
    \A u \in Receiving : \E d \in Client : \E row \in pending[d] : u = <<Home, row.transfer>>

\* The pending transfer continues the checkpoint: it holds bytes to be put on top
\* of the present base, so a resumed one never forks from an outdated base.
PendingContinuesBase ==
    \A d \in Client : \A row \in pending[d] :
        /\ row.base = base[d]
        /\ <<Home, row.transfer>> \in DOMAIN uploads =>
              \/ uploads[<<Home, row.transfer>>] = Tombstone
              \/ /\ uploads[<<Home, row.transfer>>].stamp = row.stamp
                 /\ uploads[<<Home, row.transfer>>].base = row.base

\* Restarts, lost answers, aborts and late requests never publish a change twice:
\* two versions of one replica differ in their content or in their base.
NoChangePublishedTwice ==
    \A d \in Client : \A t, s \in minted[d] :
        LET x == uploads[<<Home, t>>]
            y == uploads[<<Home, s>>]
        IN  (/\ t # s /\ {<<Home, t>>, <<Home, s>>} \subseteq DOMAIN uploads
             /\ x.state = "committed" /\ y.state = "committed")
            => x.stamp # y.stamp \/ x.base # y.base

\* Bytes are never destroyed: when anybody but the owner takes a content away
\* from the file, the replica's recovery directory has it.
NothingDestroyed ==
    [][\A d \in Client :
          (disk'[d] # disk[d] /\ edits'[d] = edits[d] /\ disk[d] # Null)
             => disk[d] \in recovery'[d]]_cvars

\* Every reservation ends: while the operator leaves offline copies enabled, a
\* replica that keeps running commits or cancels whatever it, a lost answer or a
\* late request has begun.
ReservationsEnd ==
    \A u \in Upload : (u \in Receiving) ~> (u \notin Receiving \/ ~projects[Home])

\* Every current version reaches every replica that keeps running, as the file or
\* as a recovery copy, however the passes of the others interleave with it.
EveryHeadArrives ==
    \A d \in Client, r \in Revision :
        (r \in HeadsNow) ~>
            \/ r \notin HeadsNow \/ ~projects[Home]
            \/ StampOf(r) = disk[d] \/ StampOf(r) \in recovery[d]

\* What an owner saves and leaves alone is published.
EverySaveIsPublished ==
    \A d \in Client, content \in Edits :
        (disk[d] = content) ~>
            \/ disk[d] # content \/ ~projects[Home]
            \/ \E r \in DOMAIN versions : StampOf(r) = content

\* docs/SERVER-SYNC.md: a replica knows its own published version, so that a later
\* choice of another one at the server is taken over while the file is unchanged.
OwnPublication(d) ==
    /\ disk[d] # Null
    /\ \E r \in Authored(d) : StampOf(r) = disk[d]
    /\ Cardinality(HeadsNow) = 1
    /\ \A r \in HeadsNow : StampOf(r) # disk[d]

ChoiceIsTakenOver ==
    \A d \in Client : OwnPublication(d) ~> (~OwnPublication(d) \/ ~projects[Home])

\* However passes, deaths, faults and owners interleave: what a replica remembers of its
\* transfers is what the server has of them (sync_once).
ClientInv ==
    /\ ClientTypeOK
    /\ PendingContinuesBase
    /\ NoChangePublishedTwice
    /\ NoOrphanReservation
==============================================================================
