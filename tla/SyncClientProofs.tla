--------------------------- MODULE SyncClientProofs ---------------------------
(***************************************************************************)
(* Theorems about SyncClient, for any number of replicas, contents, edits,  *)
(* failed passes, interventions and late requests.                          *)
(***************************************************************************)
EXTENDS SyncClient, SequenceTheorems, FiniteSetTheorems, TLAPS

(***************************************************************************)
(* The inductive invariant                                                  *)
(***************************************************************************)

Places == {"idle", "probe", "abort", "settle", "declare", "list", "reserve", "begin", "send",
           "commit", "collect", "apply", "copies", "install", "displace", "publish", "restore",
           "redeclare"}

PassRecord ==
    [at : Places, seen : Edits \cup {Null}, view : SUBSET Revision, head : Revision \cup {Null},
     moved : Edits \cup {Null}, offset : Nat, begins : Nat, remember : BOOLEAN, issue : BOOLEAN]

TransferRow ==
    [path : {File}, stamp : Edits, base : Revision \cup {Null},
     state : {"receiving", "committed", "aborted"}, offset : Nat, receipt : Revision \cup {Null}]

PendingRow == [stamp : Edits, base : Revision \cup {Null}, transfer : Transfer]

Minted == UNION {minted[d] : d \in Client}

Committed(t) == <<Home, t>> \in DOMAIN uploads /\ uploads[<<Home, t>>].state = "committed"
Closed(t) == <<Home, t>> \in DOMAIN uploads \ Receiving
Held(d, t) == \E row \in pending[d] : row.transfer = t
BaseOf(t) == uploads[<<Home, t>>].base

\* The server knows the one file, and only what the replicas have begun.
VersionsFit ==
    /\ DOMAIN versions \subseteq Revision /\ \A r \in DOMAIN versions : StampOf(r) \in Edits
    /\ heads \subseteq {<<Home, File, r>> : r \in DOMAIN versions}
    /\ DOMAIN versions # {} => heads # {}

TransferFits(t) ==
    LET row == uploads[<<Home, t>>]
    IN  row = Tombstone \/ /\ row \in TransferRow /\ row.offset <= row.stamp.size
                           /\ row.base \in DOMAIN versions \cup {Null}
                           /\ row.state = "committed" =>
                                /\ row.receipt \in DOMAIN versions /\ row.receipt # row.base
                                /\ row.base \notin HeadsNow

ServerFits ==
    /\ projects \in [{Home} -> BOOLEAN]
    /\ VersionsFit
    /\ \A u \in DOMAIN uploads : \E t \in Minted : u = <<Home, t>> /\ TransferFits(t)

\* The transfer of a pending row is of its bytes, on top of its base.
RowFits(d, row) ==
    /\ row.base = base[d] /\ row.stamp # Null
    /\ base[d] # Null => row.stamp # StampOf(base[d])
    /\ <<Home, row.transfer>> \in DOMAIN uploads =>
          \/ uploads[<<Home, row.transfer>>] = Tombstone
          \/ /\ uploads[<<Home, row.transfer>>].stamp = row.stamp
             /\ uploads[<<Home, row.transfer>>].base = row.base

\* A replica never has again the base that a settled commit of its own has replaced.
CheckpointFits(d) ==
    /\ base[d] \in DOMAIN versions \cup {Null}
    /\ minted[d] \subseteq Transfer
    /\ pending[d] = {} \/ \E row \in PendingRow : pending[d] = {row} /\ row.transfer \in minted[d]
    /\ \A row \in pending[d] : RowFits(d, row)
    /\ \A t \in minted[d] : Held(d, t) \/ Closed(t)
    /\ \A t \in minted[d] : Committed(t) /\ ~Held(d, t) =>
         /\ base[d] # BaseOf(t)
         /\ \A row \in pending[d] : Committed(row.transfer) =>
                 uploads[<<Home, row.transfer>>].receipt # BaseOf(t)
    /\ \A t, s \in minted[d] : t # s /\ Committed(t) /\ Committed(s) => BaseOf(t) # BaseOf(s)

\* The pass looks at what it has discovered; it has a head; it may still choose one.
Closing(p) == p.at \in {"probe", "abort", "settle"}
HasHead(p) == p.at \in {"install", "displace", "publish", "restore"} \/ (p.remember /\ Closing(p))
Choosing(p) == p.at = "apply" \/ HasHead(p)
Seeing(p) == \/ p.at \in {"declare", "list", "reserve", "begin", "send", "commit", "collect"}
             \/ Choosing(p)

\* What pass p of replica d relies on.
PassFits(d, p) ==
    /\ p \in PassRecord /\ p.view \subseteq DOMAIN versions
    /\ p.at \in {"probe", "abort", "begin", "send", "commit"} => pending[d] # {}
    /\ p.at = "settle" => /\ \A row \in pending[d] : Closed(row.transfer)
                          /\ pending[d] = {} => p.remember
    /\ p.remember => Closing(p) \/ p.at \in {"restore", "copies", "redeclare"}
    /\ Seeing(p) => \A row \in pending[d] : row.stamp = p.seen
    /\ p.at = "reserve" => p.seen # Null /\ (base[d] # Null => p.seen # StampOf(base[d]))
    /\ p.at = "send" => \A row \in pending[d] : p.offset < row.stamp.size
    /\ HasHead(p) => p.head \in p.view /\ \A row \in pending[d] : p.head # row.base
    /\ Choosing(p) => \A t \in minted[d] : Committed(t) /\ ~Held(d, t) => BaseOf(t) \notin p.view

\* A late request is for a transfer of which the server or a pending row knows more.
LateFits ==
    \A q \in late :
        /\ q.transfer \in Minted /\ q.stamp \in Edits
        /\ q.kind = "send" => Len(q.data) \in Nat
        /\ \A d \in Client : \A row \in pending[d] :
              row.transfer = q.transfer => row.stamp = q.stamp /\ row.base = q.base

FilesFit ==
    /\ disk \in [Client -> Edits \cup {Null}] /\ recovery \in [Client -> SUBSET Edits]
    /\ \A d \in Client : pass[d].moved \in recovery[d] \cup {Null}

MintedFit == \A d, e \in Client : d # e => minted[d] \cap minted[e] = {}

Shapes ==
    /\ base \in [Client -> Revision \cup {Null}]
    /\ pending \in [Client -> SUBSET PendingRow]
    /\ minted \in [Client -> SUBSET Transfer]
    /\ pass \in [Client -> PassRecord]

ClientIInv ==
    /\ Shapes /\ ServerFits /\ LateFits /\ FilesFit /\ MintedFit
    /\ \A d \in Client : CheckpointFits(d) /\ PassFits(d, pass[d])

(***************************************************************************)
(* The server moves                                                         *)
(***************************************************************************)

\* Settled transfers and versions stay, a transfer keeps its bytes and base, a commit
\* publishes a new version, and a new transfer is the one of the pending row.
Grows ==
    /\ DOMAIN versions \subseteq DOMAIN versions'
    /\ \A r \in DOMAIN versions : versions'[r] = versions[r]
    /\ \A t : Closed(t) => Closed(t)' /\ uploads'[<<Home, t>>] = uploads[<<Home, t>>]
    /\ \A t : <<Home, t>> \in DOMAIN uploads =>
         /\ <<Home, t>> \in DOMAIN uploads'
         /\ \/ uploads'[<<Home, t>>] = uploads[<<Home, t>>]
            \/ /\ uploads[<<Home, t>>] # Tombstone
               /\ uploads'[<<Home, t>>].stamp = uploads[<<Home, t>>].stamp
               /\ uploads'[<<Home, t>>].base = uploads[<<Home, t>>].base
    /\ \A t : Committed(t)' /\ ~Committed(t) => uploads'[<<Home, t>>].receipt \notin DOMAIN versions
    /\ \A t : <<Home, t>> \in DOMAIN uploads' /\ <<Home, t>> \notin DOMAIN uploads =>
         \/ uploads'[<<Home, t>>] = Tombstone
         \/ \A d \in Client : \A row \in pending[d] : row.transfer = t =>
               /\ uploads'[<<Home, t>>].stamp = row.stamp
               /\ uploads'[<<Home, t>>].base = row.base

LEMMA EditsAreStamps ==
    \A s \in Edits : s \in Stamp /\ s.size \in Nat /\ s.sha256 \in Seq(Byte) /\ Len(s.sha256) = s.size
<1> SUFFICES ASSUME NEW s \in Edits
             PROVE  s \in Stamp /\ s.size \in Nat /\ s.sha256 \in Seq(Byte) /\ Len(s.sha256) = s.size
  OBVIOUS
<1>1. s \in Stamp /\ Len(s.sha256) = s.size
  BY ClientAssumption
<1>2. s.size \in 0..MaxFile /\ s.sha256 \in Content
  BY <1>1, StampAssumption
<1>3. PICK n \in 0..MaxFile : s.sha256 \in [1..n -> Byte]
  BY <1>2 DEF Content
<1>4. n \in Nat
  BY BoundsAssumption
<1> QED BY <1>1, <1>2, <1>3, <1>4, BoundsAssumption

LEMMA NullIsNoRevision == Null \notin Revision
BY NullAssumption

LEMMA KeyOf ==
    ASSUME ServerFits, NEW u \in DOMAIN uploads
    PROVE  \E t \in Minted : u = <<Home, t>> /\ TransferFits(t)
BY DEF ServerFits

\* A server that only reads, or changes whether offline copies are enabled.
LEMMA ServerRests ==
    ASSUME ServerFits, UNCHANGED <<versions, heads, uploads>>, Minted \subseteq Minted',
           projects' \in [{Home} -> BOOLEAN]
    PROVE  ServerFits' /\ Grows
<1>1. Grows
  BY DEF Grows, Closed, Committed, Receiving
<1>2. VersionsFit'
  BY DEF ServerFits, VersionsFit, StampOf
<1>3. \A t : TransferFits(t)' <=> TransferFits(t)
  BY DEF TransferFits, HeadsNow, Heads
<1>4. ASSUME NEW u \in DOMAIN uploads' PROVE \E t \in Minted' : u = <<Home, t>> /\ TransferFits(t)'
  BY <1>3, KeyOf
<1> QED BY <1>1, <1>2, <1>3, <1>4 DEF ServerFits

\* start_upload of what a pending row, or nobody any more, asks for.
LEMMA ServerStarts ==
    ASSUME ServerFits, NEW t \in Minted, NEW stamp \in Edits, NEW b,
           StartUpload(Home, t, File, stamp, b), UNCHANGED minted,
           \A d \in Client : \A row \in pending[d] :
              row.transfer = t => row.stamp = stamp /\ row.base = b
    PROVE  ServerFits' /\ Grows
<1> DEFINE u == <<Home, t>>
           new == [path |-> File, stamp |-> stamp, base |-> b, state |-> "receiving",
                   offset |-> 0, receipt |-> Null]
<1>1. /\ u \notin DOMAIN uploads /\ uploads' = Put(uploads, u, new)
      /\ b \in DOMAIN versions \cup {Null}
      /\ UNCHANGED <<projects, manifests, versions, heads, chunks>>
  BY DEF StartUpload
<1>2. new \in TransferRow /\ new.state = "receiving" /\ new.stamp = stamp /\ new.base = b
      /\ new.offset <= new.stamp.size
  BY <1>1, EditsAreStamps DEF ServerFits, VersionsFit, TransferRow
<1> HIDE DEF new
<1>3. /\ DOMAIN uploads' = DOMAIN uploads \cup {u} /\ uploads'[u] = new
      /\ \A x \in DOMAIN uploads : uploads'[x] = uploads[x]
  BY <1>1 DEF Put
<1>4. Grows
  <2>1. \A s : Closed(s) => Closed(s)' /\ uploads'[<<Home, s>>] = uploads[<<Home, s>>]
    BY <1>3 DEF Closed, Receiving
  <2>2. \A s : Committed(s)' => Committed(s)
    BY <1>2, <1>3 DEF Committed
  <2>3. \A s : <<Home, s>> \in DOMAIN uploads' /\ <<Home, s>> \notin DOMAIN uploads => s = t
    BY <1>3
  <2> HIDE DEF u
  <2>4. \A s : <<Home, s>> \in DOMAIN uploads =>
           <<Home, s>> \in DOMAIN uploads' /\ uploads'[<<Home, s>>] = uploads[<<Home, s>>]
    BY <1>3
  <2>5. \A s : <<Home, s>> \in DOMAIN uploads' /\ <<Home, s>> \notin DOMAIN uploads =>
           \A d \in Client : \A row \in pending[d] : row.transfer = s =>
               /\ uploads'[<<Home, s>>].stamp = row.stamp
               /\ uploads'[<<Home, s>>].base = row.base
    BY <1>2, <1>3, <2>3 DEF u
  <2> QED BY <1>1, <2>1, <2>2, <2>4, <2>5 DEF Grows
<1>5. VersionsFit' /\ Minted' = Minted
  BY <1>1 DEF ServerFits, VersionsFit, StampOf, Minted
<1>6. \A x \in DOMAIN uploads' : \E s \in Minted' : x = <<Home, s>> /\ TransferFits(s)'
  <2> SUFFICES ASSUME NEW x \in DOMAIN uploads'
               PROVE  \E s \in Minted : x = <<Home, s>> /\ TransferFits(s)'
    BY <1>5
  <2>1. CASE x = u
    <3>1. TransferFits(t)'
      BY <1>1, <1>2, <1>3 DEF TransferFits
    <3> QED BY <2>1, <3>1
  <2>2. CASE x \in DOMAIN uploads
    <3>1. PICK s \in Minted : x = <<Home, s>> /\ TransferFits(s)
      BY <2>2, KeyOf
    <3>2. uploads'[x] = uploads[x]
      BY <1>3, <2>2
    <3>3. TransferFits(s)'
      BY <1>1, <3>1, <3>2 DEF TransferFits, HeadsNow, Heads
    <3> QED BY <3>1, <3>3
  <2> QED BY <1>3, <2>1, <2>2
<1> QED BY <1>1, <1>4, <1>5, <1>6 DEF ServerFits

\* A receiving transfer is one of the replicas', and no tombstone.
LEMMA ReceivingFits ==
    ASSUME ServerFits, NEW t, <<Home, t>> \in Receiving
    PROVE  /\ t \in Minted /\ <<Home, t>> \in DOMAIN uploads
           /\ uploads[<<Home, t>>] \in TransferRow /\ uploads[<<Home, t>>] # Tombstone
           /\ uploads[<<Home, t>>].state = "receiving" /\ TransferFits(t)
<1>1. <<Home, t>> \in DOMAIN uploads /\ uploads[<<Home, t>>].state = "receiving"
  BY DEF Receiving
<1>2. PICK s \in Minted : <<Home, t>> = <<Home, s>> /\ TransferFits(s)
  BY <1>1, KeyOf
<1>3. s = t
  BY <1>2
<1> QED BY <1>1, <1>2, <1>3 DEF TransferFits, Tombstone

\* What is common to a block, a commit and a cancellation: the row of a receiving
\* transfer changes, and what it publishes is new.
LEMMA RowChanges ==
    ASSUME ServerFits, NEW t, <<Home, t>> \in Receiving, NEW new \in TransferRow,
           uploads' = [uploads EXCEPT ![<<Home, t>>] = new],
           new.stamp = uploads[<<Home, t>>].stamp, new.base = uploads[<<Home, t>>].base,
           new.state = "committed" => new.receipt \notin DOMAIN versions,
           DOMAIN versions \subseteq DOMAIN versions',
           \A r \in DOMAIN versions : versions'[r] = versions[r]
    PROVE  Grows
<1> DEFINE u == <<Home, t>>
<1>1. u \in DOMAIN uploads /\ uploads[u] # Tombstone
  BY ReceivingFits
<1>2. /\ DOMAIN uploads' = DOMAIN uploads /\ uploads'[u] = new
      /\ \A x \in DOMAIN uploads : x # u => uploads'[x] = uploads[x]
  BY <1>1
<1>3. \A s : Closed(s) => Closed(s)' /\ uploads'[<<Home, s>>] = uploads[<<Home, s>>]
  BY <1>2 DEF Closed, Receiving
<1>4. \A s : <<Home, s>> \in DOMAIN uploads =>
         /\ <<Home, s>> \in DOMAIN uploads'
         /\ \/ uploads'[<<Home, s>>] = uploads[<<Home, s>>]
            \/ /\ uploads[<<Home, s>>] # Tombstone
               /\ uploads'[<<Home, s>>].stamp = uploads[<<Home, s>>].stamp
               /\ uploads'[<<Home, s>>].base = uploads[<<Home, s>>].base
  BY <1>1, <1>2
<1>5. ASSUME NEW s, Committed(s)', ~Committed(s)
      PROVE  uploads'[<<Home, s>>].receipt \notin DOMAIN versions
  <2>1. <<Home, s>> = u
    BY <1>2, <1>5 DEF Committed
  <2> QED BY <1>2, <1>5, <2>1 DEF Committed
<1>6. \A s : <<Home, s>> \in DOMAIN uploads' => <<Home, s>> \in DOMAIN uploads
  BY <1>2
<1> QED BY <1>3, <1>4, <1>5, <1>6 DEF Grows

\* ... and the server keeps its form, if the changed row has it.
LEMMA RowChangesFit ==
    ASSUME ServerFits, NEW t, <<Home, t>> \in Receiving, NEW new,
           uploads' = [uploads EXCEPT ![<<Home, t>>] = new],
           UNCHANGED <<projects, minted>>, VersionsFit', TransferFits(t)',
           DOMAIN versions \subseteq DOMAIN versions',
           \A r \in Revision : r \in HeadsNow' => r \in HeadsNow \/ r \notin DOMAIN versions
    PROVE  ServerFits'
<1>1. t \in Minted /\ <<Home, t>> \in DOMAIN uploads
  BY ReceivingFits
<1>2. /\ DOMAIN uploads' = DOMAIN uploads
      /\ \A x \in DOMAIN uploads : x # <<Home, t>> => uploads'[x] = uploads[x]
  BY <1>1
<1>3. Minted' = Minted
  BY DEF Minted
<1>4. ASSUME NEW x \in DOMAIN uploads' PROVE \E s \in Minted' : x = <<Home, s>> /\ TransferFits(s)'
  <2>1. CASE x = <<Home, t>>
    BY <1>1, <1>3, <2>1
  <2>2. CASE x # <<Home, t>>
    <3>1. PICK s \in Minted : x = <<Home, s>> /\ TransferFits(s)
      BY <1>2, KeyOf
    <3>2. uploads'[<<Home, s>>] = uploads[<<Home, s>>]
      BY <1>2, <2>2, <3>1
    <3>3. \A b \in DOMAIN versions \cup {Null} : b \notin HeadsNow => b \notin HeadsNow'
      BY NullIsNoRevision DEF HeadsNow, Heads
    <3>4. TransferFits(s)'
      BY <3>1, <3>2, <3>3 DEF TransferFits
    <3> QED BY <1>3, <3>1, <3>4
  <2> QED BY <2>1, <2>2
<1> QED BY <1>4 DEF ServerFits

\* append_chunk of a block of any length.
LEMMA ServerAppends ==
    ASSUME ServerFits, NEW t, NEW offset, NEW data, Len(data) \in Nat,
           AppendChunk(Home, t, offset, data), UNCHANGED minted
    PROVE  ServerFits' /\ Grows
<1> DEFINE u == <<Home, t>>
           old == uploads[u]
           new == [old EXCEPT !.offset = offset + Len(data)]
<1>1. /\ u \in Receiving /\ offset = old.offset /\ offset + Len(data) <= old.stamp.size
      /\ uploads' = [uploads EXCEPT ![u] = new]
      /\ UNCHANGED <<projects, manifests, versions, heads>>
  BY DEF AppendChunk
<1>2. old \in TransferRow /\ old.state = "receiving" /\ TransferFits(t) /\ u \in DOMAIN uploads
      /\ old # Tombstone
  BY <1>1, ReceivingFits
<1> HIDE DEF old
<1>3. offset + Len(data) \in Nat
  BY <1>1, <1>2 DEF TransferRow
<1>4. /\ new \in TransferRow /\ new.state = "receiving" /\ new.stamp = old.stamp
      /\ new.base = old.base /\ new.offset = offset + Len(data)
  BY <1>2, <1>3 DEF TransferRow
<1> HIDE DEF new
<1>5. Grows
  BY <1>1, <1>4, RowChanges DEF old
<1>6. uploads'[u] = new
  BY <1>1, <1>2
<1>7. VersionsFit'
  BY <1>1 DEF ServerFits, VersionsFit, StampOf
<1>8. TransferFits(t)'
  BY <1>1, <1>2, <1>4, <1>6 DEF TransferFits, old
<1>9. HeadsNow' = HeadsNow
  BY <1>1 DEF HeadsNow, Heads
<1> QED BY <1>1, <1>5, <1>7, <1>8, <1>9, RowChangesFit

\* abort_upload of a transfer that receives, or of one that was never begun.
LEMMA ServerAborts ==
    ASSUME ServerFits, NEW t \in Minted, AbortUpload(Home, t), UNCHANGED minted
    PROVE  ServerFits' /\ Grows /\ Closed(t)'
<1> DEFINE u == <<Home, t>>
<1>1. UNCHANGED <<projects, manifests, versions, heads>>
  BY DEF AbortUpload
<1>2. CASE u \in Receiving /\ uploads' = [uploads EXCEPT ![u].state = "aborted"]
  <2> DEFINE old == uploads[u]
             new == [old EXCEPT !.state = "aborted"]
  <2>1. uploads' = [uploads EXCEPT ![u] = new]
    BY <1>2
  <2>2. old \in TransferRow /\ TransferFits(t) /\ u \in DOMAIN uploads /\ old # Tombstone
    BY <1>2, ReceivingFits
  <2> HIDE DEF old
  <2>3. /\ new \in TransferRow /\ new.state = "aborted" /\ new.stamp = old.stamp
        /\ new.base = old.base /\ new.offset = old.offset
    BY <2>2 DEF TransferRow
  <2> HIDE DEF new
  <2>4. Grows
    BY <1>1, <1>2, <2>1, <2>3, RowChanges DEF old
  <2>5. uploads'[u] = new /\ u \in DOMAIN uploads'
    BY <2>1, <2>2
  <2>6. VersionsFit'
    BY <1>1 DEF ServerFits, VersionsFit, StampOf
  <2>7. TransferFits(t)'
    BY <1>1, <2>2, <2>3, <2>5 DEF TransferFits, old
  <2>8. HeadsNow' = HeadsNow
    BY <1>1 DEF HeadsNow, Heads
  <2>9. Closed(t)'
    BY <2>3, <2>5 DEF Closed, Receiving
  <2> QED BY <1>1, <1>2, <2>1, <2>4, <2>6, <2>7, <2>8, <2>9, RowChangesFit
<1>3. CASE u \notin DOMAIN uploads /\ uploads' = Put(uploads, u, Tombstone)
  <2>1. /\ DOMAIN uploads' = DOMAIN uploads \cup {u} /\ uploads'[u] = Tombstone
        /\ \A x \in DOMAIN uploads : uploads'[x] = uploads[x]
    BY <1>3 DEF Put
  <2>2. Closed(t)'
    BY <2>1 DEF Closed, Receiving, Tombstone
  <2>3. \A s : Closed(s) => Closed(s)' /\ uploads'[<<Home, s>>] = uploads[<<Home, s>>]
    BY <2>1 DEF Closed, Receiving
  <2>4. \A s : Committed(s)' => Committed(s)
    BY <2>1 DEF Committed, Tombstone
  <2>5. \A s : <<Home, s>> \in DOMAIN uploads =>
           <<Home, s>> \in DOMAIN uploads' /\ uploads'[<<Home, s>>] = uploads[<<Home, s>>]
    BY <2>1
  <2>6. \A s : <<Home, s>> \in DOMAIN uploads' /\ <<Home, s>> \notin DOMAIN uploads =>
           uploads'[<<Home, s>>] = Tombstone
    BY <2>1
  <2>7. Grows
    BY <1>1, <2>3, <2>4, <2>5, <2>6 DEF Grows
  <2>8. VersionsFit' /\ Minted' = Minted
    BY <1>1 DEF ServerFits, VersionsFit, StampOf, Minted
  <2>9. ASSUME NEW x \in DOMAIN uploads' PROVE \E s \in Minted' : x = <<Home, s>> /\ TransferFits(s)'
    <3>1. CASE x = u
      <4>1. TransferFits(t)'
        BY <2>1 DEF TransferFits
      <4> QED BY <2>8, <3>1, <4>1
    <3>2. CASE x \in DOMAIN uploads
      <4>1. PICK s \in Minted : x = <<Home, s>> /\ TransferFits(s)
        BY <3>2, KeyOf
      <4>2. uploads'[x] = uploads[x]
        BY <2>1, <3>2
      <4>3. TransferFits(s)'
        BY <1>1, <4>1, <4>2 DEF TransferFits, HeadsNow, Heads
      <4> QED BY <2>8, <4>1, <4>3
    <3> QED BY <2>1, <3>1, <3>2
  <2> QED BY <1>1, <2>2, <2>7, <2>8, <2>9 DEF ServerFits
<1> QED BY <1>2, <1>3 DEF AbortUpload

\* finish_upload publishes a new version in place of its base.
LEMMA ServerFinishes ==
    ASSUME ServerFits, NEW t, NEW r \in Revision, FinishUpload(Home, t, r), UNCHANGED minted
    PROVE  ServerFits' /\ Grows
<1> DEFINE u == <<Home, t>>
           old == uploads[u]
           new == [old EXCEPT !.state = "committed", !.receipt = r]
           version == [project |-> Home, path |-> old.path, stamp |-> old.stamp, body |-> Body(u)]
<1>1. /\ u \in Receiving /\ r \notin DOMAIN versions
      /\ versions' = Put(versions, r, version)
      /\ heads' = (heads \ {<<Home, old.path, old.base>>}) \cup {<<Home, old.path, r>>}
      /\ uploads' = [uploads EXCEPT ![u] = new]
      /\ UNCHANGED <<projects, manifests>>
  BY DEF FinishUpload
<1>2. old \in TransferRow /\ TransferFits(t) /\ u \in DOMAIN uploads /\ old # Tombstone
  BY <1>1, ReceivingFits
<1>3. /\ DOMAIN versions' = DOMAIN versions \cup {r} /\ versions'[r] = version
      /\ \A x \in DOMAIN versions : versions'[x] = versions[x]
  BY <1>1 DEF Put
<1>4. version.stamp = old.stamp
  OBVIOUS
<1> HIDE DEF old, version
<1>5. old.path = File /\ old.stamp \in Edits
  BY <1>2 DEF TransferRow
<1>6. /\ new \in TransferRow /\ new.state = "committed" /\ new.stamp = old.stamp
      /\ new.base = old.base /\ new.offset = old.offset /\ new.receipt = r
  BY <1>2 DEF TransferRow
<1> HIDE DEF new
<1>7. Grows
  BY <1>1, <1>3, <1>6, RowChanges DEF old
<1>8. VersionsFit'
  <2>1. \A x \in DOMAIN versions' : StampOf(x)' \in Edits
    BY <1>3, <1>4, <1>5 DEF ServerFits, VersionsFit, StampOf
  <2>2. heads' \subseteq {<<Home, File, x>> : x \in DOMAIN versions'} /\ heads' # {}
    BY <1>1, <1>3, <1>5 DEF ServerFits, VersionsFit
  <2> QED BY <1>3, <2>1, <2>2 DEF ServerFits, VersionsFit
<1>9. HeadsNow' = (HeadsNow \ {old.base}) \cup {r}
  BY <1>1, <1>5 DEF HeadsNow, Heads
<1>10. uploads'[u] = new
  BY <1>1, <1>2
<1>11. TransferFits(t)'
  <2>1. old.offset <= old.stamp.size /\ old.base \in DOMAIN versions \cup {Null}
    BY <1>2 DEF TransferFits, old
  <2>2. r # old.base /\ old.base \notin HeadsNow'
    BY <1>1, <1>9, <2>1, NullIsNoRevision
  <2> QED BY <1>3, <1>6, <1>10, <2>1, <2>2 DEF TransferFits
<1> QED BY <1>1, <1>3, <1>7, <1>8, <1>9, <1>11, RowChangesFit

\* resolve_conflict keeps one of the heads.
LEMMA ServerResolves ==
    ASSUME ServerFits, NEW chosen \in HeadsNow, Resolve(Home, File, HeadsNow, chosen),
           UNCHANGED minted
    PROVE  ServerFits' /\ Grows
<1>1. /\ heads' = {h \in heads : h[1] = Home /\ h[2] = File => h[3] = chosen}
      /\ UNCHANGED <<projects, manifests, versions, uploads, chunks>>
  BY DEF Resolve
<1>2. Grows
  BY <1>1 DEF Grows, Closed, Committed, Receiving
<1>3. <<Home, File, chosen>> \in heads'
  BY <1>1 DEF HeadsNow, Heads
<1>4. VersionsFit' /\ Minted' = Minted
  BY <1>1, <1>3 DEF ServerFits, VersionsFit, StampOf, Minted
<1>5. HeadsNow' \subseteq HeadsNow
  BY <1>1 DEF HeadsNow, Heads
<1>6. \A t : TransferFits(t) => TransferFits(t)'
  BY <1>1, <1>5 DEF TransferFits
<1> QED BY <1>1, <1>2, <1>4, <1>6 DEF ServerFits

LEMMA CommittedFits ==
    ASSUME ServerFits, NEW t, Committed(t)
    PROVE  /\ Closed(t) /\ BaseOf(t) \in DOMAIN versions \cup {Null} /\ BaseOf(t) \notin HeadsNow
           /\ uploads[<<Home, t>>].receipt \in DOMAIN versions
           /\ uploads[<<Home, t>>].receipt # BaseOf(t)
<1>1. PICK s \in Minted : <<Home, t>> = <<Home, s>> /\ TransferFits(s)
  BY KeyOf DEF Committed
<1>2. uploads[<<Home, t>>] # Tombstone
  BY DEF Committed, Tombstone
<1> QED BY <1>1, <1>2 DEF Committed, Closed, Receiving, TransferFits, BaseOf

\* What a step of the server leaves of a transfer: its base, and all of it once it is closed.
LEMMA TransferStays ==
    ASSUME ServerFits, ServerFits', Grows, NEW t
    PROVE  /\ Closed(t) => /\ Closed(t)' /\ (Committed(t)' <=> Committed(t)) /\ BaseOf(t)' = BaseOf(t)
                           /\ uploads'[<<Home, t>>] = uploads[<<Home, t>>]
           /\ Committed(t)' => /\ BaseOf(t)' \in DOMAIN versions' \cup {Null}
                               /\ uploads'[<<Home, t>>].receipt \in DOMAIN versions'
           /\ Committed(t)' /\ ~Committed(t) =>
                uploads'[<<Home, t>>].receipt \notin DOMAIN versions \cup {Null}
<1>1. Closed(t) => /\ Closed(t)' /\ (Committed(t)' <=> Committed(t)) /\ BaseOf(t)' = BaseOf(t)
                   /\ uploads'[<<Home, t>>] = uploads[<<Home, t>>]
  BY DEF Grows, Closed, Committed, BaseOf
<1>2. ASSUME Committed(t)'
      PROVE  /\ BaseOf(t)' \in DOMAIN versions' \cup {Null}
             /\ uploads'[<<Home, t>>].receipt \in DOMAIN versions'
  <2>1. PICK s \in Minted' : <<Home, t>> = <<Home, s>> /\ TransferFits(s)'
    BY <1>2 DEF ServerFits, Committed
  <2>2. uploads'[<<Home, t>>] # Tombstone
    BY <1>2 DEF Committed, Tombstone
  <2> QED BY <1>2, <2>1, <2>2 DEF Committed, TransferFits, BaseOf
<1>3. DOMAIN versions' \subseteq Revision
  BY DEF ServerFits, VersionsFit
<1> QED BY <1>1, <1>2, <1>3, NullIsNoRevision DEF Grows

\* A step of the server leaves the checkpoints as they have to be.
LEMMA CheckpointStays ==
    ASSUME NEW d \in Client, CheckpointFits(d), ServerFits, ServerFits', Grows,
           base'[d] = base[d], pending'[d] = pending[d], minted'[d] = minted[d]
    PROVE  CheckpointFits(d)'
<1>1. base[d] \in DOMAIN versions' \cup {Null}
  BY DEF CheckpointFits, Grows
<1>2. ASSUME NEW row \in pending[d] PROVE RowFits(d, row)'
  <2>1. RowFits(d, row)
    BY <1>2 DEF CheckpointFits
  <2>2. base[d] # Null => StampOf(base[d])' = StampOf(base[d])
    BY DEF CheckpointFits, Grows, StampOf
  <2>3. ASSUME <<Home, row.transfer>> \in DOMAIN uploads'
        PROVE  \/ uploads'[<<Home, row.transfer>>] = Tombstone
               \/ /\ uploads'[<<Home, row.transfer>>].stamp = row.stamp
                  /\ uploads'[<<Home, row.transfer>>].base = row.base
    <3>1. CASE <<Home, row.transfer>> \in DOMAIN uploads
      BY <2>1, <3>1 DEF RowFits, Grows
    <3>2. CASE <<Home, row.transfer>> \notin DOMAIN uploads
      BY <1>2, <2>3, <3>2 DEF Grows
    <3> QED BY <3>1, <3>2
  <2> QED BY <2>1, <2>2, <2>3 DEF RowFits
<1>3. \A t : Held(d, t)' <=> Held(d, t)
  BY DEF Held
<1>4. \A t \in minted[d] : Held(d, t) \/ Closed(t)'
  BY TransferStays DEF CheckpointFits
<1>5. ASSUME NEW t \in minted[d], Committed(t)', ~Held(d, t)
      PROVE  /\ base[d] # BaseOf(t)' /\ BaseOf(t)' = BaseOf(t) /\ Committed(t)
             /\ \A row \in pending[d] : Committed(row.transfer)' =>
                     uploads'[<<Home, row.transfer>>].receipt # BaseOf(t)'
  <2>1. Closed(t)
    BY <1>5 DEF CheckpointFits
  <2>2. Committed(t) /\ BaseOf(t)' = BaseOf(t)
    BY <1>5, <2>1, TransferStays
  <2>3. BaseOf(t) \in DOMAIN versions \cup {Null}
    BY <2>2, CommittedFits
  <2>4. ASSUME NEW row \in pending[d], Committed(row.transfer)'
        PROVE  uploads'[<<Home, row.transfer>>].receipt # BaseOf(t)'
    <3>1. CASE Committed(row.transfer)
      <4>1. uploads'[<<Home, row.transfer>>] = uploads[<<Home, row.transfer>>]
        BY <3>1, CommittedFits, TransferStays
      <4> QED BY <1>5, <2>2, <2>4, <3>1, <4>1 DEF CheckpointFits
    <3>2. CASE ~Committed(row.transfer)
      BY <2>2, <2>3, <2>4, <3>2, TransferStays
    <3> QED BY <3>1, <3>2
  <2> QED BY <1>5, <2>2, <2>4 DEF CheckpointFits
<1>6. ASSUME NEW t \in minted[d], NEW s \in minted[d], t # s, Committed(t)', Committed(s)'
      PROVE  BaseOf(t)' # BaseOf(s)'
  <2>1. ASSUME NEW x \in minted[d], NEW y \in minted[d], x # y, Held(d, x),
               Committed(x)', Committed(y)'
        PROVE  BaseOf(x)' # BaseOf(y)'
    <3>1. ~Held(d, y)
      BY <2>1 DEF CheckpointFits, Held
    <3>2. base[d] # BaseOf(y)'
      BY <1>5, <2>1, <3>1
    <3>3. PICK row \in pending[d] : row.transfer = x
      BY <2>1 DEF Held
    <3>4. BaseOf(x)' = base[d]
      <4>1. uploads'[<<Home, x>>] # Tombstone /\ <<Home, x>> \in DOMAIN uploads'
        BY <2>1 DEF Committed, Tombstone
      <4> QED BY <1>2, <3>3, <4>1 DEF RowFits, BaseOf
    <3> QED BY <3>2, <3>4
  <2>2. CASE ~Held(d, t) /\ ~Held(d, s)
    BY <1>5, <1>6, <2>2 DEF CheckpointFits
  <2> QED BY <1>6, <2>1, <2>2
<1> QED BY <1>1, <1>2, <1>3, <1>4, <1>5, <1>6 DEF CheckpointFits

\* ... and what a pass relies on.
LEMMA PassStays ==
    ASSUME NEW d \in Client, NEW p, CheckpointFits(d), PassFits(d, p), ServerFits, ServerFits', Grows,
           base'[d] = base[d], pending'[d] = pending[d], minted'[d] = minted[d]
    PROVE  /\ p.view \subseteq DOMAIN versions'
           /\ p.at = "settle" => \A row \in pending'[d] : Closed(row.transfer)'
           /\ p.at = "reserve" /\ base'[d] # Null => p.seen # StampOf(base[d])'
           /\ Choosing(p) => \A t \in minted'[d] : Committed(t)' /\ ~Held(d, t)' => BaseOf(t)' \notin p.view
<1>1. p.view \subseteq DOMAIN versions'
  BY DEF PassFits, Grows
<1>2. \A row \in pending[d] : Closed(row.transfer) => Closed(row.transfer)'
  BY TransferStays
<1>3. base[d] # Null => StampOf(base[d])' = StampOf(base[d])
  BY DEF CheckpointFits, Grows, StampOf
<1>4. ASSUME NEW t \in minted[d], Committed(t)', ~Held(d, t)
      PROVE  Committed(t) /\ BaseOf(t)' = BaseOf(t)
  <2>1. Closed(t)
    BY <1>4 DEF CheckpointFits
  <2> QED BY <1>4, <2>1, TransferStays
<1>5. \A t : Held(d, t)' <=> Held(d, t)
  BY DEF Held
<1>6. Choosing(p) => \A t \in minted[d] : Committed(t)' /\ ~Held(d, t) => BaseOf(t)' \notin p.view
  BY <1>4 DEF PassFits
<1> QED BY <1>1, <1>2, <1>3, <1>5, <1>6 DEF PassFits

LEMMA PassStaysFit ==
    ASSUME NEW d \in Client, NEW p, CheckpointFits(d), PassFits(d, p), ServerFits, ServerFits', Grows,
           base'[d] = base[d], pending'[d] = pending[d], minted'[d] = minted[d], pass'[d] = p
    PROVE  PassFits(d, pass[d])'
BY PassStays DEF PassFits, Closing, HasHead, Choosing, Seeing

\* One replica and the server act; the other replicas are as before.
LEMMA OneActs ==
    ASSUME ClientIInv, NEW d \in Client, Shapes', ServerFits', Grows, LateFits', FilesFit', MintedFit',
           CheckpointFits(d)', PassFits(d, pass[d])',
           \A e \in Client : e # d => /\ base'[e] = base[e] /\ pending'[e] = pending[e]
                                      /\ minted'[e] = minted[e] /\ pass'[e] = pass[e]
    PROVE  ClientIInv'
<1>1. ASSUME NEW e \in Client PROVE CheckpointFits(e)' /\ PassFits(e, pass[e])'
  <2>1. CASE e = d
    BY <2>1
  <2>2. CASE e # d
    <3>1. CheckpointFits(e) /\ PassFits(e, pass[e]) /\ ServerFits
      BY DEF ClientIInv
    <3> QED BY <2>2, <3>1, CheckpointStays, PassStaysFit
  <2> QED BY <2>1, <2>2
<1> QED BY <1>1 DEF ClientIInv

\* What ClientIInv says of one replica.
LEMMA OfReplica ==
    ASSUME ClientIInv, NEW d \in Client
    PROVE  /\ CheckpointFits(d) /\ PassFits(d, pass[d]) /\ ServerFits
           /\ pass[d] \in PassRecord /\ pending[d] \subseteq PendingRow
           /\ disk[d] \in Edits \cup {Null} /\ pass[d].moved \in recovery[d] \cup {Null}
           /\ \A new : pass' = [pass EXCEPT ![d] = new] =>
                 pass'[d] = new /\ \A e \in Client : e # d => pass'[e] = pass[e]
BY DEF ClientIInv, Shapes, FilesFit

\* Only the pass of one replica moves, and perhaps the server.
LEMMA PassActs ==
    ASSUME ClientIInv, NEW d \in Client, NEW new \in PassRecord,
           pass' = [pass EXCEPT ![d] = new], UNCHANGED checkpoint,
           ServerFits', Grows, LateFits', FilesFit', PassFits(d, pass[d])'
    PROVE  ClientIInv'
<1>1. Shapes' /\ MintedFit'
  BY DEF ClientIInv, Shapes, MintedFit, checkpoint
<1>2. CheckpointFits(d)'
  BY CheckpointStays DEF ClientIInv, checkpoint
<1>3. \A e \in Client : e # d => /\ base'[e] = base[e] /\ pending'[e] = pending[e]
                                 /\ minted'[e] = minted[e] /\ pass'[e] = pass[e]
  BY DEF checkpoint
<1> QED BY <1>1, <1>2, <1>3, OneActs

\* A pass goes on with what it can rely on already.
LEMMA PassGoes ==
    ASSUME ClientIInv, NEW d \in Client, NEW new, PassFits(d, new),
           pass' = [pass EXCEPT ![d] = new], UNCHANGED checkpoint,
           ServerFits', Grows, LateFits', FilesFit'
    PROVE  ClientIInv'
<1>1. PassFits(d, pass[d])'
  BY OfReplica, PassStaysFit DEF checkpoint
<1> QED BY <1>1, PassActs DEF PassFits

LEMMA LateStays ==
    ASSUME LateFits, late' \subseteq late, UNCHANGED checkpoint
    PROVE  LateFits'
BY DEF LateFits, checkpoint, Minted

LEMMA FilesStay ==
    ASSUME ClientIInv, NEW d \in Client, NEW new, pass' = [pass EXCEPT ![d] = new],
           new.moved \in {pass[d].moved, Null}, UNCHANGED local
    PROVE  FilesFit'
<1>1. pass'[d] = new /\ \A e \in Client : e # d => pass'[e] = pass[e]
  BY OfReplica
<1> QED BY <1>1 DEF ClientIInv, FilesFit, local

LEMMA PassMoves ==
    ASSUME ClientIInv, NEW d \in Client, NEW new, PassFits(d, new),
           pass' = [pass EXCEPT ![d] = new], UNCHANGED <<checkpoint, local, late>>,
           new.moved \in {pass[d].moved, Null}, ServerFits', Grows
    PROVE  ClientIInv'
<1>1. LateFits'
  BY LateStays DEF ClientIInv
<1>2. FilesFit'
  BY FilesStay
<1> QED BY <1>1, <1>2, PassGoes

LEMMA IdleFits == Idle \in PassRecord /\ Idle.at = "idle" /\ Idle.moved = Null /\ Idle.view = {}
                  /\ ~Idle.remember
BY DEF Idle, PassRecord, Places

\* A pass ends, however it ends.
LEMMA PassEnds ==
    ASSUME ClientIInv, NEW d \in Client, Fail(d), UNCHANGED <<checkpoint, local>>,
           ServerFits', Grows, LateFits'
    PROVE  ClientIInv'
<1>1. pass' = [pass EXCEPT ![d] = Idle]
  BY DEF Fail
<1>2. PassFits(d, Idle)
  BY IdleFits DEF PassFits, Closing, HasHead, Choosing, Seeing
<1>3. FilesFit'
  BY <1>1, FilesStay, IdleFits
<1> QED BY <1>1, <1>2, <1>3, PassGoes

LEMMA ServerSame ==
    ASSUME ClientIInv, UNCHANGED <<server, minted>>
    PROVE  ServerFits' /\ Grows
<1>1. UNCHANGED <<versions, heads, uploads, projects>> /\ ServerFits /\ Minted' = Minted
  BY DEF server, vars, ClientIInv, Minted
<1>2. projects' \in [{Home} -> BOOLEAN]
  BY <1>1 DEF ServerFits
<1> QED BY <1>1, <1>2, ServerRests

\* A step of the pass alone.
LEMMA PassReads ==
    ASSUME ClientIInv, NEW d \in Client, NEW new, PassFits(d, new),
           pass' = [pass EXCEPT ![d] = new], UNCHANGED <<server, checkpoint, local, late>>,
           new.moved \in {pass[d].moved, Null}
    PROVE  ClientIInv'
BY ServerSame, PassMoves DEF checkpoint

\* The pending row, while there is one.
LEMMA RowIs ==
    ASSUME ClientIInv, NEW d \in Client, pending[d] # {}
    PROVE  /\ Row(d) \in pending[d] /\ pending[d] = {Row(d)} /\ Row(d) \in PendingRow
           /\ Row(d).transfer \in minted[d] /\ Row(d).transfer \in Minted
           /\ RowFits(d, Row(d)) /\ U(d) = <<Home, Row(d).transfer>>
           /\ \A t : Held(d, t) <=> t = Row(d).transfer
<1>1. CheckpointFits(d)
  BY OfReplica
<1>2. PICK row \in PendingRow : pending[d] = {row} /\ row.transfer \in minted[d]
  BY <1>1 DEF CheckpointFits
<1>3. Row(d) = row
  BY <1>2 DEF Row
<1> QED BY <1>1, <1>2, <1>3 DEF CheckpointFits, Held, Minted, U

(***************************************************************************)
(* The steps of a pass that only reads                                      *)
(***************************************************************************)

\* The pass with another place, and perhaps an issue to report.
LEMMA Moving ==
    ASSUME ClientIInv, NEW d \in Client, NEW place \in Places, Go(d, place) \/ Report(d, place)
    PROVE  \E new \in PassRecord :
              /\ pass' = [pass EXCEPT ![d] = new]
              /\ new.at = place /\ new.seen = pass[d].seen /\ new.view = pass[d].view
              /\ new.head = pass[d].head /\ new.moved = pass[d].moved
              /\ new.offset = pass[d].offset /\ new.begins = pass[d].begins
              /\ new.remember = pass[d].remember
<1>1. pass[d] \in PassRecord
  BY OfReplica
<1>2. CASE Go(d, place)
  <2> DEFINE new == [pass[d] EXCEPT !.at = place]
  <2>1. pass' = [pass EXCEPT ![d] = new]
    BY <1>2 DEF Go
  <2>2. /\ new \in PassRecord /\ new.at = place /\ new.seen = pass[d].seen /\ new.view = pass[d].view
        /\ new.head = pass[d].head /\ new.moved = pass[d].moved /\ new.offset = pass[d].offset
        /\ new.begins = pass[d].begins /\ new.remember = pass[d].remember
    BY <1>1 DEF PassRecord
  <2> HIDE DEF new
  <2> QED BY <2>1, <2>2
<1>3. CASE Report(d, place)
  <2> DEFINE new == [pass[d] EXCEPT !.at = place, !.issue = TRUE]
  <2>1. pass' = [pass EXCEPT ![d] = new]
    BY <1>1, <1>3 DEF Report, ClientIInv, Shapes
  <2>2. /\ new \in PassRecord /\ new.at = place /\ new.seen = pass[d].seen /\ new.view = pass[d].view
        /\ new.head = pass[d].head /\ new.moved = pass[d].moved /\ new.offset = pass[d].offset
        /\ new.begins = pass[d].begins /\ new.remember = pass[d].remember
    BY <1>1 DEF PassRecord
  <2> HIDE DEF new
  <2> QED BY <2>1, <2>2
<1> QED BY <1>2, <1>3

LEMMA DiscoverStep ==
    ASSUME ClientIInv, NEW d \in Client, Discover(d)
    PROVE  ClientIInv'
<1> DEFINE place == IF \A row \in pending[d] : row.stamp = disk[d] THEN "declare" ELSE "probe"
           new == [Idle EXCEPT !.seen = disk[d], !.at = place]
<1>1. pass' = [pass EXCEPT ![d] = new] /\ UNCHANGED <<server, checkpoint, local, late, bounds>>
  BY DEF Discover
<1>3. place = "declare" => \A row \in pending[d] : row.stamp = disk[d]
  OBVIOUS
<1>4. place = "probe" => pending[d] # {}
  OBVIOUS
<1>5. place \in {"declare", "probe"}
  OBVIOUS
<1> HIDE DEF place
<1>6. disk[d] \in Edits \cup {Null}
  BY OfReplica
<1>2. /\ new \in PassRecord /\ new.at = place /\ new.seen = disk[d] /\ new.moved = Null
      /\ new.view = {} /\ ~new.remember
  BY <1>6, <1>5, IdleFits DEF PassRecord, Places
<1> HIDE DEF new
<1>7. PassFits(d, new)
  BY <1>2, <1>3, <1>4, <1>5 DEF PassFits, Closing, HasHead, Choosing, Seeing
<1> QED BY <1>1, <1>2, <1>7, PassReads

LEMMA ProbeStep ==
    ASSUME ClientIInv, NEW d \in Client, Probe(d)
    PROVE  ClientIInv'
<1> DEFINE place == IF U(d) \in DOMAIN uploads \ Receiving THEN "settle" ELSE "abort"
           new == [pass[d] EXCEPT !.at = place]
<1>1. /\ pass' = [pass EXCEPT ![d] = new] /\ UNCHANGED <<server, checkpoint, local, late, bounds>>
      /\ pass[d].at = "probe"
  BY DEF Probe, Go, At
<1>2. place \in {"settle", "abort"} /\ (place = "settle" => U(d) \in DOMAIN uploads \ Receiving)
  OBVIOUS
<1> HIDE DEF place
<1>3. /\ new \in PassRecord /\ new.at = place /\ new.seen = pass[d].seen
      /\ new.moved = pass[d].moved /\ new.head = pass[d].head
      /\ new.view = pass[d].view /\ new.remember = pass[d].remember
  BY <1>2, OfReplica DEF PassRecord, Places
<1> HIDE DEF new
<1>4. PassFits(d, pass[d]) /\ pending[d] # {}
  BY <1>1, OfReplica DEF PassFits
<1>5. place = "settle" => \A row \in pending[d] : Closed(row.transfer)
  BY <1>2, <1>4, RowIs DEF Closed
<1>6. PassFits(d, new)
  BY <1>1, <1>2, <1>3, <1>4, <1>5 DEF PassFits, Closing, HasHead, Choosing, Seeing
<1> QED BY <1>1, <1>3, <1>6, PassReads

\* GET files knows a head whenever the replica has a base.
LEMMA HeadsAreVersions ==
    ASSUME ServerFits
    PROVE  /\ HeadsNow \subseteq DOMAIN versions /\ DOMAIN versions \subseteq Revision
           /\ DOMAIN versions # {} => HeadsNow # {}
BY DEF ServerFits, VersionsFit, HeadsNow, Heads

LEMMA ListStep ==
    ASSUME ClientIInv, NEW d \in Client, List(d)
    PROVE  ClientIInv'
<1> DEFINE place == IF \/ pass[d].seen = Null
                       \/ \E r \in HeadsNow : StampOf(r) = pass[d].seen
                       \/ pass[d].seen = BaseStamp(d) /\ HeadsNow # {}
                    THEN "collect" ELSE "reserve"
<1>1. At(d, "list") /\ Go(d, place) /\ UNCHANGED <<server, checkpoint, local, late, bounds>>
  BY DEF List
<1>2. place \in {"collect", "reserve"}
  OBVIOUS
<1>3. CheckpointFits(d) /\ PassFits(d, pass[d]) /\ ServerFits
  BY OfReplica
<1>4. place = "reserve" =>
         pass[d].seen # Null /\ (base[d] # Null => pass[d].seen # StampOf(base[d]))
  BY <1>3, HeadsAreVersions DEF CheckpointFits, BaseStamp
<1> HIDE DEF place
<1>5. place \in Places
  BY <1>2 DEF Places
<1>6. PICK new \in PassRecord :
              /\ pass' = [pass EXCEPT ![d] = new]
              /\ new.at = place /\ new.seen = pass[d].seen /\ new.view = pass[d].view
              /\ new.moved = pass[d].moved /\ new.remember = pass[d].remember
  BY <1>1, <1>5, Moving
<1>7. PassFits(d, new)
  BY <1>1, <1>2, <1>3, <1>4, <1>6 DEF PassFits, Closing, HasHead, Choosing, Seeing, At
<1> QED BY <1>1, <1>6, <1>7, PassReads

LEMMA CollectStep ==
    ASSUME ClientIInv, NEW d \in Client, Collect(d)
    PROVE  ClientIInv'
<1> DEFINE place == IF HeadsNow = {} THEN "redeclare" ELSE "apply"
           new == [pass[d] EXCEPT !.view = HeadsNow, !.at = place]
<1>1. /\ At(d, "collect") /\ UNCHANGED <<server, checkpoint, local, late, bounds>>
      /\ pass' = [pass EXCEPT ![d] = new]
  BY DEF Collect, ClientIInv, Shapes
<1>2. place \in {"redeclare", "apply"}
  OBVIOUS
<1> HIDE DEF place
<1>3. CheckpointFits(d) /\ PassFits(d, pass[d]) /\ ServerFits
  BY OfReplica
<1>4. HeadsNow \subseteq DOMAIN versions /\ HeadsNow \in SUBSET Revision
  BY <1>3, HeadsAreVersions
<1>5. pass[d] \in PassRecord
  BY OfReplica
<1>6. new \in PassRecord /\ new.at = place /\ new.seen = pass[d].seen /\ new.view = HeadsNow
      /\ new.moved = pass[d].moved /\ new.remember = pass[d].remember
  BY <1>2, <1>4, <1>5 DEF PassRecord, Places
<1> HIDE DEF new
<1>7. \A t \in minted[d] : Committed(t) => BaseOf(t) \notin HeadsNow
  BY <1>3, CommittedFits
<1>8. PassFits(d, new)
  BY <1>1, <1>2, <1>3, <1>4, <1>6, <1>7 DEF PassFits, Closing, HasHead, Choosing, Seeing, At
<1> QED BY <1>1, <1>6, <1>8, PassReads

LEMMA ApplyStep ==
    ASSUME ClientIInv, NEW d \in Client, Apply(d)
    PROVE  ClientIInv'
<1> DEFINE seen == pass[d].seen
           mine == {h \in pass[d].view : StampOf(h) = seen}
           only == Cardinality(pass[d].view) = 1
<1>1. At(d, "apply") /\ UNCHANGED <<server, checkpoint, local, late, bounds>>
  BY DEF Apply
<1>2. CheckpointFits(d) /\ PassFits(d, pass[d]) /\ ServerFits /\ pass[d] \in PassRecord
  BY OfReplica
<1>3. pass[d].view \subseteq DOMAIN versions /\ DOMAIN versions \subseteq Revision
      /\ ~pass[d].remember
  BY <1>1, <1>2, HeadsAreVersions DEF PassFits, At, Closing
<1>4. \A row \in pending[d] : row.stamp = seen /\ RowFits(d, row)
  BY <1>1, <1>2 DEF PassFits, CheckpointFits, Seeing, Choosing, At
<1>5. ASSUME NEW place \in {"redeclare", "copies"}, Go(d, place) \/ Report(d, place)
      PROVE  ClientIInv'
  <2>1. place \in Places
    BY DEF Places
  <2>2. PICK new \in PassRecord :
              /\ pass' = [pass EXCEPT ![d] = new] /\ new.at = place /\ new.view = pass[d].view
              /\ new.moved = pass[d].moved /\ new.remember = pass[d].remember
    BY <1>5, <2>1, Moving
  <2>3. PassFits(d, new)
    BY <1>3, <1>5, <2>2 DEF PassFits, Closing, HasHead, Choosing, Seeing
  <2> QED BY <1>1, <2>2, <2>3, PassReads
<1>6. ASSUME NEW h \in pass[d].view, NEW place \in {"settle", "probe", "install"},
             NEW flag \in BOOLEAN, NEW new,
             new = [pass[d] EXCEPT !.head = h, !.remember = flag, !.at = place],
             pass' = [pass EXCEPT ![d] = new],
             \A row \in pending[d] : h # row.base,
             place = "settle" => pending[d] = {}, place = "probe" => pending[d] # {},
             flag <=> place # "install"
      PROVE  ClientIInv'
  <2>1. place \in Places /\ h \in Revision \cup {Null}
    BY <1>3 DEF Places
  <2>2. new \in PassRecord /\ new.at = place /\ new.seen = seen /\ new.view = pass[d].view
        /\ new.head = h /\ new.moved = pass[d].moved /\ new.remember = flag
    BY <1>2, <1>6, <2>1 DEF PassRecord
  <2>3. Choosing(pass[d]) /\ Seeing(pass[d])
    BY <1>1 DEF Choosing, Seeing, At
  <2>4. PassFits(d, new)
    BY <1>2, <1>6, <2>2, <2>3 DEF PassFits, Closing, HasHead, Choosing, Seeing
  <2> QED BY <1>1, <1>6, <2>2, <2>4, PassReads
<1>7. CASE \E h \in mine : pass' = [pass EXCEPT ![d].head = h, ![d].remember = TRUE,
                                    ![d].at = IF pending[d] = {} THEN "settle" ELSE "probe"]
  <2> DEFINE place == IF pending[d] = {} THEN "settle" ELSE "probe"
  <2>1. PICK h \in mine : pass' = [pass EXCEPT ![d].head = h, ![d].remember = TRUE, ![d].at = place]
    BY <1>7
  <2> DEFINE new == [pass[d] EXCEPT !.head = h, !.remember = TRUE, !.at = place]
  <2>2. pass' = [pass EXCEPT ![d] = new]
    BY <2>1 DEF ClientIInv, Shapes
  <2>3. \A row \in pending[d] : h # row.base
    BY <1>3, <1>4, NullIsNoRevision DEF RowFits
  <2> QED BY <1>6, <2>2, <2>3
<1>8. CASE /\ seen \in {Null, BaseStamp(d)}
           /\ \E h \in pass[d].view : pass' = [pass EXCEPT ![d].head = h, ![d].at = "install"]
  <2>1. PICK h \in pass[d].view : pass' = [pass EXCEPT ![d].head = h, ![d].at = "install"]
    BY <1>8
  <2> DEFINE new == [pass[d] EXCEPT !.head = h, !.remember = FALSE, !.at = "install"]
  <2>2. [pass[d] EXCEPT !.head = h, !.at = "install"] = new
    BY <1>2, <1>3 DEF PassRecord
  <2>3. pass' = [pass EXCEPT ![d] = [pass[d] EXCEPT !.head = h, !.at = "install"]]
    BY <2>1 DEF ClientIInv, Shapes
  <2>4. pending[d] = {}
    BY <1>4, <1>8 DEF RowFits, BaseStamp
  <2> QED BY <1>6, <2>2, <2>3, <2>4
<1>9. \/ \E h \in mine : pass' = [pass EXCEPT ![d].head = h, ![d].remember = TRUE,
                                  ![d].at = IF pending[d] = {} THEN "settle" ELSE "probe"]
      \/ Report(d, IF only \/ disk[d] = Null THEN "redeclare" ELSE "copies")
      \/ /\ seen \in {Null, BaseStamp(d)}
         /\ \E h \in pass[d].view : pass' = [pass EXCEPT ![d].head = h, ![d].at = "install"]
      \/ Go(d, "copies")
  BY DEF Apply
<1>10. CASE Report(d, IF only \/ disk[d] = Null THEN "redeclare" ELSE "copies") \/ Go(d, "copies")
  <2>1. CASE Go(d, "copies")
    BY <1>5, <2>1
  <2>2. CASE Report(d, IF only \/ disk[d] = Null THEN "redeclare" ELSE "copies")
    <3>1. CASE only \/ disk[d] = Null
      BY <1>5, <2>2, <3>1
    <3>2. CASE ~(only \/ disk[d] = Null)
      BY <1>5, <2>2, <3>2
    <3> QED BY <3>1, <3>2
  <2> QED BY <1>10, <2>1, <2>2
<1> QED BY <1>7, <1>8, <1>9, <1>10

LEMMA InstallStep ==
    ASSUME ClientIInv, NEW d \in Client, Install(d)
    PROVE  ClientIInv'
<1> DEFINE place == IF disk[d] = pass[d].seen
                    THEN IF disk[d] = Null THEN "publish" ELSE "displace"
                    ELSE "redeclare"
<1>1. At(d, "install") /\ UNCHANGED <<server, checkpoint, local, late, bounds>>
      /\ (Go(d, place) \/ Report(d, place))
  BY DEF Install
<1>2. place \in {"publish", "displace", "redeclare"}
  OBVIOUS
<1> HIDE DEF place
<1>3. PassFits(d, pass[d]) /\ place \in Places
  BY <1>2, OfReplica DEF Places
<1>4. PICK new \in PassRecord :
              /\ pass' = [pass EXCEPT ![d] = new]
              /\ new.at = place /\ new.seen = pass[d].seen /\ new.view = pass[d].view
              /\ new.head = pass[d].head /\ new.moved = pass[d].moved
              /\ new.remember = pass[d].remember
  BY <1>1, <1>3, Moving
<1>5. PassFits(d, new)
  BY <1>1, <1>2, <1>3, <1>4 DEF PassFits, Closing, HasHead, Choosing, Seeing, At
<1> QED BY <1>1, <1>4, <1>5, PassReads

(***************************************************************************)
(* The steps that change the replica's files                                *)
(***************************************************************************)

LEMMA FilesMove ==
    ASSUME ClientIInv, NEW d \in Client, NEW new, PassFits(d, new),
           NEW file \in Edits \cup {Null}, NEW kept \in SUBSET Edits, recovery[d] \subseteq kept,
           pass' = [pass EXCEPT ![d] = new], new.moved \in kept \cup {Null},
           disk' = [disk EXCEPT ![d] = file], recovery' = [recovery EXCEPT ![d] = kept],
           UNCHANGED <<server, checkpoint, late>>
    PROVE  ClientIInv'
<1>1. pass'[d] = new /\ \A e \in Client : e # d => pass'[e] = pass[e]
  BY OfReplica
<1>2. FilesFit'
  BY <1>1 DEF ClientIInv, FilesFit
<1>3. LateFits'
  BY LateStays DEF ClientIInv
<1> QED BY <1>2, <1>3, ServerSame, PassGoes DEF checkpoint

LEMMA FilesAre ==
    ASSUME ClientIInv, NEW d \in Client
    PROVE  /\ disk = [disk EXCEPT ![d] = disk[d]] /\ recovery = [recovery EXCEPT ![d] = recovery[d]]
           /\ disk[d] \in Edits \cup {Null} /\ recovery[d] \in SUBSET Edits
           /\ pass[d].moved \in recovery[d] \cup {Null} /\ PassFits(d, pass[d]) /\ pass[d] \in PassRecord
           /\ \A r \in pass[d].view : StampOf(r) \in Edits
<1>1. PassFits(d, pass[d]) /\ pass[d] \in PassRecord /\ ServerFits
  BY OfReplica
<1> QED BY <1>1 DEF ClientIInv, FilesFit, PassFits, ServerFits, VersionsFit

LEMMA CopiesStep ==
    ASSUME ClientIInv, NEW d \in Client, Copies(d)
    PROVE  ClientIInv'
<1> DEFINE kept == recovery[d] \cup {StampOf(h) : h \in {h \in pass[d].view : StampOf(h) # pass[d].seen}}
<1>1. /\ At(d, "copies") /\ Report(d, "redeclare") /\ UNCHANGED <<server, checkpoint, disk, late, bounds>>
      /\ recovery' = [recovery EXCEPT ![d] = kept]
  BY DEF Copies
<1>2. kept \in SUBSET Edits /\ recovery[d] \subseteq kept
  BY FilesAre
<1> HIDE DEF kept
<1>3. PICK new \in PassRecord :
              /\ pass' = [pass EXCEPT ![d] = new] /\ new.at = "redeclare"
              /\ new.view = pass[d].view /\ new.moved = pass[d].moved
  BY <1>1, Moving DEF Places
<1>4. PassFits(d, new)
  BY <1>3, FilesAre DEF PassFits, Closing, HasHead, Choosing, Seeing
<1>5. new.moved \in kept \cup {Null} /\ disk' = [disk EXCEPT ![d] = disk[d]]
  BY <1>1, <1>2, <1>3, FilesAre
<1> QED BY <1>1, <1>2, <1>3, <1>4, <1>5, FilesAre, FilesMove

LEMMA DisplaceStep ==
    ASSUME ClientIInv, NEW d \in Client, Displace(d)
    PROVE  ClientIInv'
<1>1. At(d, "displace") /\ UNCHANGED <<server, checkpoint, late, bounds>>
  BY DEF Displace
<1>2. CASE Report(d, "redeclare") /\ UNCHANGED local
  <2>1. PICK new \in PassRecord :
              /\ pass' = [pass EXCEPT ![d] = new] /\ new.at = "redeclare"
              /\ new.view = pass[d].view /\ new.moved = pass[d].moved
    BY <1>2, Moving DEF Places
  <2>2. PassFits(d, new)
    BY <2>1, FilesAre DEF PassFits, Closing, HasHead, Choosing, Seeing
  <2> QED BY <1>1, <1>2, <2>1, <2>2, PassReads
<1>3. CASE /\ disk[d] # Null
           /\ recovery' = [recovery EXCEPT ![d] = @ \cup {disk[d]}]
           /\ disk' = [disk EXCEPT ![d] = Null]
           /\ pass' = [pass EXCEPT ![d].moved = disk[d], ![d].at = "publish"]
  <2> DEFINE new == [pass[d] EXCEPT !.moved = disk[d], !.at = "publish"]
  <2>1. pass' = [pass EXCEPT ![d] = new]
    BY <1>3 DEF ClientIInv, Shapes
  <2>2. PassFits(d, pass[d]) /\ pass[d] \in PassRecord /\ disk[d] \in Edits
    BY <1>3, FilesAre
  <2>3. new \in PassRecord /\ new.at = "publish" /\ new.view = pass[d].view /\ new.seen = pass[d].seen
        /\ new.head = pass[d].head /\ new.remember = pass[d].remember /\ new.moved = disk[d]
    BY <2>2 DEF PassRecord, Places
  <2> HIDE DEF new
  <2>4. PassFits(d, new)
    BY <1>1, <2>2, <2>3 DEF PassFits, Closing, HasHead, Choosing, Seeing, At
  <2>5. recovery[d] \cup {disk[d]} \in SUBSET Edits
    BY <2>2, FilesAre
  <2> QED BY <1>1, <1>3, <2>1, <2>3, <2>4, <2>5, FilesMove
<1> QED BY <1>2, <1>3 DEF Displace

LEMMA PublishStep ==
    ASSUME ClientIInv, NEW d \in Client, Publish(d)
    PROVE  ClientIInv'
<1>1. At(d, "publish") /\ UNCHANGED <<server, checkpoint, recovery, late, bounds>>
  BY DEF Publish
<1>2. CASE Report(d, "restore") /\ UNCHANGED disk
  <2>1. PICK new \in PassRecord :
              /\ pass' = [pass EXCEPT ![d] = new] /\ new.at = "restore" /\ new.seen = pass[d].seen
              /\ new.head = pass[d].head /\ new.remember = pass[d].remember
              /\ new.view = pass[d].view /\ new.moved = pass[d].moved
    BY <1>2, Moving DEF Places
  <2>2. PassFits(d, new)
    BY <1>1, <2>1, FilesAre DEF PassFits, Closing, HasHead, Choosing, Seeing, At
  <2> QED BY <1>1, <1>2, <2>1, <2>2, PassReads DEF local
<1>3. CASE /\ disk' = [disk EXCEPT ![d] = StampOf(pass[d].head)]
           /\ pass' = [pass EXCEPT ![d].remember = TRUE, ![d].at = "restore"]
  <2> DEFINE new == [pass[d] EXCEPT !.remember = TRUE, !.at = "restore"]
  <2>1. pass' = [pass EXCEPT ![d] = new]
    BY <1>3 DEF ClientIInv, Shapes
  <2>2. PassFits(d, pass[d]) /\ pass[d] \in PassRecord
    BY FilesAre
  <2>3. new \in PassRecord /\ new.at = "restore" /\ new.view = pass[d].view /\ new.seen = pass[d].seen
        /\ new.head = pass[d].head /\ new.remember = TRUE /\ new.moved = pass[d].moved
    BY <2>2 DEF PassRecord, Places
  <2> HIDE DEF new
  <2>4. PassFits(d, new) /\ pass[d].head \in pass[d].view
    BY <1>1, <2>2, <2>3 DEF PassFits, Closing, HasHead, Choosing, Seeing, At
  <2>5. StampOf(pass[d].head) \in Edits /\ recovery' = [recovery EXCEPT ![d] = recovery[d]]
    BY <1>1, <2>4, FilesAre
  <2>6. recovery[d] \in SUBSET Edits /\ new.moved \in recovery[d] \cup {Null}
    BY <2>3, FilesAre
  <2> QED BY <1>1, <1>3, <2>1, <2>4, <2>5, <2>6, FilesMove
<1> QED BY <1>2, <1>3 DEF Publish

LEMMA RestoreStep ==
    ASSUME ClientIInv, NEW d \in Client, Restore(d)
    PROVE  ClientIInv'
<1> DEFINE place == IF ~pass[d].remember THEN "redeclare"
                    ELSE IF pending[d] = {} THEN "settle" ELSE "probe"
           file == IF disk[d] = Null THEN pass[d].moved ELSE disk[d]
<1>1. /\ At(d, "restore") /\ UNCHANGED <<server, checkpoint, recovery, late, bounds>>
      /\ Go(d, place) /\ disk' = [disk EXCEPT ![d] = file]
  BY DEF Restore
<1>2. /\ place \in {"redeclare", "settle", "probe"} /\ (pass[d].remember <=> place # "redeclare")
      /\ place = "settle" => pending[d] = {}
      /\ place = "probe" => pending[d] # {}
  BY FilesAre DEF PassRecord
<1>3. file \in Edits \cup {Null}
  BY FilesAre
<1> HIDE DEF place, file
<1>4. place \in Places
  BY <1>2 DEF Places
<1>5. PICK new \in PassRecord :
              /\ pass' = [pass EXCEPT ![d] = new] /\ new.at = place /\ new.seen = pass[d].seen
              /\ new.head = pass[d].head /\ new.remember = pass[d].remember
              /\ new.view = pass[d].view /\ new.moved = pass[d].moved
  BY <1>1, <1>4, Moving
<1>6. PassFits(d, new)
  BY <1>1, <1>2, <1>5, FilesAre DEF PassFits, Closing, HasHead, Choosing, Seeing, At
<1>7. recovery' = [recovery EXCEPT ![d] = recovery[d]]
  BY <1>1, FilesAre
<1>8. recovery[d] \in SUBSET Edits /\ new.moved \in recovery[d] \cup {Null}
  BY <1>5, FilesAre
<1> QED BY <1>1, <1>3, <1>5, <1>6, <1>7, <1>8, FilesMove

(***************************************************************************)
(* The steps that only tell the server what there is, and the others        *)
(***************************************************************************)

LEMMA ManifestRests ==
    ASSUME ClientIInv, NEW d, NEW files, NEW issues, DeclareManifest(Home, d, files, issues),
           UNCHANGED minted
    PROVE  ServerFits' /\ Grows
<1>1. ServerFits /\ UNCHANGED <<versions, heads, uploads, projects>> /\ Minted' = Minted
  BY DEF DeclareManifest, ClientIInv, Minted
<1>2. projects' \in [{Home} -> BOOLEAN]
  BY <1>1 DEF ServerFits
<1> QED BY <1>1, <1>2, ServerRests

LEMMA DeclareStep ==
    ASSUME ClientIInv, NEW d \in Client, Declare(d)
    PROVE  ClientIInv'
<1>1. At(d, "declare") /\ UNCHANGED <<checkpoint, local, late, bounds>>
      /\ (Go(d, "list") \/ Fail(d))
      /\ DeclareManifest(Home, d, Inventoried(pass[d].seen), FALSE)
  BY DEF Declare
<1>2. ServerFits' /\ Grows
  BY <1>1, ManifestRests DEF checkpoint
<1>3. CASE Fail(d)
  BY <1>1, <1>2, <1>3, PassEnds, LateStays DEF ClientIInv
<1>4. CASE Go(d, "list")
  <2>1. PICK new \in PassRecord :
              /\ pass' = [pass EXCEPT ![d] = new] /\ new.at = "list" /\ new.seen = pass[d].seen
              /\ new.remember = pass[d].remember
              /\ new.view = pass[d].view /\ new.moved = pass[d].moved
    BY <1>4, Moving DEF Places
  <2>2. PassFits(d, new)
    BY <1>1, <2>1, OfReplica DEF PassFits, Closing, HasHead, Choosing, Seeing, At
  <2> QED BY <1>1, <1>2, <2>1, <2>2, PassMoves
<1> QED BY <1>1, <1>3, <1>4

LEMMA RedeclareStep ==
    ASSUME ClientIInv, NEW d \in Client, Redeclare(d)
    PROVE  ClientIInv'
<1>1. /\ UNCHANGED <<checkpoint, local, late, bounds>> /\ Fail(d)
      /\ DeclareManifest(Home, d, Inventoried(disk[d]), pass[d].issue)
  BY DEF Redeclare
<1>2. ServerFits' /\ Grows
  BY <1>1, ManifestRests DEF checkpoint
<1> QED BY <1>1, <1>2, PassEnds, LateStays DEF ClientIInv

\* After the abort, or after it found the transfer closed, there is terminal proof.
LEMMA CancelStep ==
    ASSUME ClientIInv, NEW d \in Client, Cancel(d)
    PROVE  ClientIInv'
<1>1. At(d, "abort") /\ Go(d, "settle") /\ UNCHANGED <<checkpoint, local, late, bounds>>
  BY DEF Cancel
<1>2. CheckpointFits(d) /\ PassFits(d, pass[d]) /\ ServerFits /\ UNCHANGED minted
  BY <1>1, OfReplica DEF checkpoint
<1>3. pending[d] # {}
  BY <1>1, <1>2 DEF PassFits, At
<1>4. PICK t \in Minted : /\ t = Row(d).transfer /\ U(d) = <<Home, t>>
                         /\ \A row \in pending[d] : row.transfer = t
  BY <1>3, RowIs
<1>5. ServerFits' /\ Grows /\ Closed(t)'
  <2>1. CASE AbortUpload(Home, t)
    BY <1>2, <1>4, <2>1, ServerAborts
  <2>2. CASE U(d) \in DOMAIN uploads \ Receiving /\ UNCHANGED server
    BY <1>2, <1>4, <2>2, ServerSame DEF Closed, Receiving, server, vars
  <2> QED BY <1>4, <2>1, <2>2 DEF Cancel
<1>6. PICK new \in PassRecord :
              /\ pass' = [pass EXCEPT ![d] = new] /\ new.at = "settle" /\ new.seen = pass[d].seen
              /\ new.head = pass[d].head /\ new.remember = pass[d].remember
              /\ new.view = pass[d].view /\ new.moved = pass[d].moved
  BY <1>1, Moving DEF Places
<1>7. \A row \in pending'[d] : Closed(row.transfer)'
  BY <1>1, <1>4, <1>5 DEF checkpoint
<1>8. /\ new.view \subseteq DOMAIN versions'
      /\ Choosing(new) => \A s \in minted'[d] : Committed(s)' /\ ~Held(d, s)' => BaseOf(s)' \notin new.view
  <2>1. /\ pass[d].view \subseteq DOMAIN versions'
        /\ Choosing(pass[d]) =>
             \A s \in minted'[d] : Committed(s)' /\ ~Held(d, s)' => BaseOf(s)' \notin pass[d].view
    BY <1>1, <1>2, <1>5, PassStays DEF checkpoint
  <2>2. Choosing(new) => Choosing(pass[d])
    BY <1>1, <1>6 DEF Choosing, HasHead, Closing, At
  <2> QED BY <1>6, <2>1, <2>2
<1>9. PassFits(d, new)'
  BY <1>1, <1>2, <1>3, <1>6, <1>7, <1>8
  DEF PassFits, Closing, HasHead, Choosing, Seeing, At, checkpoint
<1>10. pass'[d] = new
  BY <1>6, OfReplica
<1>11. LateFits' /\ FilesFit'
  BY <1>1, <1>6, LateStays, FilesStay DEF ClientIInv
<1> QED BY <1>1, <1>5, <1>6, <1>9, <1>10, <1>11, PassActs

LEMMA CrashStep ==
    ASSUME ClientIInv, NEW d \in Client, Crash(d)
    PROVE  ClientIInv'
<1>1. Fail(d) /\ UNCHANGED <<server, checkpoint, local, late>>
  BY DEF Crash
<1> QED BY <1>1, PassEnds, LateStays, ServerSame DEF ClientIInv, checkpoint

\* The passes and checkpoints rest; the server, the files or the network move.
LEMMA OthersMove ==
    ASSUME ClientIInv, UNCHANGED <<checkpoint, pass>>, ServerFits', Grows, LateFits', FilesFit'
    PROVE  ClientIInv'
<1>1. ASSUME NEW d \in Client PROVE CheckpointFits(d)' /\ PassFits(d, pass[d])'
  <2>1. CheckpointFits(d) /\ PassFits(d, pass[d]) /\ ServerFits
    BY DEF ClientIInv
  <2> QED BY <2>1, CheckpointStays, PassStaysFit DEF checkpoint
<1>2. Shapes' /\ MintedFit'
  BY DEF ClientIInv, Shapes, MintedFit, checkpoint
<1> QED BY <1>1, <1>2 DEF ClientIInv

LEMMA EditStep ==
    ASSUME ClientIInv, NEW d \in Client, NEW content \in Edits \cup {Null}, Edit(d, content)
    PROVE  ClientIInv'
<1>1. /\ disk' = [disk EXCEPT ![d] = content]
      /\ UNCHANGED <<server, checkpoint, recovery, pass, late>>
  BY DEF Edit
<1>2. FilesFit'
  BY <1>1 DEF ClientIInv, FilesFit
<1> QED BY <1>1, <1>2, OthersMove, LateStays, ServerSame DEF ClientIInv, checkpoint

LEMMA OperateStep ==
    ASSUME ClientIInv, Operate
    PROVE  ClientIInv'
<1>1. UNCHANGED <<checkpoint, local, pass, late>> /\ ServerFits /\ UNCHANGED minted
  BY DEF Operate, ClientIInv, checkpoint
<1>2. ServerFits' /\ Grows
  <2>1. CASE \E u \in Receiving : AbortUpload(u[1], u[2])
    <3>1. PICK u \in Receiving : AbortUpload(u[1], u[2])
      BY <2>1
    <3>2. PICK t \in Minted : u = <<Home, t>>
      BY <1>1, KeyOf DEF Receiving
    <3>3. AbortUpload(Home, t)
      BY <3>1, <3>2
    <3> QED BY <1>1, <3>3, ServerAborts
  <2>2. CASE \E chosen \in HeadsNow : Resolve(Home, File, HeadsNow, chosen)
    BY <1>1, <2>2, ServerResolves
  <2>3. CASE \E enabled \in BOOLEAN : SetOffline(Home, enabled)
    <3>1. UNCHANGED <<versions, heads, uploads>> /\ projects' \in [{Home} -> BOOLEAN]
          /\ Minted' = Minted
      BY <1>1, <2>3 DEF SetOffline, ServerFits, Minted
    <3> QED BY <1>1, <3>1, ServerRests
  <2> QED BY <2>1, <2>2, <2>3 DEF Operate
<1>3. LateFits' /\ FilesFit'
  BY <1>1, LateStays DEF ClientIInv, FilesFit, local
<1> QED BY <1>1, <1>2, <1>3, OthersMove

(***************************************************************************)
(* The steps that move a transfer                                           *)
(***************************************************************************)

\* A transfer is in the pending row of one replica at most.
LEMMA RowsDiffer ==
    ASSUME ClientIInv, NEW d \in Client, NEW e \in Client, NEW x \in pending[d], NEW y \in pending[e],
           x.transfer = y.transfer
    PROVE  d = e /\ x = y
<1>1. x = Row(d) /\ x.transfer \in minted[d] /\ y = Row(e) /\ y.transfer \in minted[e]
  BY RowIs
<1>2. d = e
  BY <1>1 DEF ClientIInv, MintedFit
<1> QED BY <1>1, <1>2

\* A block starts and ends within the file.
LEMMA BlockFits ==
    ASSUME ClientIInv, NEW d \in Client, At(d, "send")
    PROVE  /\ Len(NextBlock(d)) \in Nat
           /\ pass[d].offset + Len(NextBlock(d)) \in 0..Row(d).stamp.size
<1> DEFINE from == pass[d].offset
           size == Row(d).stamp.size
           text == Row(d).stamp.sha256
           upto == IF from + MaxChunk < size THEN from + MaxChunk ELSE size
<1>1. from \in Nat /\ pending[d] # {} /\ \A row \in pending[d] : from < row.stamp.size
  BY OfReplica DEF PassFits, At, PassRecord
<1>2. Row(d) \in pending[d] /\ Row(d).stamp \in Edits
  BY <1>1, RowIs DEF PendingRow
<1>3. size \in Nat /\ text \in Seq(Byte) /\ Len(text) = size /\ from < size
  BY <1>1, <1>2, EditsAreStamps
<1>4. upto \in Nat /\ from <= upto /\ upto <= size
  BY <1>1, <1>3, BoundsAssumption
<1>5. NextBlock(d) = SubSeq(text, from + 1, upto)
  BY DEF NextBlock
<1> HIDE DEF from, size, text, upto
<1>6. from + 1 \in 1..(Len(text) + 1) /\ upto \in ((from + 1) - 1)..Len(text)
  BY <1>1, <1>3, <1>4
<1>7. Len(SubSeq(text, from + 1, upto)) = upto - (from + 1) + 1
  BY <1>3, <1>6, SubSeqProperties
<1>8. Len(NextBlock(d)) \in Nat /\ from + Len(NextBlock(d)) \in 0..size
  BY <1>1, <1>3, <1>4, <1>5, <1>7
<1> QED BY <1>8 DEF from, size

LEMMA Continues ==
    ASSUME ClientIInv, NEW d \in Client, pass[d].at \in {"begin", "send"}, pending[d] # {},
           NEW offset \in 0..Row(d).stamp.size, Continue(d, offset),
           UNCHANGED <<checkpoint, local, late>>, ServerFits', Grows
    PROVE  ClientIInv'
<1> DEFINE place == IF offset = Row(d).stamp.size THEN "commit" ELSE "send"
           new == [pass[d] EXCEPT !.offset = offset, !.at = place]
<1>1. pass' = [pass EXCEPT ![d] = new]
  BY DEF Continue, ClientIInv, Shapes
<1>2. Row(d).stamp.size \in Nat /\ pending[d] = {Row(d)}
  BY RowIs, EditsAreStamps DEF PendingRow
<1>3. /\ place \in {"commit", "send"} /\ offset \in Nat
      /\ place = "send" => \A row \in pending[d] : offset < row.stamp.size
  BY <1>2
<1> HIDE DEF place
<1>4. PassFits(d, pass[d]) /\ pass[d] \in PassRecord
  BY OfReplica
<1>5. new \in PassRecord /\ new.at = place /\ new.offset = offset /\ new.seen = pass[d].seen
      /\ new.view = pass[d].view /\ new.moved = pass[d].moved /\ new.remember = pass[d].remember
  BY <1>3, <1>4 DEF PassRecord, Places
<1> HIDE DEF new
<1>6. PassFits(d, new)
  BY <1>3, <1>4, <1>5 DEF PassFits, Closing, HasHead, Choosing, Seeing
<1> QED BY <1>1, <1>5, <1>6, PassMoves

LEMMA SendStep ==
    ASSUME ClientIInv, NEW d \in Client, Send(d)
    PROVE  ClientIInv'
<1> DEFINE from == pass[d].offset
           data == NextBlock(d)
<1>1. At(d, "send") /\ UNCHANGED <<checkpoint, local, late, bounds>>
  BY DEF Send
<1>2. pending[d] # {} /\ ServerFits /\ UNCHANGED minted
  BY <1>1, OfReplica DEF PassFits, At, checkpoint
<1>3. Len(data) \in Nat /\ from + Len(data) \in 0..Row(d).stamp.size
  BY <1>1, BlockFits
<1>4. \/ AppendChunk(Home, Row(d).transfer, from, data) /\ Continue(d, from + Len(data))
      \/ Continue(d, from + Len(data)) /\ UNCHANGED server
      \/ Fail(d) /\ UNCHANGED server
  BY DEF Send, U
<1> HIDE DEF data
<1>5. ServerFits' /\ Grows
  BY <1>2, <1>3, <1>4, ServerAppends, ServerSame
<1>6. CASE Continue(d, from + Len(data))
  BY <1>1, <1>2, <1>3, <1>5, <1>6, Continues DEF At
<1>7. CASE Fail(d)
  BY <1>1, <1>5, <1>7, PassEnds, LateStays DEF ClientIInv
<1> QED BY <1>4, <1>6, <1>7

LEMMA CommitStep ==
    ASSUME ClientIInv, NEW d \in Client, Commit(d)
    PROVE  ClientIInv'
<1>1. At(d, "commit") /\ UNCHANGED <<checkpoint, local, late, bounds>>
      /\ (Go(d, "collect") \/ Fail(d))
  BY DEF Commit
<1>2. ServerFits /\ UNCHANGED minted
  BY <1>1, OfReplica DEF checkpoint
<1>3. ServerFits' /\ Grows
  <2>1. ASSUME NEW r \in FreshRevision, FinishUpload(Home, Row(d).transfer, r)
        PROVE  ServerFits' /\ Grows
    <3>1. r \in Revision
      BY <2>1 DEF FreshRevision, Least
    <3> QED BY <1>2, <2>1, <3>1, ServerFinishes
  <2>2. CASE UNCHANGED server
    BY <1>2, <2>2, ServerSame
  <2> QED BY <2>1, <2>2 DEF Commit
<1>4. CASE Fail(d)
  BY <1>1, <1>3, <1>4, PassEnds, LateStays DEF ClientIInv
<1>5. CASE Go(d, "collect")
  <2>1. PICK new \in PassRecord :
              /\ pass' = [pass EXCEPT ![d] = new] /\ new.at = "collect" /\ new.seen = pass[d].seen
              /\ new.remember = pass[d].remember
              /\ new.view = pass[d].view /\ new.moved = pass[d].moved
    BY <1>5, Moving DEF Places
  <2>2. PassFits(d, new)
    BY <1>1, <2>1, OfReplica DEF PassFits, Closing, HasHead, Choosing, Seeing, At
  <2> QED BY <1>1, <1>3, <2>1, <2>2, PassMoves
<1> QED BY <1>1, <1>4, <1>5

\* A request whose answer nobody awaits arrives, or never does.
LEMMA TimeOutStep ==
    ASSUME ClientIInv, NEW d \in Client, TimeOut(d)
    PROVE  ClientIInv'
<1>1. /\ pass[d].at \in {"abort", "begin", "send", "commit"} /\ Fail(d)
      /\ late' = late \cup {Request(d)} /\ UNCHANGED <<server, checkpoint, local>>
  BY DEF TimeOut
<1>2. pending[d] # {}
  BY <1>1, OfReplica DEF PassFits
<1>3. /\ Request(d).transfer = Row(d).transfer /\ Request(d).stamp = Row(d).stamp
      /\ Request(d).base = Row(d).base /\ Request(d).kind = pass[d].at
      /\ At(d, "send") => Request(d).data = NextBlock(d)
  BY DEF Request
<1> DEFINE q == Request(d)
<1> HIDE DEF q
<1>4. /\ q.transfer \in Minted /\ q.stamp \in Edits
      /\ q.kind = "send" => Len(q.data) \in Nat
      /\ \A e \in Client : \A row \in pending[e] :
            row.transfer = q.transfer => row.stamp = q.stamp /\ row.base = q.base
  <2>1. Row(d) \in pending[d] /\ Row(d) \in PendingRow /\ Row(d).transfer \in Minted
    BY <1>2, RowIs
  <2>2. q.kind = "send" => Len(q.data) \in Nat
    BY <1>3, BlockFits DEF q, At
  <2>3. \A e \in Client : \A row \in pending[e] : row.transfer = Row(d).transfer => row = Row(d)
    BY <2>1, RowsDiffer
  <2> QED BY <1>3, <2>1, <2>2, <2>3 DEF q, PendingRow
<1>5. LateFits'
  BY <1>1, <1>4 DEF ClientIInv, LateFits, checkpoint, Minted, q
<1>6. ServerFits' /\ Grows
  BY <1>1, ServerSame DEF checkpoint
<1> QED BY <1>1, <1>5, <1>6, PassEnds

LEMMA ArriveStep ==
    ASSUME ClientIInv, NEW q \in late, Arrive(q)
    PROVE  ClientIInv'
<1>1. UNCHANGED <<checkpoint, local, pass>> /\ late' = late \ {q} /\ ServerFits /\ UNCHANGED minted
  BY DEF Arrive, ClientIInv, checkpoint
<1>2. /\ q.transfer \in Minted /\ q.stamp \in Edits
      /\ q.kind = "send" => Len(q.data) \in Nat
      /\ \A e \in Client : \A row \in pending[e] :
            row.transfer = q.transfer => row.stamp = q.stamp /\ row.base = q.base
  BY DEF ClientIInv, LateFits
<1>3. ServerFits' /\ Grows
  <2>1. CASE AbortUpload(Home, q.transfer)
    BY <1>1, <1>2, <2>1, ServerAborts
  <2>2. CASE StartUpload(Home, q.transfer, File, q.stamp, q.base)
    BY <1>1, <1>2, <2>2, ServerStarts
  <2>3. CASE q.kind = "send" /\ AppendChunk(Home, q.transfer, q.from, q.data)
    BY <1>1, <1>2, <2>3, ServerAppends
  <2>4. ASSUME NEW r \in FreshRevision, FinishUpload(Home, q.transfer, r)
        PROVE  ServerFits' /\ Grows
    <3>1. r \in Revision
      BY <2>4 DEF FreshRevision, Least
    <3> QED BY <1>1, <2>4, <3>1, ServerFinishes
  <2>5. CASE UNCHANGED server
    BY <1>1, <2>5, ServerSame
  <2> QED BY <2>1, <2>2, <2>3, <2>4, <2>5 DEF Arrive
<1>4. LateFits' /\ FilesFit'
  BY <1>1, LateStays DEF ClientIInv, FilesFit, local
<1> QED BY <1>1, <1>3, <1>4, OthersMove

(***************************************************************************)
(* The steps that change the checkpoint                                     *)
(***************************************************************************)

\* A new transfer identifier is drawn for bytes to be put on top of the base; what was
\* pending before has been aborted.
LEMMA Draws ==
    ASSUME ClientIInv, NEW d \in Client, NEW t \in FreshTransfer, NEW x \in PendingRow,
           x.transfer = t, x.base = base[d], x.stamp # Null,
           base[d] # Null => x.stamp # StampOf(base[d]),
           \A row \in pending[d] : Closed(row.transfer) /\ ~Committed(row.transfer),
           minted' = [minted EXCEPT ![d] = @ \cup {t}], pending' = [pending EXCEPT ![d] = {x}],
           UNCHANGED <<server, base, local, late>>,
           NEW new \in PassRecord, pass' = [pass EXCEPT ![d] = new], new.at = "begin",
           new.moved = pass[d].moved, new.view = pass[d].view, ~new.remember, new.seen = x.stamp
    PROVE  ClientIInv'
<1>1. t \in Transfer /\ t \notin Minted
  BY DEF FreshTransfer, Least, Minted
<1>2. /\ minted'[d] = minted[d] \cup {t} /\ pending'[d] = {x} /\ pass'[d] = new
      /\ \A e \in Client : e # d => /\ base'[e] = base[e] /\ pending'[e] = pending[e]
                                    /\ minted'[e] = minted[e] /\ pass'[e] = pass[e]
  BY DEF ClientIInv, Shapes
<1>3. CheckpointFits(d) /\ PassFits(d, pass[d]) /\ ServerFits
  BY OfReplica
<1>4. <<Home, t>> \notin DOMAIN uploads
  BY <1>1, <1>3, KeyOf
<1>5. UNCHANGED <<versions, heads, uploads, projects, base>>
  BY DEF server, vars
<1>6. ServerFits' /\ Grows
  <2>1. Minted \subseteq Minted'
    <3>1. \A e \in Client : minted[e] \subseteq minted'[e]
      BY <1>2
    <3> QED BY <3>1 DEF Minted
  <2>2. projects' \in [{Home} -> BOOLEAN]
    BY <1>3, <1>5 DEF ServerFits
  <2> QED BY <1>3, <1>5, <2>1, <2>2, ServerRests
<1>7. \A s : (Committed(s)' <=> Committed(s)) /\ BaseOf(s)' = BaseOf(s) /\ (Closed(s)' <=> Closed(s))
             /\ (Held(d, s)' <=> s = t)
  BY <1>2, <1>5 DEF Committed, BaseOf, Closed, Held, Receiving
<1>8. ~Committed(t)
  BY <1>4 DEF Committed
<1>9. CheckpointFits(d)'
  <2>1. RowFits(d, x)'
    BY <1>4, <1>5 DEF RowFits, StampOf
  <2>2. \A s \in minted'[d] : Held(d, s)' \/ Closed(s)'
    BY <1>2, <1>3, <1>7 DEF CheckpointFits, Held
  <2>3. ASSUME NEW s \in minted'[d], Committed(s)' PROVE base[d] # BaseOf(s)' /\ s \in minted[d]
    BY <1>2, <1>3, <1>7, <1>8, <2>3 DEF CheckpointFits, Held
  <2>4. \A s, r \in minted'[d] : s # r /\ Committed(s)' /\ Committed(r)' => BaseOf(s)' # BaseOf(r)'
    BY <1>3, <1>7, <2>3 DEF CheckpointFits
  <2>5. base'[d] \in DOMAIN versions' \cup {Null} /\ minted'[d] \subseteq Transfer
    BY <1>1, <1>2, <1>3, <1>5 DEF CheckpointFits
  <2> QED BY <1>2, <1>5, <1>7, <1>8, <2>1, <2>2, <2>3, <2>4, <2>5 DEF CheckpointFits
<1>10. PassFits(d, pass[d])'
  BY <1>2, <1>3, <1>5 DEF PassFits, Closing, HasHead, Choosing, Seeing
<1>11. Shapes'
  BY <1>1, <1>5 DEF ClientIInv, Shapes
<1>12. MintedFit'
  BY <1>1, <1>2 DEF ClientIInv, MintedFit, Minted
<1>13. LateFits'
  <2>1. \A q \in late : q.transfer \in Minted /\ q.transfer \in Minted'
    <3>1. \A e \in Client : minted[e] \subseteq minted'[e]
      BY <1>2
    <3> QED BY <3>1 DEF ClientIInv, LateFits, Minted
  <2>2. \A q \in late : \A e \in Client : \A row \in pending'[e] :
            row.transfer = q.transfer => row.stamp = q.stamp /\ row.base = q.base
    BY <1>1, <1>2, <2>1 DEF ClientIInv, LateFits
  <2> QED BY <2>1, <2>2 DEF ClientIInv, LateFits
<1>14. FilesFit'
  BY FilesStay
<1> QED BY <1>2, <1>6, <1>9, <1>10, <1>11, <1>12, <1>13, <1>14, OneActs

LEMMA ReserveStep ==
    ASSUME ClientIInv, NEW d \in Client, Reserve(d)
    PROVE  ClientIInv'
<1>1. At(d, "reserve") /\ UNCHANGED <<server, local, late, bounds>>
  BY DEF Reserve
<1>2. CheckpointFits(d) /\ PassFits(d, pass[d]) /\ pass[d] \in PassRecord
  BY OfReplica
<1>3. ~pass[d].remember
  BY <1>1, <1>2 DEF PassFits, At, Closing
<1>4. CASE /\ Report(d, "collect") \/ (Go(d, "begin") /\ pending[d] # {})
           /\ UNCHANGED checkpoint
  <2>1. PICK new \in PassRecord :
              /\ pass' = [pass EXCEPT ![d] = new] /\ new.seen = pass[d].seen
              /\ new.at = "collect" \/ (new.at = "begin" /\ pending[d] # {})
              /\ new.remember = pass[d].remember
              /\ new.view = pass[d].view /\ new.moved = pass[d].moved
    BY <1>4, Moving DEF Places
  <2>2. PassFits(d, new)
    BY <1>1, <1>2, <1>3, <2>1 DEF PassFits, Closing, HasHead, Choosing, Seeing, At
  <2> QED BY <1>1, <1>4, <2>1, <2>2, PassReads
<1>5. CASE /\ disk[d] = pass[d].seen /\ pending[d] = {}
           /\ \E t \in FreshTransfer :
                 /\ minted' = [minted EXCEPT ![d] = @ \cup {t}]
                 /\ pending' = [pending EXCEPT ![d] =
                       {[stamp |-> disk[d], base |-> base[d], transfer |-> t]}]
           /\ Go(d, "begin")
           /\ UNCHANGED base
  <2>1. PICK t \in FreshTransfer :
                 /\ minted' = [minted EXCEPT ![d] = @ \cup {t}]
                 /\ pending' = [pending EXCEPT ![d] =
                       {[stamp |-> disk[d], base |-> base[d], transfer |-> t]}]
    BY <1>5
  <2> DEFINE x == [stamp |-> disk[d], base |-> base[d], transfer |-> t]
  <2>2. disk[d] \in Edits /\ disk[d] # Null /\ (base[d] # Null => disk[d] # StampOf(base[d]))
    BY <1>1, <1>2, <1>5, FilesAre DEF PassFits, At
  <2>3. t \in Transfer /\ base[d] \in Revision \cup {Null}
    BY DEF FreshTransfer, Least, ClientIInv, Shapes
  <2>4. x \in PendingRow /\ x.transfer = t /\ x.base = base[d] /\ x.stamp = disk[d]
    BY <2>2, <2>3 DEF PendingRow
  <2>5. pending' = [pending EXCEPT ![d] = {x}]
    BY <2>1
  <2> HIDE DEF x
  <2>6. PICK new \in PassRecord :
              /\ pass' = [pass EXCEPT ![d] = new] /\ new.seen = pass[d].seen /\ new.at = "begin"
              /\ new.remember = pass[d].remember
              /\ new.view = pass[d].view /\ new.moved = pass[d].moved
    BY <1>5, Moving DEF Places
  <2>7. /\ x.transfer = t /\ x.base = base[d] /\ x.stamp # Null
        /\ base[d] # Null => x.stamp # StampOf(base[d])
        /\ \A row \in pending[d] : Closed(row.transfer) /\ ~Committed(row.transfer)
        /\ UNCHANGED <<server, base, local, late>>
        /\ ~new.remember /\ new.seen = x.stamp
    BY <1>1, <1>3, <1>5, <2>2, <2>4, <2>6
  <2> QED BY <2>1, <2>4, <2>5, <2>6, <2>7, Draws
<1> QED BY <1>4, <1>5 DEF Reserve

LEMMA BeginStep ==
    ASSUME ClientIInv, NEW d \in Client, Begin(d)
    PROVE  ClientIInv'
<1> DEFINE t == Row(d).transfer
<1>1. At(d, "begin") /\ UNCHANGED <<local, late, bounds>>
  BY DEF Begin
<1>2. CheckpointFits(d) /\ PassFits(d, pass[d]) /\ pass[d] \in PassRecord /\ ServerFits
  BY OfReplica
<1>3. pending[d] # {} /\ ~pass[d].remember /\ Seeing(pass[d])
  BY <1>1, <1>2 DEF PassFits, At, Closing, Seeing
<1>4. /\ pending[d] = {Row(d)} /\ Row(d) \in PendingRow /\ t \in Minted /\ RowFits(d, Row(d))
      /\ U(d) = <<Home, t>> /\ Row(d).stamp = pass[d].seen
  BY <1>2, <1>3, RowIs DEF PassFits
<1>5. Row(d).stamp \in Edits /\ Row(d).stamp.size \in Nat
  BY <1>4, EditsAreStamps DEF PendingRow
<1>6. CASE /\ U(d) \in DOMAIN uploads /\ uploads[U(d)].state # "aborted"
           /\ Continue(d, uploads[U(d)].offset) /\ UNCHANGED <<server, checkpoint>>
  <2>1. PICK s \in Minted : <<Home, t>> = <<Home, s>> /\ TransferFits(s)
    BY <1>2, <1>4, <1>6, KeyOf
  <2>2. uploads[U(d)] # Tombstone /\ uploads[U(d)] \in TransferRow
    BY <1>4, <1>6, <2>1 DEF TransferFits, Tombstone
  <2>3. uploads[U(d)].offset \in 0..Row(d).stamp.size
    BY <1>4, <1>5, <1>6, <2>1, <2>2 DEF TransferFits, RowFits, TransferRow
  <2> QED BY <1>1, <1>3, <1>6, <2>3, Continues, ServerSame DEF At, checkpoint
<1>7. CASE /\ StartUpload(Home, t, File, Row(d).stamp, Row(d).base)
           /\ Continue(d, 0) /\ UNCHANGED checkpoint
  <2>1. \A e \in Client : \A row \in pending[e] :
           row.transfer = t => row.stamp = Row(d).stamp /\ row.base = Row(d).base
    BY <1>4, RowsDiffer
  <2>2. ServerFits' /\ Grows
    BY <1>2, <1>4, <1>5, <1>7, <2>1, ServerStarts DEF checkpoint
  <2>3. 0 \in 0..Row(d).stamp.size
    BY <1>5
  <2> QED BY <1>1, <1>3, <1>7, <2>2, <2>3, Continues DEF At
<1>8. CASE Fail(d) /\ UNCHANGED <<server, checkpoint>>
  BY <1>1, <1>8, PassEnds, LateStays, ServerSame DEF ClientIInv, checkpoint
<1>9. CASE Report(d, "collect") /\ UNCHANGED <<server, checkpoint>>
  <2>1. PICK new \in PassRecord :
              /\ pass' = [pass EXCEPT ![d] = new] /\ new.at = "collect" /\ new.seen = pass[d].seen
              /\ new.remember = pass[d].remember
              /\ new.view = pass[d].view /\ new.moved = pass[d].moved
    BY <1>9, Moving DEF Places
  <2>2. PassFits(d, new)
    BY <1>2, <1>3, <2>1 DEF PassFits, Closing, HasHead, Choosing, Seeing
  <2> QED BY <1>1, <1>9, <2>1, <2>2, PassReads
<1>10. CASE /\ U(d) \in DOMAIN uploads /\ uploads[U(d)].state = "aborted"
            /\ \E s \in FreshTransfer :
                  /\ minted' = [minted EXCEPT ![d] = @ \cup {s}]
                  /\ pending' = [pending EXCEPT ![d] = {[Row(d) EXCEPT !.transfer = s]}]
            /\ pass' = [pass EXCEPT ![d].begins = 1]
            /\ UNCHANGED <<server, base>>
  <2>1. PICK s \in FreshTransfer :
                  /\ minted' = [minted EXCEPT ![d] = @ \cup {s}]
                  /\ pending' = [pending EXCEPT ![d] = {[Row(d) EXCEPT !.transfer = s]}]
    BY <1>10
  <2> DEFINE x == [Row(d) EXCEPT !.transfer = s]
             new == [pass[d] EXCEPT !.begins = 1]
  <2>2. s \in Transfer
    BY DEF FreshTransfer, Least
  <2>3. x \in PendingRow /\ x.transfer = s /\ x.base = Row(d).base /\ x.stamp = Row(d).stamp
    BY <1>4, <2>2 DEF PendingRow
  <2>4. pending' = [pending EXCEPT ![d] = {x}]
    BY <2>1
  <2>5. pass' = [pass EXCEPT ![d] = new]
    BY <1>10
  <2>6. /\ new \in PassRecord /\ new.at = "begin" /\ new.moved = pass[d].moved
        /\ new.view = pass[d].view /\ ~new.remember /\ new.seen = pass[d].seen
    BY <1>1, <1>2, <1>3 DEF PassRecord, At
  <2> HIDE DEF x, new
  <2>7. \A row \in pending[d] : Closed(row.transfer) /\ ~Committed(row.transfer)
    BY <1>4, <1>10 DEF Closed, Committed, Receiving
  <2>8. /\ x.base = base[d] /\ x.stamp # Null /\ (base[d] # Null => x.stamp # StampOf(base[d]))
        /\ UNCHANGED <<server, base, local, late>> /\ new.seen = x.stamp
    BY <1>1, <1>4, <1>10, <2>3, <2>6 DEF RowFits
  <2> QED BY <2>1, <2>3, <2>4, <2>5, <2>6, <2>7, <2>8, Draws
<1> QED BY <1>6, <1>7, <1>8, <1>9, <1>10 DEF Begin

\* The base that takes the place of the pending row is none that a commit has replaced.
LEMMA SettleStep ==
    ASSUME ClientIInv, NEW d \in Client, Settle(d)
    PROVE  ClientIInv'
<1> DEFINE b == IF pass[d].remember THEN pass[d].head
                ELSE IF uploads[U(d)].state = "committed" THEN uploads[U(d)].receipt
                ELSE base[d]
           place == IF ~pass[d].remember THEN "declare"
                    ELSE IF Cardinality(pass[d].view) > 1 THEN "copies" ELSE "redeclare"
<1>1. /\ At(d, "settle") /\ UNCHANGED <<server, minted, local, late, bounds>>
      /\ base' = [base EXCEPT ![d] = b] /\ pending' = [pending EXCEPT ![d] = {}] /\ Go(d, place)
  BY DEF Settle
<1>2. CheckpointFits(d) /\ PassFits(d, pass[d]) /\ pass[d] \in PassRecord /\ ServerFits
  BY OfReplica
<1>3. /\ \A row \in pending[d] : Closed(row.transfer)
      /\ pending[d] = {} => pass[d].remember
  BY <1>1, <1>2 DEF PassFits, At
<1>4. pending[d] # {} => /\ pending[d] = {Row(d)} /\ U(d) = <<Home, Row(d).transfer>>
                         /\ RowFits(d, Row(d)) /\ \A t : Held(d, t) <=> t = Row(d).transfer
  BY RowIs
<1>5. pending[d] = {} => \A t : ~Held(d, t)
  BY DEF Held
<1>6. \A t : Committed(t) => uploads[<<Home, t>>] # Tombstone /\ <<Home, t>> \in DOMAIN uploads
  BY DEF Committed, Tombstone
<1>7. /\ b \in DOMAIN versions \cup {Null}
      /\ \A t \in minted[d] : Committed(t) => b # BaseOf(t)
  <2>1. CASE pass[d].remember
    <3>1. b = pass[d].head /\ HasHead(pass[d]) /\ Choosing(pass[d])
      BY <1>1, <2>1 DEF HasHead, Closing, Choosing, At
    <3>2. b \in pass[d].view /\ b \in DOMAIN versions /\ \A row \in pending[d] : b # row.base
      BY <1>2, <3>1 DEF PassFits
    <3>3. \A t \in minted[d] : Committed(t) /\ ~Held(d, t) => b # BaseOf(t)
      BY <1>2, <3>1, <3>2 DEF PassFits
    <3>4. \A t \in minted[d] : Committed(t) /\ Held(d, t) => b # BaseOf(t)
      BY <1>4, <1>5, <1>6, <3>2 DEF RowFits, BaseOf
    <3> QED BY <3>2, <3>3, <3>4
  <2>2. CASE ~pass[d].remember
    <3>1. pending[d] # {} /\ Closed(Row(d).transfer)
      BY <1>3, <1>4, <2>2
    <3>2. CASE uploads[U(d)].state = "committed"
      <4>1. b = uploads[<<Home, Row(d).transfer>>].receipt /\ Committed(Row(d).transfer)
        BY <1>4, <2>2, <3>1, <3>2 DEF Committed, Closed
      <4>2. b \in DOMAIN versions /\ b # BaseOf(Row(d).transfer)
        BY <1>2, <4>1, CommittedFits
      <4>3. \A t \in minted[d] : Committed(t) /\ ~Held(d, t) => b # BaseOf(t)
        BY <1>2, <1>4, <3>1, <4>1 DEF CheckpointFits
      <4> QED BY <1>4, <3>1, <4>2, <4>3
    <3>3. CASE uploads[U(d)].state # "committed"
      <4>1. b = base[d] /\ ~Committed(Row(d).transfer)
        BY <1>4, <2>2, <3>1, <3>3 DEF Committed
      <4> QED BY <1>2, <1>4, <3>1, <4>1 DEF CheckpointFits
    <3> QED BY <3>2, <3>3
  <2> QED BY <2>1, <2>2
<1>8. place \in {"declare", "copies", "redeclare"} /\ (pass[d].remember <=> place # "declare")
  BY <1>2 DEF PassRecord
<1> HIDE DEF b, place
<1>9. PICK new \in PassRecord :
              /\ pass' = [pass EXCEPT ![d] = new] /\ new.at = place
              /\ new.remember = pass[d].remember
              /\ new.view = pass[d].view /\ new.moved = pass[d].moved
  BY <1>1, <1>8, Moving DEF Places
<1>10. /\ base'[d] = b /\ pending'[d] = {} /\ pass'[d] = new
       /\ \A e \in Client : e # d => /\ base'[e] = base[e] /\ pending'[e] = pending[e]
                                     /\ minted'[e] = minted[e] /\ pass'[e] = pass[e]
  BY <1>1, <1>9 DEF ClientIInv, Shapes
<1>11. UNCHANGED <<versions, uploads, minted>>
  BY <1>1 DEF server, vars
<1>12. \A t : (Committed(t)' <=> Committed(t)) /\ BaseOf(t)' = BaseOf(t) /\ (Closed(t)' <=> Closed(t))
              /\ ~Held(d, t)'
  BY <1>10, <1>11 DEF Committed, BaseOf, Closed, Held, Receiving
<1>13. CheckpointFits(d)'
  <2>1. \A t \in minted[d] : Closed(t)
    BY <1>2, <1>3, <1>4, <1>5 DEF CheckpointFits
  <2> QED BY <1>2, <1>7, <1>10, <1>11, <1>12, <2>1 DEF CheckpointFits
<1>14. PassFits(d, pass[d])'
  BY <1>2, <1>8, <1>9, <1>10, <1>11 DEF PassFits, Closing, HasHead, Choosing, Seeing
<1>15. ServerFits' /\ Grows
  BY <1>1, ServerSame
<1>16. b \in Revision \cup {Null}
  BY <1>2, <1>7, HeadsAreVersions
<1>17. Shapes' /\ MintedFit'
  BY <1>1, <1>9, <1>16 DEF ClientIInv, Shapes, MintedFit
<1>18. LateFits'
  BY <1>1, <1>10 DEF ClientIInv, LateFits, Minted
<1>19. FilesFit'
  BY <1>1, <1>9, FilesStay
<1> QED BY <1>10, <1>13, <1>14, <1>15, <1>17, <1>18, <1>19, OneActs

(***************************************************************************)
(* The theorems                                                             *)
(***************************************************************************)

LEMMA ClientStarts == CInit => ClientIInv
<1> SUFFICES ASSUME CInit PROVE ClientIInv
  OBVIOUS
<1>1. pass = [d \in Client |-> Idle] /\ DOMAIN versions = {} /\ DOMAIN uploads = {} /\ heads = {}
  BY DEF CInit
<1>2. Shapes
  BY <1>1, IdleFits DEF CInit, Shapes
<1>3. ServerFits
  <2>1. projects \in [{Home} -> BOOLEAN]
    BY DEF CInit, Put
  <2> QED BY <1>1, <2>1 DEF ServerFits, VersionsFit
<1>4. LateFits /\ FilesFit /\ MintedFit
  BY <1>1, IdleFits DEF CInit, LateFits, FilesFit, MintedFit
<1>5. ASSUME NEW d \in Client PROVE CheckpointFits(d) /\ PassFits(d, pass[d])
  BY <1>1, IdleFits DEF CInit, CheckpointFits, PassFits, Closing, HasHead, Choosing, Seeing
<1> QED BY <1>2, <1>3, <1>4, <1>5 DEF ClientIInv

LEMMA ClientSteps == ClientIInv /\ [CNext]_cvars => ClientIInv'
<1> SUFFICES ASSUME ClientIInv, [CNext]_cvars PROVE ClientIInv'
  OBVIOUS
<1>1. ASSUME NEW d \in Client, Discover(d) \/ PassStep(d) \/ Crash(d) \/ TimeOut(d)
      PROVE  ClientIInv'
  BY <1>1, DiscoverStep, ProbeStep, CancelStep, SettleStep, DeclareStep, ListStep, ReserveStep,
     BeginStep, SendStep, CommitStep, CollectStep, ApplyStep, CopiesStep, InstallStep, DisplaceStep,
     PublishStep, RestoreStep, RedeclareStep, CrashStep, TimeOutStep DEF PassStep
<1>2. ASSUME NEW d \in Client, NEW content \in Edits \cup {Null}, Edit(d, content)
      PROVE  ClientIInv'
  BY <1>2, EditStep
<1>3. ASSUME NEW q \in late, Arrive(q) PROVE ClientIInv'
  BY <1>3, ArriveStep
<1>4. CASE Operate
  BY <1>4, OperateStep
<1>5. CASE UNCHANGED cvars
  BY <1>5, OthersMove, LateStays, ServerSame DEF cvars, ClientIInv, FilesFit, local, checkpoint
<1> QED BY <1>1, <1>2, <1>3, <1>4, <1>5 DEF CNext

LEMMA ClientHolds == CSpec => []ClientIInv
BY ClientStarts, ClientSteps, PTL DEF CSpec

LEMMA ClientFollows == ClientIInv => ClientInv
<1> SUFFICES ASSUME ClientIInv PROVE ClientInv
  OBVIOUS
<1>1. ClientTypeOK
  <2>1. ASSUME NEW d \in Client
        PROVE  /\ pending[d] \subseteq [stamp : Edits, base : Revision \cup {Null}, transfer : minted[d]]
               /\ Cardinality(pending[d]) <= 1
               /\ pass[d].seen \in Edits \cup {Null} /\ pass[d].view \subseteq DOMAIN versions
               /\ pass[d].moved \in recovery[d] \cup {Null}
    <3>1. CASE pending[d] = {}
      BY <3>1, OfReplica, FS_EmptySet DEF PassFits, PassRecord
    <3>2. CASE pending[d] # {}
      <4>1. pending[d] = {Row(d)} /\ Row(d) \in PendingRow /\ Row(d).transfer \in minted[d]
        BY <3>2, RowIs
      <4>2. Cardinality({Row(d)}) = 1
        BY FS_Singleton
      <4>3. Row(d) \in [stamp : Edits, base : Revision \cup {Null}, transfer : minted[d]]
        BY <4>1 DEF PendingRow
      <4> QED BY <4>1, <4>2, <4>3, OfReplica DEF PassFits, PassRecord
    <3> QED BY <3>1, <3>2
  <2> QED BY <2>1 DEF ClientTypeOK, ClientIInv, Shapes, FilesFit, MintedFit
<1>2. PendingContinuesBase
  BY DEF ClientIInv, CheckpointFits, RowFits, PendingContinuesBase
<1>3. NoChangePublishedTwice
  BY DEF ClientIInv, CheckpointFits, Committed, BaseOf, NoChangePublishedTwice
<1>4. NoOrphanReservation
  <2> SUFFICES ASSUME NEW u \in Receiving
               PROVE  \E d \in Client : \E row \in pending[d] : u = <<Home, row.transfer>>
    BY DEF NoOrphanReservation
  <2>1. PICK t \in Minted : u = <<Home, t>>
    BY KeyOf DEF ClientIInv, Receiving
  <2>2. PICK d \in Client : t \in minted[d]
    BY DEF Minted
  <2>3. ~Closed(t)
    BY <2>1 DEF Closed
  <2>4. Held(d, t)
    BY <2>2, <2>3, OfReplica DEF CheckpointFits
  <2> QED BY <2>1, <2>4 DEF Held
<1> QED BY <1>1, <1>2, <1>3, <1>4 DEF ClientInv

\* What a replica remembers of its transfers is what the server has of them, however
\* passes, deaths, late requests and owners interleave: a pending transfer continues
\* the base, no change is published twice, and no reservation is left behind.
THEOREM ReplicasKeepTheirTransfers == CSpec => []ClientInv
BY ClientHolds, ClientFollows, PTL

\* No step of a pass destroys bytes of the owner: what Displace takes away from the
\* name is in the recovery directory, and Publish and Restore only use a free name.
THEOREM NothingIsDestroyed == CSpec => NothingDestroyed
<1> DEFINE A == \A d \in Client :
                   (disk'[d] # disk[d] /\ edits'[d] = edits[d] /\ disk[d] # Null)
                      => disk[d] \in recovery'[d]
<1>1. ASSUME ClientIInv, [CNext]_cvars, edits \in [Client -> Nat] PROVE [A]_cvars
  <2> SUFFICES ASSUME NEW d \in Client, disk'[d] # disk[d], edits'[d] = edits[d], disk[d] # Null
               PROVE  disk[d] \in recovery'[d]
    OBVIOUS
  <2>1. disk \in [Client -> Edits \cup {Null}] /\ recovery \in [Client -> SUBSET Edits]
    BY <1>1 DEF ClientIInv, FilesFit
  <2>2. ASSUME NEW e \in Client, Displace(e) PROVE disk[d] \in recovery'[d]
    BY <2>1, <2>2 DEF Displace, local
  <2>3. ASSUME NEW e \in Client, Publish(e) \/ Restore(e) PROVE FALSE
    BY <2>1, <2>3 DEF Publish, Restore
  <2>4. ASSUME NEW e \in Client, NEW content \in Edits \cup {Null}, Edit(e, content) PROVE FALSE
    BY <1>1, <2>1, <2>4 DEF Edit
  <2>5. ASSUME NEW e \in Client, Discover(e) \/ Crash(e) \/ TimeOut(e) PROVE disk' = disk
    BY <2>5 DEF Discover, Crash, TimeOut, local
  <2>6. ASSUME NEW e \in Client, Probe(e) \/ Cancel(e) \/ Settle(e) \/ Declare(e) \/ List(e)
               \/ Reserve(e) \/ Begin(e) \/ Send(e) \/ Commit(e) \/ Collect(e)
        PROVE  disk' = disk
    BY <2>6 DEF Probe, Cancel, Settle, Declare, List, Reserve, Begin, Send, Commit, Collect, local
  <2>7. ASSUME NEW e \in Client, Apply(e) \/ Copies(e) \/ Install(e) \/ Redeclare(e)
        PROVE  disk' = disk
    BY <2>7 DEF Apply, Copies, Install, Redeclare, local
  <2>8. ASSUME NEW q \in late, Arrive(q) PROVE disk' = disk
    BY <2>8 DEF Arrive, local
  <2>9. Operate => disk' = disk
    BY DEF Operate, local
  <2>10. UNCHANGED cvars => disk' = disk
    BY DEF cvars, local
  <2> QED BY <1>1, <2>2, <2>3, <2>4, <2>5, <2>6, <2>7, <2>8, <2>9, <2>10 DEF CNext, PassStep
<1> DEFINE Counted == edits \in [Client -> Nat]
<1>2. CInit => Counted
  BY DEF CInit
<1>3. Counted /\ [CNext]_cvars => Counted'
  <2> SUFFICES ASSUME Counted, [CNext]_cvars PROVE Counted'
    OBVIOUS
  <2>1. ASSUME NEW e \in Client, Discover(e) \/ Crash(e) \/ TimeOut(e) PROVE edits' = edits
    BY <2>1 DEF Discover, Crash, TimeOut, bounds
  <2>2. ASSUME NEW e \in Client, PassStep(e) PROVE edits' = edits
    BY <2>2 DEF PassStep, Probe, Cancel, Settle, Declare, List, Reserve, Begin, Send, Commit,
       Collect, Apply, Copies, Install, Displace, Publish, Restore, Redeclare, bounds
  <2>3. ASSUME NEW e \in Client, NEW content \in Edits \cup {Null}, Edit(e, content) PROVE Counted'
    BY <2>3 DEF Edit
  <2>4. ASSUME NEW q \in late, Arrive(q) PROVE edits' = edits
    BY <2>4 DEF Arrive, bounds
  <2>5. Operate \/ UNCHANGED cvars => edits' = edits
    BY DEF Operate, cvars, bounds
  <2> QED BY <2>1, <2>2, <2>3, <2>4, <2>5 DEF CNext
<1>4. CSpec => []Counted
  BY <1>2, <1>3, PTL DEF CSpec
<1>5. CSpec => [][A]_cvars
  BY <1>1, <1>4, ClientHolds, PTL DEF CSpec
<1> QED BY <1>5 DEF NothingDestroyed
====
