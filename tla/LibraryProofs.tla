---------------------------- MODULE LibraryProofs -----------------------------
(* Theorems about the content search of a workspace, and about a library: its   *)
(* index, the transfers a server receives into it and the folders imported into  *)
(* it; for any number of threads, records, builders, transfers and contents and  *)
(* every bound.                                                                  *)
EXTENDS SearchIndex, LibraryIndex, LibraryUploads, LibraryRefresh,
        SequenceTheorems, FiniteSetTheorems, TLAPS

-----------------------------------------------------------------------------
(* The content search: the inductive invariant *)

ConfigFields(n) ==
    [enabled : BOOLEAN, status : Statuses, epoch : 0 .. n, indexed : 0 .. n,
     build : 0 .. n, after : 0 .. ThreadRows, skipped : BOOLEAN]

\* A search that is on has an epoch, and an index that is cleaned has passed no thread.
Configs(n) ==
    {c \in ConfigFields(n) :
        (c.enabled => c.epoch > 0) /\ (c.status = "cleaning" => c.after = 0)}

SearchTypes ==
    /\ threadRow \in [Row -> [state : {"none", "live", "trashed", "gone"}, edition : Nat]]
    /\ rows \in [Row -> Nat]
    /\ \A t \in Row : rows[t] <= threadRow[t].edition
    /\ searchCount \in [writes : 0 .. MaxWrites, faults : Int]
    /\ config \in Configs(searchCount.writes)
    /\ markers \subseteq 1 .. searchCount.writes
    /\ rebuilder \in [Rebuilder -> Configs(searchCount.writes) \cup {NotReading}]
    /\ \A r \in Rebuilder : rebuilder[r] # NotReading => rebuilder[r].enabled
    /\ wanted \in BOOLEAN
    /\ overrun \subseteq {"index", "switch"}

\* The index has thread t as it is, in the trash or not.
Matches(t) == rows[t] = IF Exists(t) THEN threadRow[t].edition ELSE 0

\* While nothing has changed since a build began, what it has passed matches, and
\* nothing else is in the index; a published index matches.
BuildIsExact ==
    (config.enabled /\ "index" \notin overrun) =>
        /\ Published => \A t \in Row : Matches(t)
        /\ (config.status = "building" /\ config.epoch = config.build /\ ~config.skipped) =>
             \A t \in Row : IF t <= config.after THEN Matches(t) ELSE rows[t] = 0

SearchIInv == SearchTypes /\ BuildIsExact /\ SwitchIsKept

-----------------------------------------------------------------------------
(* The content search: every step keeps it *)

LEMMA ConfigsGrow ==
    ASSUME NEW n \in Nat, NEW k \in Nat, n <= k PROVE Configs(n) \subseteq Configs(k)
BY DEF Configs, ConfigFields

LEMMA FieldsGrow ==
    ASSUME NEW n \in Nat, NEW c \in ConfigFields(n) PROVE c \in ConfigFields(n + 1)
BY DEF ConfigFields

LEMMA BuildOfConfig ==
    ASSUME NEW n \in Nat, NEW c \in ConfigFields(n)
    PROVE  LET new == [c EXCEPT !.status = "cleaning", !.build = c.epoch, !.after = 0,
                                !.skipped = FALSE]
           IN  /\ new \in ConfigFields(n)
               /\ new.enabled = c.enabled /\ new.epoch = c.epoch /\ new.status = "cleaning"
               /\ new.after = 0
<1> DEFINE new1 == [c EXCEPT !.status = "cleaning"]
           new2 == [new1 EXCEPT !.build = c.epoch]
           new3 == [new2 EXCEPT !.after = 0]
           new == [c EXCEPT !.status = "cleaning", !.build = c.epoch, !.after = 0,
                            !.skipped = FALSE]
<1>1. new1 \in ConfigFields(n) /\ new1.enabled = c.enabled /\ new1.epoch = c.epoch
      /\ new1.status = "cleaning"
  BY DEF ConfigFields, Statuses
<1>2. c.epoch \in 0 .. n
  BY DEF ConfigFields
<1>3. new = [new3 EXCEPT !.skipped = FALSE]
  OBVIOUS
<1> HIDE DEF new1
<1>4. new2 \in ConfigFields(n) /\ new2.enabled = c.enabled /\ new2.epoch = c.epoch
      /\ new2.status = "cleaning"
  BY <1>1, <1>2 DEF ConfigFields
<1> HIDE DEF new2
<1>5. new3 \in ConfigFields(n) /\ new3.enabled = c.enabled /\ new3.epoch = c.epoch
      /\ new3.status = "cleaning" /\ new3.after = 0
  BY <1>4, SearchAssumption DEF ConfigFields
<1> HIDE DEF new3, new
<1>6. new \in ConfigFields(n) /\ new.enabled = c.enabled /\ new.epoch = c.epoch
      /\ new.status = "cleaning" /\ new.after = 0
  BY <1>3, <1>5 DEF ConfigFields
<1> QED BY <1>6 DEF new

\* What a save does to the index and its configuration (changed), in all its branches.
LEMMA ChangedEffect ==
    ASSUME SearchTypes, NEW t \in Row, NEW e \in Nat, Changed(t, e)
    PROVE  /\ searchCount' \in [writes : 0 .. MaxWrites, faults : Int]
           /\ searchCount'.writes = searchCount.writes + 1
           /\ config' \in Configs(searchCount'.writes) /\ config'.enabled = config.enabled
           /\ markers' \subseteq 1 .. searchCount'.writes
           /\ rows' = rows \/ rows' = [rows EXCEPT ![t] = e]
           /\ config.enabled => /\ Published' => Published /\ rows' = [rows EXCEPT ![t] = e]
                                /\ ~(config'.status = "building" /\ config'.epoch = config'.build)
<1> DEFINE n == searchCount.writes
<1>1. n \in Nat /\ n \in 0 .. MaxWrites /\ config \in Configs(n) /\ markers \subseteq 1 .. n
  BY SearchAssumption DEF SearchTypes
<1>2. /\ searchCount' \in [writes : 0 .. MaxWrites, faults : Int]
      /\ searchCount'.writes = n + 1
  BY SearchAssumption DEF Changed, Write, SearchTypes
<1>3. /\ Dirty \in Configs(n + 1) /\ Dirty.enabled = config.enabled
      /\ Dirty.epoch = n + 1 /\ Dirty.indexed = config.indexed /\ Dirty.build = config.build
      /\ Dirty.status = IF config.status = "ready" /\ config.epoch = config.indexed
                        THEN "stale" ELSE config.status
  <2> DEFINE status == IF config.status = "ready" /\ config.epoch = config.indexed
                       THEN "stale" ELSE config.status
             k == n + 1
  <2>1. config \in ConfigFields(n) /\ (config.status = "cleaning" => config.after = 0)
    BY <1>1 DEF Configs
  <2>2. status \in Statuses /\ (status = "cleaning" => config.status = "cleaning")
    BY <2>1 DEF ConfigFields, Statuses
  <2>3. Dirty = [config EXCEPT !.epoch = k, !.status = status]
    BY DEF Dirty, Epoch
  <2>4. k \in Nat /\ k > 0 /\ k \in 0 .. k /\ config \in ConfigFields(k)
    BY <1>1, <2>1, FieldsGrow
  <2> HIDE DEF k, n
  <2>5. Dirty \in ConfigFields(k) /\ Dirty.epoch = k /\ Dirty.status = status
        /\ Dirty.enabled = config.enabled /\ Dirty.after = config.after
        /\ Dirty.indexed = config.indexed /\ Dirty.build = config.build
    <3> HIDE DEF status
    <3> DEFINE new == [config EXCEPT !.epoch = k, !.status = status]
    <3>1. /\ new \in ConfigFields(k) /\ new.epoch = k /\ new.status = status
          /\ new.enabled = config.enabled /\ new.indexed = config.indexed
          /\ new.build = config.build /\ new.after = config.after
      BY <2>2, <2>4 DEF ConfigFields
    <3>2. Dirty = new
      BY <2>3
    <3> HIDE DEF new
    <3> QED BY <3>1, <3>2
  <2>6. Dirty \in Configs(k)
    <3> HIDE DEF status
    <3> QED BY <2>1, <2>2, <2>4, <2>5 DEF Configs
  <2> QED BY <2>5, <2>6 DEF k, n
<1>4. config.indexed <= n /\ config.build <= n
  BY <1>1 DEF Configs, ConfigFields
<1>5. Unmarked \subseteq 1 .. n
  BY <1>1 DEF Unmarked
<1>6. CASE config.enabled /\ Updated(t, e)
  <2>1. CASE Published
    <3> DEFINE new == [Dirty EXCEPT !.status = "ready", !.indexed = Epoch]
    <3>1. /\ new \in Configs(n + 1) /\ new.enabled = config.enabled /\ new.status = "ready"
      BY <1>1, <1>3 DEF Configs, ConfigFields, Statuses, Epoch
    <3>2. config' = new /\ markers' = Unmarked \cup {Epoch} /\ rows' = [rows EXCEPT ![t] = e]
      BY <1>6, <2>1 DEF Updated
    <3> HIDE DEF new
    <3>3. Epoch = n + 1
      BY DEF Epoch
    <3>4. markers' \subseteq 1 .. n + 1
      <4>1. 1 .. n \subseteq 1 .. n + 1 /\ n + 1 \in 1 .. n + 1
        BY <1>1
      <4> QED BY <1>5, <3>2, <3>3, <4>1
    <3>5. ~(config'.status = "building")
      BY <3>1, <3>2
    <3>6. searchCount'.writes = n + 1 /\ searchCount' \in [writes : 0 .. MaxWrites, faults : Int]
      BY <1>2
    <3>7. config' \in Configs(n + 1) /\ config'.enabled = config.enabled
      BY <3>1, <3>2
    <3> QED BY ONLY <2>1, <3>2, <3>4, <3>5, <3>6, <3>7
  <2>2. CASE ~Published
    <3>1. config' = Dirty /\ markers' = markers /\ rows' = [rows EXCEPT ![t] = e]
      BY <1>6, <2>2 DEF Updated
    <3>2. ~(config'.status = "ready" /\ config'.epoch = config'.indexed)
      BY <1>1, <1>3, <1>4, <3>1
    <3>3. ~Published'
      BY <3>2 DEF Published
    <3> QED BY <1>1, <1>2, <1>3, <1>4, <3>1, <3>3
  <2> QED BY <2>1, <2>2
<1>7. CASE config.enabled /\ UpdateFailed
  <2> DEFINE new == [Dirty EXCEPT !.status = "stale"]
  <2>1. new \in Configs(n + 1) /\ new.enabled = config.enabled /\ new.status = "stale"
    BY <1>3 DEF Configs, ConfigFields, Statuses
  <2>2. config' = new /\ markers' = Unmarked /\ rows' = rows
    BY <1>7 DEF UpdateFailed
  <2> HIDE DEF new
  <2>3. ~Published'
    BY <2>1, <2>2 DEF Published
  <2> QED BY <1>1, <1>2, <1>5, <2>1, <2>2, <2>3
<1>8. CASE ~config.enabled /\ UNCHANGED <<config, rows, markers>>
  <2>1. config \in Configs(n + 1)
    BY <1>1, ConfigsGrow
  <2> QED BY <1>1, <1>2, <1>8, <2>1
<1> QED BY <1>6, <1>7, <1>8 DEF Changed

\* A save leaves every other thread, and what a rebuild has read.
LEMMA ChangeKeepsInvariant ==
    ASSUME SearchIInv, NEW t \in Row, NEW e \in Nat, NEW row, Changed(t, e),
           threadRow' = [threadRow EXCEPT ![t] = row],
           row \in [state : {"none", "live", "trashed", "gone"}, edition : Nat],
           row.edition >= threadRow[t].edition, e <= row.edition,
           e = IF row.state \in {"live", "trashed"} THEN row.edition ELSE 0,
           UNCHANGED <<rebuilder, wanted, overrun>>
    PROVE  SearchIInv'
<1> USE DEF SearchIInv
<1>1. /\ searchCount' \in [writes : 0 .. MaxWrites, faults : Int]
      /\ searchCount'.writes = searchCount.writes + 1
      /\ config' \in Configs(searchCount'.writes) /\ config'.enabled = config.enabled
      /\ markers' \subseteq 1 .. searchCount'.writes
      /\ rows' = rows \/ rows' = [rows EXCEPT ![t] = e]
      /\ config.enabled => /\ Published' => Published /\ rows' = [rows EXCEPT ![t] = e]
                           /\ ~(config'.status = "building" /\ config'.epoch = config'.build)
  BY ChangedEffect
<1>2. /\ threadRow' \in [Row -> [state : {"none", "live", "trashed", "gone"}, edition : Nat]]
      /\ threadRow'[t] = row /\ \A u \in Row : u # t => threadRow'[u] = threadRow[u]
  BY DEF SearchTypes
<1>3. /\ rows' \in [Row -> Nat] /\ \A u \in Row : u # t => rows'[u] = rows[u]
      /\ rows'[t] \in {rows[t], e}
  BY <1>1 DEF SearchTypes
<1>4. \A u \in Row : rows'[u] <= threadRow'[u].edition
  <2>1. \A u \in Row : rows[u] \in Nat /\ threadRow[u].edition \in Nat /\ rows[u] <= threadRow[u].edition
    BY DEF SearchTypes
  <2>2. row.edition \in Nat
    OBVIOUS
  <2>3. rows'[t] <= row.edition
    BY <1>3, <2>1, <2>2
  <2> QED BY <1>2, <1>3, <2>1, <2>3
<1>5. rebuilder' \in [Rebuilder -> Configs(searchCount'.writes) \cup {NotReading}]
  <2>1. Configs(searchCount.writes) \subseteq Configs(searchCount'.writes)
    BY <1>1, ConfigsGrow, SearchAssumption DEF SearchTypes
  <2> QED BY <2>1 DEF SearchTypes
<1>6. SearchTypes'
  BY <1>1, <1>2, <1>3, <1>4, <1>5 DEF SearchTypes
<1>7. BuildIsExact'
  <2> SUFFICES ASSUME config'.enabled, "index" \notin overrun'
               PROVE  Published' => \A u \in Row : Matches(u)'
    BY <1>1 DEF BuildIsExact
  <2> SUFFICES ASSUME Published', NEW u \in Row PROVE Matches(u)'
    OBVIOUS
  <2>1. Published /\ rows' = [rows EXCEPT ![t] = e] /\ Matches(u)
    BY <1>1 DEF BuildIsExact
  <2>2. CASE u = t
    BY <1>2, <2>1, <2>2 DEF Matches, Exists, SearchTypes
  <2>3. CASE u # t
    BY <1>2, <1>3, <2>1, <2>3 DEF Matches, Exists
  <2> QED BY <2>2, <2>3
<1>8. SwitchIsKept'
  BY <1>1 DEF SwitchIsKept
<1> QED BY <1>6, <1>7, <1>8

\* What the transaction of a batch leaves to prove, whatever it has written.
LEMMA BatchKeepsInvariant ==
    ASSUME SearchIInv, NEW r \in Rebuilder, rebuilder[r] # NotReading,
           config' \in Configs(searchCount.writes), config'.enabled = rebuilder[r].enabled,
           rows' \in [Row -> Nat], \A t \in Row : rows'[t] <= threadRow[t].edition,
           markers' \subseteq 1 .. searchCount.writes,
           searchCount' \in [writes : 0 .. MaxWrites, faults : Int],
           searchCount'.writes = searchCount.writes,
           rebuilder' = [rebuilder EXCEPT ![r] = NotReading],
           overrun' \subseteq {"index", "switch"}, Overruns(r) \subseteq overrun',
           overrun \ {"index"} \subseteq overrun',
           UNCHANGED <<threadRow, wanted>>, BuildIsExact'
    PROVE  SearchIInv'
<1> USE DEF SearchIInv
<1>1. SearchTypes'
  BY DEF SearchTypes
<1>2. SwitchIsKept'
  BY DEF SwitchIsKept, Overruns
<1> QED BY <1>1, <1>2

\* A batch starts from the configuration that was read.
LEMMA BegunEffect ==
    ASSUME SearchTypes, NEW r \in Rebuilder, rebuilder[r] # NotReading
    PROVE  /\ Begun(rebuilder[r]) \in Configs(searchCount.writes)
           /\ Begun(rebuilder[r]).enabled = rebuilder[r].enabled
           /\ Begun(rebuilder[r]).status = "building" => Begun(rebuilder[r]) = rebuilder[r]
<1> DEFINE read == rebuilder[r]
           n == searchCount.writes
           begun == [read EXCEPT !.status = "cleaning", !.build = read.epoch, !.after = 0,
                                 !.skipped = FALSE]
<1>1. read \in Configs(n) /\ n \in Nat
  BY SearchAssumption DEF SearchTypes
<1>2. Begun(read) = IF read.status \in {"cleaning", "building"} THEN read ELSE begun
  BY DEF Begun
<1> HIDE DEF read, n
<1>3. begun \in ConfigFields(n) /\ begun.enabled = read.enabled /\ begun.epoch = read.epoch
      /\ begun.after = 0 /\ begun.status = "cleaning"
  <2>1. read \in ConfigFields(n)
    BY <1>1 DEF Configs
  <2> QED BY <1>1, <2>1, BuildOfConfig
<1> HIDE DEF begun
<1> QED BY <1>1, <1>2, <1>3 DEF read, n, Configs

LEMMA BatchStep ==
    ASSUME SearchIInv, NEW r \in Rebuilder, Batch(r) PROVE SearchIInv'
<1> USE DEF SearchIInv
<1> DEFINE c == Begun(rebuilder[r])
<1>1. /\ rebuilder[r] # NotReading
      /\ rebuilder' = [rebuilder EXCEPT ![r] = NotReading]
      /\ UNCHANGED <<threadRow, wanted, searchCount>>
      /\ overrun' = Overruns(r) \cup (IF c = rebuilder[r] THEN overrun ELSE overrun \ {"index"})
      /\ Clean(c) \/ Fill(c) \/ Finish(c)
  BY DEF Batch
<1>2. /\ c \in Configs(searchCount.writes) /\ c.enabled = rebuilder[r].enabled
      /\ c.status = "building" => c = rebuilder[r]
  BY <1>1, BegunEffect
<1>3. /\ overrun' \subseteq {"index", "switch"} /\ Overruns(r) \subseteq overrun'
      /\ overrun \ {"index"} \subseteq overrun'
  BY <1>1 DEF Overruns, SearchTypes
<1> HIDE DEF c
\* A batch that goes on filling, and has overrun nothing, goes on from the configuration
\* as it is.
<1>4. c.status = "building" /\ "index" \notin overrun' => c = config /\ "index" \notin overrun
  BY <1>1, <1>2 DEF Overruns
<1>5. /\ searchCount' \in [writes : 0 .. MaxWrites, faults : Int]
      /\ searchCount'.writes = searchCount.writes /\ searchCount.writes \in Nat
  BY <1>1, SearchAssumption DEF SearchTypes
<1>6. CASE Clean(c)
  <2>1. /\ config' \in Configs(searchCount.writes) /\ config'.enabled = c.enabled
        /\ config'.status \in {"cleaning", "building"} /\ config'.after = 0
    BY <1>2, <1>6 DEF Clean, Configs, ConfigFields, Statuses
  <2>2. rows' = [t \in Row |-> 0] /\ markers' = {}
    BY <1>6 DEF Clean
  <2>3. rows' \in [Row -> Nat] /\ \A t \in Row : rows'[t] <= threadRow[t].edition
    BY <2>2 DEF SearchTypes
  <2>4. BuildIsExact'
    <3>1. ~Published'
      BY <2>2 DEF Published
    <3>2. \A t \in Row : ~(t <= config'.after) /\ rows'[t] = 0
      BY <2>1, <2>2 DEF Row
    <3> QED BY <3>1, <3>2 DEF BuildIsExact
  <2> QED BY <1>1, <1>2, <1>3, <1>5, <2>1, <2>2, <2>3, <2>4, BatchKeepsInvariant
<1>7. CASE Fill(c)
  <2>1. PICK t \in Row :
           /\ t > c.after /\ Exists(t) /\ \A u \in Row : c.after < u /\ u < t => ~Exists(u)
           /\ rows' = IF Live(t) THEN [rows EXCEPT ![t] = threadRow[t].edition] ELSE rows
           /\ config' = [c EXCEPT !.after = t, !.skipped = @ \/ ~Live(t)]
    BY <1>7 DEF Fill
  <2>2. c.status = "building" /\ markers' = markers
    BY <1>7 DEF Fill
  <2>3. /\ config' \in Configs(searchCount.writes) /\ config'.enabled = c.enabled
        /\ config'.status = "building" /\ config'.epoch = c.epoch /\ config'.build = c.build
        /\ config'.after = t /\ config'.skipped = (c.skipped \/ ~Live(t))
    <3> DEFINE skipped == c.skipped \/ ~Live(t)
    <3>1. t \in 0 .. ThreadRows /\ skipped \in BOOLEAN
      BY <1>2, SearchAssumption DEF Row, Configs, ConfigFields
    <3>2. config' = [c EXCEPT !.after = t, !.skipped = skipped]
      BY <2>1
    <3> HIDE DEF skipped
    <3>3. /\ config' \in ConfigFields(searchCount.writes) /\ config'.enabled = c.enabled
          /\ config'.status = "building" /\ config'.epoch = c.epoch /\ config'.build = c.build
          /\ config'.after = t /\ config'.skipped = skipped
      BY <1>2, <2>2, <3>1, <3>2 DEF Configs, ConfigFields
    <3> QED BY <1>2, <3>3 DEF Configs, skipped
  <2>4. rows' \in [Row -> Nat] /\ \A u \in Row : rows'[u] <= threadRow[u].edition
    BY <2>1 DEF SearchTypes
  <2>5. BuildIsExact'
    <3> SUFFICES ASSUME config'.enabled, "index" \notin overrun', config'.epoch = config'.build,
                        ~config'.skipped, NEW u \in Row
                 PROVE  IF u <= config'.after THEN Matches(u)' ELSE rows'[u] = 0
      BY <2>3 DEF BuildIsExact, Published
    <3>1. /\ c = config /\ "index" \notin overrun /\ config.status = "building"
          /\ config.enabled /\ config.epoch = config.build /\ ~config.skipped /\ Live(t)
      BY <1>4, <2>2, <2>3
    <3>2. IF u <= config.after THEN Matches(u) ELSE rows[u] = 0
      BY <3>1 DEF BuildIsExact
    <3>3. rows' = [rows EXCEPT ![t] = threadRow[t].edition] /\ config'.after = t
      BY <2>1, <2>3, <3>1
    <3>4. config.after \in Nat /\ u \in Nat /\ t \in Nat
      BY SearchAssumption DEF SearchTypes, Configs, ConfigFields, Row
    <3>5. CASE u = t
      BY <1>1, <2>1, <3>3, <3>4, <3>5 DEF Matches, Exists, SearchTypes
    <3>6. CASE u < t
      <4>1. u <= config.after \/ ~Exists(u)
        BY <2>1, <3>1, <3>4, <3>6
      <4>2. Matches(u)
        BY <3>2, <3>4, <4>1 DEF Matches
      <4>3. rows'[u] = rows[u] /\ threadRow' = threadRow
        BY <1>1, <3>3, <3>4, <3>6 DEF SearchTypes
      <4> QED BY <3>3, <3>4, <3>6, <4>2, <4>3 DEF Matches, Exists
    <3>7. CASE u > t
      <4>1. rows'[u] = rows[u]
        BY <3>3, <3>4, <3>7 DEF SearchTypes
      <4>2. u > config.after
        BY <2>1, <3>1, <3>4, <3>7
      <4> QED BY <3>2, <3>3, <3>4, <3>7, <4>1, <4>2
    <3> QED BY <3>4, <3>5, <3>6, <3>7
  <2> QED BY <1>1, <1>2, <1>3, <1>5, <2>2, <2>3, <2>4, <2>5, BatchKeepsInvariant DEF SearchTypes
<1>8. CASE Finish(c)
  <2> DEFINE whole == c.epoch = c.build /\ ~c.skipped
  <2>1. /\ c.status = "building" /\ rows' = rows
        /\ \A t \in Row : t > c.after => ~Exists(t)
        /\ config' = [c EXCEPT !.status = IF whole THEN "ready" ELSE "partial", !.indexed = c.build]
        /\ markers' = IF whole THEN markers \cup {c.epoch} ELSE markers
    BY <1>8 DEF Finish
  <2>2. /\ config' \in Configs(searchCount.writes) /\ config'.enabled = c.enabled
        /\ config'.status = IF whole THEN "ready" ELSE "partial"
        /\ config'.indexed = c.build /\ config'.epoch = c.epoch
    BY <1>2, <1>5, <2>1 DEF Configs, ConfigFields, Statuses
  <2>3. rows' \in [Row -> Nat] /\ \A u \in Row : rows'[u] <= threadRow[u].edition
    BY <2>1 DEF SearchTypes
  <2>4. markers' \subseteq 1 .. searchCount.writes
    <3>1. c.enabled /\ c.epoch \in 1 .. searchCount.writes
      BY <1>1, <1>2, <1>5 DEF SearchTypes, Configs, ConfigFields
    <3> QED BY <2>1, <3>1 DEF SearchTypes
  <2>5. BuildIsExact'
    <3> SUFFICES ASSUME config'.enabled, "index" \notin overrun', Published', NEW u \in Row
                 PROVE  Matches(u)'
      BY <2>2 DEF BuildIsExact
    <3>1. whole
      BY <2>2 DEF Published
    <3>2. /\ c = config /\ "index" \notin overrun /\ config.status = "building"
          /\ config.enabled /\ config.epoch = config.build /\ ~config.skipped
      BY <1>4, <2>1, <2>2, <3>1
    <3>3. IF u <= config.after THEN Matches(u) ELSE rows[u] = 0
      BY <3>2 DEF BuildIsExact
    <3>4. config.after \in Nat /\ u \in Nat
      BY SearchAssumption DEF SearchTypes, Configs, ConfigFields, Row
    <3>5. Matches(u)
      BY <2>1, <3>2, <3>3, <3>4 DEF Matches
    <3> QED BY <1>1, <2>1, <3>5 DEF Matches, Exists
  <2> HIDE DEF whole
  <2> QED BY <1>1, <1>2, <1>3, <1>5, <2>2, <2>3, <2>4, <2>5, BatchKeepsInvariant
<1> QED BY <1>1, <1>6, <1>7, <1>8

\* The steps that leave the index and its configuration alone, but for one read copy.
LEMMA ReadersKeepInvariant ==
    ASSUME SearchIInv, UNCHANGED <<threadRow, config, rows, markers, wanted, overrun, searchCount>>,
           rebuilder' \in [Rebuilder -> Configs(searchCount.writes) \cup {NotReading}],
           \A r \in Rebuilder : rebuilder'[r] # NotReading => rebuilder'[r].enabled
    PROVE  SearchIInv'
<1> USE DEF SearchIInv
<1>1. SearchTypes'
  BY DEF SearchTypes
<1>2. BuildIsExact' /\ SwitchIsKept'
  BY DEF BuildIsExact, SwitchIsKept, Published, Matches, Exists
<1> QED BY <1>1, <1>2

LEMMA SaveThreadStep ==
    ASSUME SearchIInv, NEW t \in Row, SaveThread(t) PROVE SearchIInv'
<1> DEFINE e == threadRow[t].edition + 1
           row == [state |-> "live", edition |-> e]
<1>1. threadRow[t].edition \in Nat
  BY DEF SearchIInv, SearchTypes
<1>2. /\ threadRow' = [threadRow EXCEPT ![t] = row] /\ Changed(t, e)
      /\ UNCHANGED <<rebuilder, wanted, overrun>>
  BY DEF SaveThread
<1>3. /\ e \in Nat /\ row \in [state : {"none", "live", "trashed", "gone"}, edition : Nat]
      /\ row.edition >= threadRow[t].edition /\ e <= row.edition
      /\ e = IF row.state \in {"live", "trashed"} THEN row.edition ELSE 0
  BY <1>1
<1> HIDE DEF e, row
<1> QED BY <1>2, <1>3, ChangeKeepsInvariant

LEMMA DeleteThreadStep ==
    ASSUME SearchIInv, NEW t \in Row, DeleteThread(t) PROVE SearchIInv'
<1> DEFINE row == [threadRow[t] EXCEPT !.state = "gone"]
<1>1. threadRow[t] \in [state : {"none", "live", "trashed", "gone"}, edition : Nat]
  BY DEF SearchIInv, SearchTypes
<1>2. /\ threadRow' = [threadRow EXCEPT ![t] = row] /\ Changed(t, 0)
      /\ UNCHANGED <<rebuilder, wanted, overrun>>
  BY DEF DeleteThread
<1>3. /\ row \in [state : {"none", "live", "trashed", "gone"}, edition : Nat]
      /\ row.edition = threadRow[t].edition /\ row.state = "gone" /\ row.edition \in Nat
  BY <1>1
<1> HIDE DEF row
<1>4. /\ row.edition >= threadRow[t].edition /\ 0 \in Nat /\ 0 <= row.edition
      /\ 0 = IF row.state \in {"live", "trashed"} THEN row.edition ELSE 0
  BY <1>3
<1> QED BY <1>2, <1>3, <1>4, ChangeKeepsInvariant

LEMMA MoveThreadStep ==
    ASSUME SearchIInv, NEW t \in Row, MoveThread(t) PROVE SearchIInv'
<1> USE DEF SearchIInv
<1> DEFINE state == IF threadRow[t].state = "live" THEN "trashed" ELSE "live"
           row == [threadRow[t] EXCEPT !.state = state]
           n == searchCount.writes
<1>1. /\ threadRow[t] \in [state : {"none", "live", "trashed", "gone"}, edition : Nat]
      /\ threadRow[t].state \in {"live", "trashed"}
      /\ threadRow' = [threadRow EXCEPT ![t] = row]
      /\ UNCHANGED <<config, rows, markers, rebuilder, wanted, overrun>>
  BY DEF MoveThread, Exists, SearchTypes
<1>2. /\ row \in [state : {"none", "live", "trashed", "gone"}, edition : Nat]
      /\ row.edition = threadRow[t].edition /\ row.state \in {"live", "trashed"}
  BY <1>1
<1>3. /\ searchCount' \in [writes : 0 .. MaxWrites, faults : Int]
      /\ searchCount'.writes = n + 1 /\ n \in Nat
  BY SearchAssumption DEF MoveThread, Write, SearchTypes
<1>4. Configs(n) \subseteq Configs(n + 1) /\ 1 .. n \subseteq 1 .. n + 1
  BY <1>3, ConfigsGrow
<1> HIDE DEF row
<1>5. /\ threadRow' \in [Row -> [state : {"none", "live", "trashed", "gone"}, edition : Nat]]
      /\ \A u \in Row : threadRow'[u].edition = threadRow[u].edition /\ Exists(u)' = Exists(u)
  BY <1>1, <1>2 DEF SearchTypes, Exists
<1>6. SearchTypes'
  <2>1. \A u \in Row : rows'[u] <= threadRow'[u].edition
    BY <1>1, <1>5 DEF SearchTypes
  <2>2. /\ config' \in Configs(n + 1) /\ markers' \subseteq 1 .. n + 1
        /\ rebuilder' \in [Rebuilder -> Configs(n + 1) \cup {NotReading}]
    BY <1>1, <1>4 DEF SearchTypes
  <2> QED BY <1>1, <1>3, <1>5, <2>1, <2>2 DEF SearchTypes
<1>7. \A u \in Row : Matches(u)' = Matches(u)
  BY <1>1, <1>5 DEF Matches
<1>8. BuildIsExact' /\ SwitchIsKept'
  BY <1>1, <1>7 DEF BuildIsExact, SwitchIsKept, Published
<1> QED BY <1>6, <1>8

LEMMA ConfigureStep ==
    ASSUME SearchIInv, NEW on \in BOOLEAN, Configure(on) PROVE SearchIInv'
<1> USE DEF SearchIInv
<1> DEFINE n == searchCount.writes
<1>1. /\ searchCount' \in [writes : 0 .. MaxWrites, faults : Int]
      /\ searchCount'.writes = n + 1 /\ n \in Nat
  BY SearchAssumption DEF Configure, Write, SearchTypes
<1>2. Configs(n) \subseteq Configs(n + 1) /\ 1 .. n \subseteq 1 .. n + 1
  BY <1>1, ConfigsGrow
<1>3. /\ config' \in Configs(n + 1) /\ config'.enabled = on
      /\ config'.status \in {"needs_rebuild", "disabled"}
  BY <1>1, SearchAssumption DEF Configure, Configs, ConfigFields, Statuses, Epoch
<1>4. /\ wanted' = on /\ overrun' = overrun \ {"switch"}
      /\ UNCHANGED <<threadRow, rows, markers, rebuilder>>
  BY DEF Configure
<1>5. SearchTypes'
  <2>1. /\ markers' \subseteq 1 .. n + 1
        /\ rebuilder' \in [Rebuilder -> Configs(n + 1) \cup {NotReading}]
    BY <1>2, <1>4 DEF SearchTypes
  <2> HIDE DEF n
  <2> QED BY <1>1, <1>3, <1>4, <2>1 DEF SearchTypes, n
<1>6. BuildIsExact'
  BY <1>3 DEF BuildIsExact, Published
<1>7. SwitchIsKept'
  BY <1>3, <1>4 DEF SwitchIsKept
<1> QED BY <1>5, <1>6, <1>7

LEMMA BatchFailedStep ==
    ASSUME SearchIInv, NEW r \in Rebuilder, BatchFailed(r) PROVE SearchIInv'
<1> USE DEF SearchIInv
<1> DEFINE c == Begun(rebuilder[r])
           failed == [c EXCEPT !.status = "no_fts5_or_corrupt"]
<1>1. /\ rebuilder[r] # NotReading /\ config' = failed
      /\ searchCount' = [searchCount EXCEPT !.faults = searchCount.faults + 1]
      /\ overrun' = overrun \cup Overruns(r)
      /\ rebuilder' = [rebuilder EXCEPT ![r] = NotReading]
      /\ UNCHANGED <<threadRow, rows, markers, wanted>>
  BY DEF BatchFailed
<1>2. c \in Configs(searchCount.writes) /\ c.enabled = rebuilder[r].enabled
  BY <1>1, BegunEffect
<1> HIDE DEF c
<1>3. /\ failed \in Configs(searchCount.writes) /\ failed.enabled = c.enabled
      /\ failed.status = "no_fts5_or_corrupt"
  BY <1>2 DEF Configs, ConfigFields, Statuses
<1> HIDE DEF failed
<1>4. /\ searchCount' \in [writes : 0 .. MaxWrites, faults : Int]
      /\ searchCount'.writes = searchCount.writes
  BY <1>1 DEF SearchTypes
<1>5. BuildIsExact'
  BY <1>1, <1>3 DEF BuildIsExact, Published
<1>6. /\ overrun' \subseteq {"index", "switch"} /\ Overruns(r) \subseteq overrun'
      /\ overrun \ {"index"} \subseteq overrun'
  BY <1>1 DEF Overruns, SearchTypes
<1>7. /\ rows' \in [Row -> Nat] /\ \A t \in Row : rows'[t] <= threadRow[t].edition
      /\ markers' \subseteq 1 .. searchCount.writes
  BY <1>1 DEF SearchTypes
<1> QED BY <1>1, <1>2, <1>3, <1>4, <1>5, <1>6, <1>7, BatchKeepsInvariant

LEMMA SearchIInvStep ==
    ASSUME SearchIInv, [SearchNext]_searchVars PROVE SearchIInv'
<1>1. CASE \E t \in Row : SaveThread(t) \/ DeleteThread(t) \/ MoveThread(t)
  BY <1>1, SaveThreadStep, DeleteThreadStep, MoveThreadStep
<1>2. CASE \E on \in BOOLEAN : Configure(on)
  BY <1>2, ConfigureStep
<1>3. ASSUME NEW r \in Rebuilder, ReadConfig(r) PROVE SearchIInv'
  <2>1. /\ UNCHANGED <<threadRow, config, rows, markers, wanted, overrun, searchCount>>
        /\ rebuilder' = [rebuilder EXCEPT ![r] = config] /\ config.enabled
    BY <1>3 DEF ReadConfig
  <2>2. /\ rebuilder' \in [Rebuilder -> Configs(searchCount.writes) \cup {NotReading}]
        /\ \A q \in Rebuilder : rebuilder'[q] # NotReading => rebuilder'[q].enabled
    BY <2>1 DEF SearchIInv, SearchTypes
  <2> QED BY <2>1, <2>2, ReadersKeepInvariant
<1>4. ASSUME NEW r \in Rebuilder, Abandon(r) PROVE SearchIInv'
  <2>1. /\ UNCHANGED <<threadRow, config, rows, markers, wanted, overrun, searchCount>>
        /\ rebuilder' = [rebuilder EXCEPT ![r] = NotReading]
    BY <1>4 DEF Abandon
  <2>2. /\ rebuilder' \in [Rebuilder -> Configs(searchCount.writes) \cup {NotReading}]
        /\ \A q \in Rebuilder : rebuilder'[q] # NotReading => rebuilder'[q].enabled
    BY <2>1 DEF SearchIInv, SearchTypes
  <2> QED BY <2>1, <2>2, ReadersKeepInvariant
<1>5. CASE UNCHANGED searchVars
  <2>1. /\ UNCHANGED <<threadRow, config, rows, markers, wanted, overrun, searchCount>>
        /\ rebuilder' = rebuilder
    BY <1>5 DEF searchVars
  <2>2. /\ rebuilder' \in [Rebuilder -> Configs(searchCount.writes) \cup {NotReading}]
        /\ \A q \in Rebuilder : rebuilder'[q] # NotReading => rebuilder'[q].enabled
    BY <2>1 DEF SearchIInv, SearchTypes
  <2> QED BY <2>1, <2>2, ReadersKeepInvariant
<1> QED BY <1>1, <1>2, <1>3, <1>4, <1>5, BatchStep, BatchFailedStep DEF SearchNext

LEMMA SearchIInvStart ==
    ASSUME SearchInit PROVE SearchIInv
<1>1. /\ searchCount \in [writes : 0 .. MaxWrites, faults : Int] /\ searchCount.writes = 0
      /\ rows \in [Row -> Nat] /\ wanted = FALSE /\ overrun = {} /\ markers = {}
      /\ config.enabled = FALSE /\ config.status = "disabled"
  BY SearchAssumption DEF SearchInit
<1>2. config \in Configs(0)
  BY SearchAssumption DEF SearchInit, Configs, ConfigFields, Statuses
<1>3. /\ threadRow \in [Row -> [state : {"none", "live", "trashed", "gone"}, edition : Nat]]
      /\ \A t \in Row : rows[t] <= threadRow[t].edition
  BY DEF SearchInit
<1>4. /\ rebuilder \in [Rebuilder -> Configs(0) \cup {NotReading}]
      /\ \A r \in Rebuilder : rebuilder[r] # NotReading => rebuilder[r].enabled
  BY DEF SearchInit
<1>5. SearchTypes
  BY <1>1, <1>2, <1>3, <1>4 DEF SearchTypes
<1>6. BuildIsExact /\ SwitchIsKept
  BY <1>1 DEF BuildIsExact, SwitchIsKept
<1> QED BY <1>5, <1>6 DEF SearchIInv

\* However saves, deletions, the trash, the owner's switch and the batches of any number
\* of rebuilding programs interleave, and whichever of them fail: a search that asks the
\* index finds every live thread as it is and no other, and is on when its owner wants
\* it; but for a batch that wrote back a configuration which had changed (search_sqlite).
THEOREM SearchIsWhole == SearchSpec => []SearchInv
<1>1. SearchInit => SearchIInv
  BY SearchIInvStart
<1>2. SearchIInv /\ [SearchNext]_searchVars => SearchIInv'
  BY SearchIInvStep
<1>3. SearchIInv => SearchInv
  <2> SUFFICES ASSUME SearchIInv PROVE SearchInv
    OBVIOUS
  <2>1. searchCount.writes \in 0 .. MaxWrites /\ searchCount.writes \in Nat
    BY SearchAssumption DEF SearchIInv, SearchTypes
  <2>2. SearchTypeOK
    BY <2>1, SearchAssumption DEF SearchIInv, SearchTypes, SearchTypeOK, Configs, ConfigFields
  <2>3. IndexedIsWhole
    BY DEF SearchIInv, BuildIsExact, IndexedIsWhole, Mode, Matches, Live, Exists
  <2> QED BY <2>2, <2>3 DEF SearchIInv, SearchInv
<1> QED BY <1>1, <1>2, <1>3, PTL DEF SearchSpec

-----------------------------------------------------------------------------
(* The library's index: the inductive invariant *)

\* Of two states of the nodes, the first came before the second.
NodesBefore(old, new) ==
    \A r \in Record : /\ old[r].writes <= new[r].writes
                      /\ old[r].writes = new[r].writes => old[r] = new[r]

\* A list of records, and a signature, that were read at some time before.
ListedBefore(list) == \A r \in Record : list[r] <= records[r]
SignedBefore(signature) ==
    signature.workspace <= workspace /\ NodesBefore(signature.nodes, fileNodes)

Syncing == [step : {"sync"}, list : Lists, left : SUBSET Record]
Reading == [step : {"read"}, list : Lists]
Signing == [step : {"signed"}, list : Lists, had : BOOLEAN, signature : Signatures]
Committing == [step : {"committed"}, signature : Signatures, status : {"ready", "failed"},
               filled : BOOLEAN]
Builds == {NoBuild} \cup Syncing \cup Reading \cup Signing \cup Committing

\* Every change of a record is counted, and a node shows no later edition than there is.
SourcesFit ==
    /\ records \in Lists /\ fileNodes \in NodeSets /\ workspace \in Nat /\ readable \in BOOLEAN
    /\ indexCount \in [changes : 0 .. MaxChanges, refreshes : Int, mishaps : Int]
    /\ \A r \in Record : records[r] <= indexCount.changes + 1
    /\ \A r \in Record : fileNodes[r].shows <= records[r]

\* What was committed is of some time before.
DatabaseFits ==
    /\ database \in [known : Builder \cup {"manifest", "nobody"}, files : Lists,
                     nodes : NodeSets, workspace : Nat, torn : BOOLEAN]
    /\ ListedBefore(database.files)
    /\ database.workspace <= workspace /\ NodesBefore(database.nodes, fileNodes)

\* The database is not older than the signature it was built for.
Fits(signature, status) ==
    /\ signature.workspace <= database.workspace
    /\ NodesBefore(signature.nodes, database.nodes)
    /\ status = "ready" => database.torn \/ database.files = signature.records

\* Whoever knows the generation of the database has the signature it was built for;
\* what a builder has listed or signed is of some time before.
ManifestFits ==
    /\ manifest \in Manifests \cup {Unpublished}
    /\ database.known = "manifest" =>
         manifest # Unpublished /\ Fits(manifest.signature, manifest.status)

BuildFits(b) ==
    /\ builder[b].step \in {"sync", "read", "signed"} => ListedBefore(builder[b].list)
    /\ builder[b].step = "signed" => SignedBefore(builder[b].signature)
    /\ database.known = b =>
         builder[b].step = "committed" /\ Fits(builder[b].signature, builder[b].status)

BuildsFit == builder \in [Builder -> Builds] /\ \A b \in Builder : BuildFits(b)

IndexIInv == SourcesFit /\ DatabaseFits /\ ManifestFits /\ BuildsFit

-----------------------------------------------------------------------------
(* The library's index: every step keeps it *)

LEMMA NodesBeforeTrans ==
    ASSUME NEW a \in NodeSets, NEW b \in NodeSets, NEW c \in NodeSets,
           NodesBefore(a, b), NodesBefore(b, c)
    PROVE  NodesBefore(a, c)
<1> SUFFICES ASSUME NEW r \in Record
             PROVE  a[r].writes <= c[r].writes /\ (a[r].writes = c[r].writes => a[r] = c[r])
  BY DEF NodesBefore
<1>1. a[r].writes \in Nat /\ b[r].writes \in Nat /\ c[r].writes \in Nat
  BY DEF NodeSets
<1>2. /\ a[r].writes <= b[r].writes /\ (a[r].writes = b[r].writes => a[r] = b[r])
      /\ b[r].writes <= c[r].writes /\ (b[r].writes = c[r].writes => b[r] = c[r])
  BY DEF NodesBefore
<1> QED BY <1>1, <1>2

LEMMA NodesBeforeSame ==
    ASSUME NEW a \in NodeSets, NEW b \in NodeSets, NodesBefore(a, b), NodesBefore(b, a)
    PROVE  a = b
<1>1. ASSUME NEW r \in Record PROVE a[r] = b[r]
  <2>1. a[r].writes \in Nat /\ b[r].writes \in Nat
    BY DEF NodeSets
  <2>2. a[r].writes <= b[r].writes /\ b[r].writes <= a[r].writes
        /\ (a[r].writes = b[r].writes => a[r] = b[r])
    BY DEF NodesBefore
  <2> QED BY <2>1, <2>2
<1> QED BY <1>1 DEF NodeSets

LEMMA NodesBeforeItself ==
    ASSUME NEW a \in NodeSets PROVE NodesBefore(a, a)
<1>1. \A r \in Record : a[r].writes \in Nat
  BY DEF NodeSets
<1> QED BY <1>1 DEF NodesBefore

LEMMA BuildShape ==
    ASSUME NEW x \in Builds
    PROVE  /\ x.step \in {"idle", "sync", "read", "signed", "committed"}
           /\ x.step = "sync" => x \in Syncing
           /\ x.step = "read" => x \in Reading
           /\ x.step = "signed" => x \in Signing
           /\ x.step = "committed" => x \in Committing
BY DEF Builds, NoBuild, Syncing, Reading, Signing, Committing

\* The sources only grow.
SourcesGrow ==
    /\ \A r \in Record : records[r] <= records'[r]
    /\ workspace <= workspace' /\ NodesBefore(fileNodes, fileNodes')

LEMMA ListsStayBefore ==
    ASSUME SourcesFit, SourcesFit', SourcesGrow, NEW list \in Lists, ListedBefore(list)
    PROVE  \A r \in Record : list[r] <= records'[r]
<1> SUFFICES ASSUME NEW r \in Record PROVE list[r] <= records'[r]
  OBVIOUS
<1>1. list[r] \in Nat /\ records[r] \in Nat /\ records'[r] \in Nat
  BY DEF SourcesFit, Lists
<1>2. list[r] <= records[r] /\ records[r] <= records'[r]
  BY DEF ListedBefore, SourcesGrow
<1> QED BY <1>1, <1>2

LEMMA SignaturesStayBefore ==
    ASSUME SourcesFit, SourcesFit', SourcesGrow, NEW nodes \in NodeSets, NEW w \in Nat,
           NodesBefore(nodes, fileNodes), w <= workspace
    PROVE  NodesBefore(nodes, fileNodes') /\ w <= workspace'
<1>1. workspace \in Nat /\ workspace' \in Nat /\ fileNodes \in NodeSets /\ fileNodes' \in NodeSets
  BY DEF SourcesFit
<1>2. workspace <= workspace' /\ NodesBefore(fileNodes, fileNodes')
  BY DEF SourcesGrow
<1> QED BY <1>1, <1>2, NodesBeforeTrans

\* What another builder does leaves a build as it is.
LEMMA OthersStay ==
    ASSUME IndexIInv, SourcesFit', SourcesGrow, NEW b \in Builder, builder'[b] = builder[b],
           database' = database \/ database'.known # b
    PROVE  BuildFits(b)'
<1> USE DEF IndexIInv
<1>1. builder[b] \in Builds /\ BuildFits(b)
  BY DEF BuildsFit
<1>2. /\ builder[b].step \in {"sync", "read", "signed"} => builder[b].list \in Lists
      /\ builder[b].step = "signed" => builder[b].signature \in Signatures
  <2>1. /\ builder[b].step = "sync" => builder[b] \in Syncing
        /\ builder[b].step = "read" => builder[b] \in Reading
        /\ builder[b].step = "signed" => builder[b] \in Signing
    BY <1>1, BuildShape
  <2> QED BY <2>1 DEF Syncing, Reading, Signing
<1>3. builder'[b].step \in {"sync", "read", "signed"} => ListedBefore(builder[b].list)'
  <2> SUFFICES ASSUME builder[b].step \in {"sync", "read", "signed"}
               PROVE  ListedBefore(builder[b].list)'
    OBVIOUS
  <2>1. ListedBefore(builder[b].list)
    BY <1>1 DEF BuildFits
  <2>2. \A r \in Record : builder[b].list[r] <= records'[r]
    BY <1>2, <2>1, ListsStayBefore
  <2> QED BY <2>2 DEF ListedBefore
<1>4. builder'[b].step = "signed" => SignedBefore(builder[b].signature)'
  <2> SUFFICES ASSUME builder[b].step = "signed" PROVE SignedBefore(builder[b].signature)'
    OBVIOUS
  <2> DEFINE signature == builder[b].signature
  <2>1. SignedBefore(signature) /\ signature \in Signatures
    BY <1>1, <1>2 DEF BuildFits
  <2>2. signature.nodes \in NodeSets /\ signature.workspace \in Nat
    BY <2>1 DEF Signatures
  <2>3. NodesBefore(signature.nodes, fileNodes') /\ signature.workspace <= workspace'
    BY <2>1, <2>2, SignaturesStayBefore DEF SignedBefore
  <2> QED BY <2>3 DEF SignedBefore
<1>5. database'.known = b =>
         builder'[b].step = "committed" /\ Fits(builder[b].signature, builder[b].status)'
  <2> SUFFICES ASSUME database' = database, database.known = b
               PROVE  builder[b].step = "committed" /\ Fits(builder[b].signature, builder[b].status)'
    OBVIOUS
  <2>1. builder[b].step = "committed" /\ Fits(builder[b].signature, builder[b].status)
    BY <1>1 DEF BuildFits
  <2> QED BY <2>1 DEF Fits
<1> QED BY <1>3, <1>4, <1>5 DEF BuildFits

\* The database is of some time before whatever is written after it.
LEMMA DatabaseStays ==
    ASSUME IndexIInv, SourcesFit', SourcesGrow,
           database' = database
             \/ database' = [database EXCEPT !.known = "manifest"]
             \/ database' = [database EXCEPT !.known = "nobody"]
    PROVE  DatabaseFits'
<1>1. /\ database.files \in Lists /\ database.nodes \in NodeSets /\ database.workspace \in Nat
      /\ ListedBefore(database.files)
      /\ NodesBefore(database.nodes, fileNodes) /\ database.workspace <= workspace
      /\ SourcesFit
  BY DEF IndexIInv, DatabaseFits
<1>2. /\ \A r \in Record : database.files[r] <= records'[r]
      /\ NodesBefore(database.nodes, fileNodes') /\ database.workspace <= workspace'
  BY <1>1, ListsStayBefore, SignaturesStayBefore
<1>3. /\ database' \in [known : Builder \cup {"manifest", "nobody"}, files : Lists,
                        nodes : NodeSets, workspace : Nat, torn : BOOLEAN]
      /\ database'.files = database.files /\ database'.nodes = database.nodes
      /\ database'.workspace = database.workspace
  BY DEF IndexIInv, DatabaseFits
<1> QED BY <1>2, <1>3 DEF DatabaseFits, ListedBefore

\* Marked stale or not, the manifest keeps the signature of the database.
LEMMA ManifestStays ==
    ASSUME IndexIInv, database' = database, MarkStale \/ UNCHANGED manifest
    PROVE  ManifestFits'
<1> USE DEF IndexIInv
<1>1. CASE UNCHANGED manifest
  BY <1>1 DEF ManifestFits, Fits
<1>2. CASE manifest # Unpublished /\ database.known = "manifest"
           /\ manifest' = [manifest EXCEPT !.status = "stale"]
  <2> DEFINE stale == [manifest EXCEPT !.status = "stale"]
  <2>1. manifest \in Manifests /\ Fits(manifest.signature, manifest.status)
    BY <1>2 DEF ManifestFits
  <2>2. stale \in Manifests /\ stale.signature = manifest.signature /\ stale.status = "stale"
    BY <2>1 DEF Manifests
  <2> HIDE DEF stale
  <2>3. manifest' = stale
    BY <1>2 DEF stale
  <2>4. manifest' # Unpublished
    BY <2>2, <2>3, NamesAssumption
  <2> QED BY <2>1, <2>2, <2>3, <2>4 DEF ManifestFits, Fits
<1> QED BY <1>1, <1>2 DEF MarkStale

\* A step that reads the sources, or leaves them.
LEMMA SourcesStay ==
    ASSUME SourcesFit, UNCHANGED <<records, workspace, fileNodes, readable, indexCount>>
    PROVE  SourcesFit' /\ SourcesGrow
<1>1. SourcesFit'
  BY DEF SourcesFit
<1>2. \A r \in Record : records[r] \in Nat
  BY DEF SourcesFit, Lists
<1>3. SourcesGrow
  BY <1>2, NodesBeforeItself DEF SourcesFit, SourcesGrow
<1> QED BY <1>1, <1>3

\* What builder b does with its own build alone.
LEMMA OwnBuild ==
    ASSUME IndexIInv, SourcesFit', SourcesGrow, NEW b \in Builder, NEW new \in Builds,
           builder' = [builder EXCEPT ![b] = new],
           database' = database, MarkStale \/ UNCHANGED manifest, BuildFits(b)'
    PROVE  IndexIInv'
<1>1. DatabaseFits' /\ ManifestFits'
  BY DatabaseStays, ManifestStays
<1>2. builder' \in [Builder -> Builds]
  BY DEF IndexIInv, BuildsFit
<1>3. \A q \in Builder : BuildFits(q)'
  <2> SUFFICES ASSUME NEW q \in Builder, q # b PROVE BuildFits(q)'
    OBVIOUS
  <2>1. builder'[q] = builder[q]
    BY DEF IndexIInv, BuildsFit
  <2> QED BY <2>1, OthersStay
<1> QED BY <1>1, <1>2, <1>3 DEF IndexIInv, BuildsFit

\* A list that was read just now.
LEMMA NewList ==
    ASSUME SourcesFit' PROVE ListedBefore(records)'
BY DEF SourcesFit, Lists, ListedBefore

\* Of the database a builder does not know, nothing is required of its build.
LEMMA StartedBuild ==
    ASSUME IndexIInv, SourcesFit', SourcesGrow, NEW b \in Builder, builder[b] = NoBuild,
           NEW left \in SUBSET Record,
           builder' = [builder EXCEPT ![b] = [step |-> "sync", list |-> records', left |-> left]],
           database' = database, MarkStale \/ UNCHANGED manifest
    PROVE  IndexIInv'
<1> DEFINE new == [step |-> "sync", list |-> records', left |-> left]
<1>1. new \in Syncing /\ new.step = "sync" /\ new.list = records'
  BY DEF SourcesFit, Syncing
<1>2. new \in Builds
  BY <1>1 DEF Builds
<1>3. builder' = [builder EXCEPT ![b] = new]
  OBVIOUS
<1> HIDE DEF new
<1>4. builder'[b] = new
  BY <1>3 DEF IndexIInv, BuildsFit
<1>5. database.known # b
  BY DEF IndexIInv, BuildsFit, BuildFits, NoBuild
<1>6. ListedBefore(builder[b].list)'
  BY <1>1, <1>4, NewList DEF ListedBefore
<1>7. BuildFits(b)'
  BY <1>1, <1>4, <1>5, <1>6 DEF BuildFits
<1> QED BY <1>2, <1>3, <1>7, OwnBuild

LEMMA SaveRecordStep ==
    ASSUME IndexIInv, NEW b \in Builder, NEW r \in Record, SaveRecord(b, r) PROVE IndexIInv'
<1> DEFINE left == {x \in Record : records'[x] > 0}
<1>1. /\ builder[b] = NoBuild /\ records' = [records EXCEPT ![r] = records[r] + 1]
      /\ indexCount' = [indexCount EXCEPT !.changes = indexCount.changes + 1]
      /\ indexCount.changes < MaxChanges
      /\ builder' = [builder EXCEPT ![b] = [step |-> "sync", list |-> records', left |-> left]]
      /\ UNCHANGED <<workspace, fileNodes, readable, database, manifest>>
  BY DEF SaveRecord, Use
<1>2. /\ records \in Lists /\ fileNodes \in NodeSets /\ workspace \in Nat /\ readable \in BOOLEAN
      /\ indexCount \in [changes : 0 .. MaxChanges, refreshes : Int, mishaps : Int]
      /\ \A x \in Record : records[x] <= indexCount.changes + 1
      /\ \A x \in Record : fileNodes[x].shows <= records[x]
  BY DEF IndexIInv, SourcesFit
<1>3. /\ indexCount' \in [changes : 0 .. MaxChanges, refreshes : Int, mishaps : Int]
      /\ indexCount'.changes = indexCount.changes + 1 /\ indexCount.changes \in Nat
  BY <1>1, <1>2, BoundAssumption
<1>4. /\ records' \in Lists
      /\ \A x \in Record : records[x] \in Nat /\ records'[x] \in {records[x], records[x] + 1}
  BY <1>1, <1>2 DEF Lists
<1>5. \A x \in Record : /\ records[x] <= records'[x] /\ records'[x] <= indexCount'.changes + 1
                        /\ fileNodes'[x].shows <= records'[x]
  <2> SUFFICES ASSUME NEW x \in Record
               PROVE  /\ records[x] <= records'[x] /\ records'[x] <= indexCount'.changes + 1
                      /\ fileNodes[x].shows <= records'[x]
    BY <1>1
  <2>1. fileNodes[x].shows \in Nat /\ fileNodes[x].shows <= records[x]
        /\ records[x] <= indexCount.changes + 1
    BY <1>2 DEF NodeSets
  <2> QED BY <1>3, <1>4, <2>1
<1>6. SourcesFit'
  BY <1>1, <1>2, <1>3, <1>4, <1>5 DEF SourcesFit
<1>7. SourcesGrow
  BY <1>1, <1>2, <1>5, NodesBeforeItself DEF SourcesGrow
<1>8. left \in SUBSET Record
  OBVIOUS
<1> HIDE DEF left
<1> QED BY <1>1, <1>6, <1>7, <1>8, StartedBuild

LEMMA RefreshStep ==
    ASSUME IndexIInv, NEW b \in Builder, Refresh(b) PROVE IndexIInv'
<1> DEFINE left == {x \in Record : records[x] > 0}
<1>1. /\ builder[b] = NoBuild /\ MarkStale
      /\ builder' = [builder EXCEPT ![b] = [step |-> "sync", list |-> records, left |-> left]]
      /\ UNCHANGED <<records, workspace, fileNodes, readable, database>>
      /\ indexCount' = [indexCount EXCEPT !.refreshes = indexCount.refreshes + 1]
  BY DEF Refresh, StartBuild, Use
<1>2. /\ indexCount' \in [changes : 0 .. MaxChanges, refreshes : Int, mishaps : Int]
      /\ indexCount'.changes = indexCount.changes
  BY <1>1 DEF IndexIInv, SourcesFit
<1>3. SourcesFit'
  BY <1>1, <1>2 DEF IndexIInv, SourcesFit
<1>4. SourcesGrow
  BY <1>1, NodesBeforeItself DEF IndexIInv, SourcesFit, SourcesGrow, Lists
<1>5. left \in SUBSET Record
  OBVIOUS
<1> HIDE DEF left
<1>6. builder' = [builder EXCEPT ![b] = [step |-> "sync", list |-> records', left |-> left]]
  BY <1>1
<1> QED BY <1>1, <1>3, <1>4, <1>5, <1>6, StartedBuild

LEMMA TickStep ==
    ASSUME IndexIInv, Tick PROVE IndexIInv'
<1> DEFINE left == {x \in Record : records[x] > 0}
<1>1. /\ builder[Worker] = NoBuild /\ MarkStale
      /\ builder' = [builder EXCEPT ![Worker] = [step |-> "sync", list |-> records, left |-> left]]
      /\ UNCHANGED <<records, workspace, fileNodes, readable, database, indexCount>>
  BY DEF Tick, StartBuild
<1>2. SourcesFit' /\ SourcesGrow
  BY <1>1, SourcesStay DEF IndexIInv
<1>3. left \in SUBSET Record
  OBVIOUS
<1> HIDE DEF left
<1>4. builder' = [builder EXCEPT ![Worker] = [step |-> "sync", list |-> records', left |-> left]]
  BY <1>1
<1> QED BY <1>1, <1>2, <1>3, <1>4, WorkerAssumption, StartedBuild

LEMMA SyncNodeStep ==
    ASSUME IndexIInv, NEW b \in Builder, SyncNode(b) PROVE IndexIInv'
<1> USE DEF IndexIInv
<1>1. PICK r \in builder[b].left :
         /\ builder' = [builder EXCEPT ![b].left = builder[b].left \ {r}]
         /\ fileNodes' = IF fileNodes[r].shows = builder[b].list[r] THEN fileNodes
                          ELSE [fileNodes EXCEPT ![r] = [shows |-> builder[b].list[r],
                                                         writes |-> fileNodes[r].writes + 1]]
  BY DEF SyncNode
<1>2. /\ builder[b].step = "sync"
      /\ UNCHANGED <<records, workspace, readable, database, manifest, indexCount>>
  BY DEF SyncNode
<1> DEFINE old == builder[b]
           new == [old EXCEPT !.left = old.left \ {r}]
           node == [shows |-> old.list[r], writes |-> fileNodes[r].writes + 1]
<1>3. /\ old \in Syncing /\ r \in Record /\ old.list \in Lists /\ ListedBefore(old.list)
      /\ database.known # b
  BY <1>1, <1>2, BuildShape DEF BuildsFit, BuildFits, Syncing
<1>4. builder' = [builder EXCEPT ![b] = new]
  BY <1>1
<1>5. new \in Syncing /\ new.step = "sync" /\ new.list = old.list
  BY <1>3 DEF Syncing
<1> HIDE DEF new
<1>6. /\ fileNodes[r].writes \in Nat /\ old.list[r] \in Nat /\ old.list[r] <= records[r]
      /\ \A x \in Record : /\ fileNodes[x].writes \in Nat /\ fileNodes[x].shows \in Nat
                           /\ fileNodes[x].shows <= records[x]
  BY <1>3 DEF ListedBefore, Lists, SourcesFit, NodeSets
<1>7. node \in [shows : Nat, writes : Nat] /\ node.shows = old.list[r]
      /\ node.writes = fileNodes[r].writes + 1
  BY <1>6
<1>8. fileNodes' = fileNodes \/ fileNodes' = [fileNodes EXCEPT ![r] = node]
  BY <1>1
<1> HIDE DEF node
<1>9. /\ fileNodes' \in NodeSets
      /\ \A x \in Record : fileNodes'[x] = fileNodes[x] \/ (x = r /\ fileNodes'[x] = node)
  BY <1>7, <1>8 DEF SourcesFit, NodeSets
<1>10. SourcesFit'
  BY <1>2, <1>6, <1>7, <1>9 DEF SourcesFit
<1>11. SourcesGrow
  <2>1. NodesBefore(fileNodes, fileNodes')
    BY <1>6, <1>7, <1>9 DEF NodesBefore
  <2> QED BY <1>2, <2>1 DEF SourcesGrow, SourcesFit, Lists
<1>12. BuildFits(b)'
  <2>1. builder'[b] = new
    BY <1>4 DEF BuildsFit
  <2>2. ListedBefore(builder[b].list)'
    BY <1>2, <1>3, <1>5, <2>1 DEF ListedBefore
  <2> QED BY <1>2, <1>3, <1>5, <2>1, <2>2 DEF BuildFits
<1> QED BY <1>2, <1>4, <1>5, <1>10, <1>11, <1>12, OwnBuild DEF Builds

LEMMA ReadRecordsStep ==
    ASSUME IndexIInv, NEW b \in Builder, ReadRecords(b) PROVE IndexIInv'
<1> DEFINE new == [step |-> "read", list |-> records]
<1>1. /\ builder[b].step = "sync" /\ builder' = [builder EXCEPT ![b] = new]
      /\ UNCHANGED <<records, workspace, fileNodes, readable, database, manifest, indexCount>>
  BY DEF ReadRecords
<1>2. SourcesFit' /\ SourcesGrow
  BY <1>1, SourcesStay DEF IndexIInv
<1>3. new \in Reading /\ new.step = "read" /\ new.list = records
  BY DEF IndexIInv, SourcesFit, Reading
<1> HIDE DEF new
<1>4. builder'[b] = new /\ database.known # b
  BY <1>1 DEF IndexIInv, BuildsFit, BuildFits
<1>5. ListedBefore(builder[b].list)'
  BY <1>1, <1>2, <1>3, <1>4, NewList DEF ListedBefore
<1>6. BuildFits(b)'
  BY <1>1, <1>3, <1>4, <1>5 DEF BuildFits
<1> QED BY <1>1, <1>2, <1>3, <1>6, OwnBuild DEF Builds

LEMMA SignStep ==
    ASSUME IndexIInv, NEW b \in Builder, Sign(b) PROVE IndexIInv'
<1> USE DEF IndexIInv
<1> DEFINE new == [step |-> "signed", list |-> builder[b].list, had |-> HasReadyIndex,
                   signature |-> Signature]
<1>1. /\ builder[b].step = "read" /\ builder' = [builder EXCEPT ![b] = new]
      /\ UNCHANGED <<records, workspace, fileNodes, readable, database, manifest, indexCount>>
  BY DEF Sign
<1>2. SourcesFit' /\ SourcesGrow
  BY <1>1, SourcesStay
<1>3. builder[b].list \in Lists /\ ListedBefore(builder[b].list) /\ database.known # b
  BY <1>1, BuildShape DEF BuildsFit, BuildFits, Reading
<1>4. Signature \in Signatures /\ HasReadyIndex \in BOOLEAN
  <2>1. Signature \in Signatures
    BY DEF Signature, Signatures, SourcesFit
  <2>2. manifest # Unpublished => manifest.filled \in BOOLEAN
    BY DEF ManifestFits, Manifests
  <2> QED BY <2>1, <2>2 DEF HasReadyIndex
<1>5. new \in Signing /\ new.step = "signed" /\ new.list = builder[b].list
      /\ new.signature = Signature
  BY <1>3, <1>4 DEF Signing
<1> HIDE DEF new
<1>6. builder'[b] = new
  BY <1>1 DEF BuildsFit
<1>7. ListedBefore(builder[b].list)'
  BY <1>1, <1>3, <1>5, <1>6 DEF ListedBefore
<1>8. SignedBefore(builder[b].signature)'
  <2>1. NodesBefore(fileNodes, fileNodes)
    BY NodesBeforeItself DEF SourcesFit
  <2>2. Signature.nodes = fileNodes /\ Signature.workspace = workspace /\ workspace \in Nat
    BY DEF Signature, SourcesFit
  <2> QED BY <1>1, <1>5, <1>6, <2>1, <2>2 DEF SignedBefore
<1>9. BuildFits(b)'
  BY <1>1, <1>3, <1>5, <1>6, <1>7, <1>8 DEF BuildFits
<1> QED BY <1>1, <1>2, <1>5, <1>9, OwnBuild DEF Builds

\* The database of a transaction that read the threads and nodes after its signature
\* was taken fits the signature.
LEMMA CommitIndexStep ==
    ASSUME IndexIInv, NEW b \in Builder, CommitIndex(b) PROVE IndexIInv'
<1> USE DEF IndexIInv
<1> DEFINE old == builder[b]
           failed == Stored(old.list) /\ ~readable
           status == IF failed THEN "failed" ELSE "ready"
           filled == Stored(old.list) /\ ~failed
           new == [step |-> "committed", signature |-> old.signature, status |-> status,
                   filled |-> filled]
           files == IF failed THEN NoFiles ELSE old.list
           torn == old.list # old.signature.records
<1>1. /\ old.step = "signed" /\ builder' = [builder EXCEPT ![b] = new]
      /\ database' = [known |-> b, files |-> files, nodes |-> fileNodes,
                      workspace |-> workspace, torn |-> torn]
      /\ UNCHANGED <<records, workspace, fileNodes, readable, manifest, indexCount>>
  BY DEF CommitIndex
<1>2. SourcesFit' /\ SourcesGrow
  BY <1>1, SourcesStay
<1>3. /\ old.list \in Lists /\ ListedBefore(old.list) /\ old.signature \in Signatures
      /\ SignedBefore(old.signature)
  BY <1>1, BuildShape DEF BuildsFit, BuildFits, Signing
<1>4. failed \in BOOLEAN /\ filled \in BOOLEAN /\ torn \in BOOLEAN
      /\ status \in {"ready", "failed"} /\ (status = "ready" => files = old.list)
  BY DEF Stored
<1>5. files \in Lists /\ \A r \in Record : files[r] <= records[r]
  <2>1. NoFiles \in Lists /\ \A r \in Record : NoFiles[r] <= records[r]
    BY DEF NoFiles, Lists, SourcesFit
  <2> QED BY <1>3, <2>1 DEF ListedBefore
<1> HIDE DEF failed, status, filled, files
<1>6. new \in Committing /\ new.step = "committed" /\ new.signature = old.signature
      /\ new.status = status
  BY <1>3, <1>4 DEF Committing
<1> HIDE DEF new
<1>7. builder'[b] = new /\ builder' \in [Builder -> Builds]
  BY <1>1, <1>6 DEF BuildsFit, Builds
<1>8. /\ database'.known = b /\ database'.files = files /\ database'.nodes = fileNodes
      /\ database'.workspace = workspace /\ database'.torn = torn
  BY <1>1
<1>9. DatabaseFits'
  <2>1. database' \in [known : Builder \cup {"manifest", "nobody"}, files : Lists,
                       nodes : NodeSets, workspace : Nat, torn : BOOLEAN]
    BY <1>1, <1>4, <1>5 DEF SourcesFit
  <2>2. NodesBefore(fileNodes, fileNodes) /\ workspace \in Nat
    BY NodesBeforeItself DEF SourcesFit
  <2> QED BY <1>1, <1>5, <1>8, <2>1, <2>2 DEF DatabaseFits, ListedBefore
<1>10. ManifestFits'
  BY <1>1, <1>8, NamesAssumption DEF ManifestFits
<1>11. BuildFits(b)'
  BY <1>3, <1>4, <1>6, <1>7, <1>8 DEF BuildFits, Fits, SignedBefore
<1>12. ASSUME NEW q \in Builder, q # b PROVE BuildFits(q)'
  <2>1. builder'[q] = builder[q]
    BY <1>1, <1>12 DEF BuildsFit
  <2> QED BY <1>2, <1>8, <1>12, <2>1, OthersStay
<1> QED BY <1>2, <1>7, <1>9, <1>10, <1>11, <1>12 DEF BuildsFit

LEMMA KeepPreviousStep ==
    ASSUME IndexIInv, NEW b \in Builder, KeepPrevious(b) PROVE IndexIInv'
<1>1. /\ builder[b].step = "signed" /\ builder' = [builder EXCEPT ![b] = NoBuild]
      /\ UNCHANGED <<records, workspace, fileNodes, readable, database, manifest, indexCount>>
  BY DEF KeepPrevious
<1>2. SourcesFit' /\ SourcesGrow
  BY <1>1, SourcesStay DEF IndexIInv
<1>3. builder'[b] = NoBuild /\ database.known # b
  BY <1>1 DEF IndexIInv, BuildsFit, BuildFits
<1>4. BuildFits(b)'
  BY <1>1, <1>3 DEF BuildFits, NoBuild
<1> QED BY <1>1, <1>2, <1>4, OwnBuild DEF Builds

LEMMA PublishIndexStep ==
    ASSUME IndexIInv, NEW b \in Builder, PublishIndex(b) PROVE IndexIInv'
<1> USE DEF IndexIInv
<1>1. /\ builder[b].step = "committed" /\ builder' = [builder EXCEPT ![b] = NoBuild]
      /\ UNCHANGED <<records, workspace, fileNodes, readable, indexCount>>
  BY DEF PublishIndex
<1>2. SourcesFit' /\ SourcesGrow
  BY <1>1, SourcesStay
<1>3. builder'[b] = NoBuild /\ builder' \in [Builder -> Builds]
  BY <1>1 DEF BuildsFit, Builds
<1>4. CASE database.known # b
  <2>1. UNCHANGED <<manifest, database>>
    BY <1>4 DEF PublishIndex
  <2>2. BuildFits(b)'
    BY <1>3, <1>4, <2>1 DEF BuildFits, NoBuild
  <2> QED BY <1>1, <1>2, <2>1, <2>2, OwnBuild DEF Builds
<1>5. CASE database.known = b
  <2> DEFINE build == builder[b]
             new == [signature |-> build.signature, status |-> build.status,
                     filled |-> build.filled]
  <2>1. manifest' = new /\ database' = [database EXCEPT !.known = "manifest"]
    BY <1>5 DEF PublishIndex
  <2>2. build \in Committing /\ Fits(build.signature, build.status)
    BY <1>1, <1>5, BuildShape DEF BuildsFit, BuildFits
  <2>3. new \in Manifests /\ new.signature = build.signature /\ new.status = build.status
    BY <2>2 DEF Committing, Manifests
  <2>4. /\ database'.known = "manifest" /\ database'.files = database.files
        /\ database'.nodes = database.nodes /\ database'.workspace = database.workspace
        /\ database'.torn = database.torn
    BY <2>1 DEF DatabaseFits
  <2>5. DatabaseFits'
    BY <1>2, <2>1, DatabaseStays
  <2> HIDE DEF new
  <2>6. ManifestFits'
    BY <2>1, <2>2, <2>3, <2>4, NamesAssumption DEF ManifestFits, Fits
  <2>7. BuildFits(b)'
    BY <1>3, <2>4, NamesAssumption DEF BuildFits, NoBuild
  <2>8. ASSUME NEW q \in Builder, q # b PROVE BuildFits(q)'
    <3>1. builder'[q] = builder[q] /\ database'.known # q
      BY <1>1, <2>4, <2>8, NamesAssumption DEF BuildsFit
    <3> QED BY <1>2, <3>1, OthersStay
  <2> QED BY <1>2, <1>3, <2>5, <2>6, <2>7, <2>8 DEF BuildsFit
<1> QED BY <1>4, <1>5

LEMMA DieBuildingStep ==
    ASSUME IndexIInv, NEW b \in Builder, DieBuilding(b) PROVE IndexIInv'
<1> USE DEF IndexIInv
<1>1. /\ builder' = [builder EXCEPT ![b] = NoBuild]
      /\ indexCount' = [indexCount EXCEPT !.mishaps = indexCount.mishaps + 1]
      /\ database' = IF database.known = b THEN [database EXCEPT !.known = "nobody"] ELSE database
      /\ UNCHANGED <<records, workspace, fileNodes, readable, manifest>>
  BY DEF DieBuilding, Use
<1>2. /\ indexCount' \in [changes : 0 .. MaxChanges, refreshes : Int, mishaps : Int]
      /\ indexCount'.changes = indexCount.changes
  BY <1>1 DEF SourcesFit
<1>3. SourcesFit' /\ SourcesGrow
  BY <1>1, <1>2, NodesBeforeItself DEF SourcesFit, SourcesGrow, Lists
<1>4. DatabaseFits'
  BY <1>1, <1>3, DatabaseStays
<1>5. /\ database'.known = IF database.known = b THEN "nobody" ELSE database.known
      /\ database'.files = database.files /\ database'.nodes = database.nodes
      /\ database'.workspace = database.workspace /\ database'.torn = database.torn
  BY <1>1 DEF DatabaseFits
<1>6. ManifestFits'
  BY <1>1, <1>5 DEF ManifestFits, Fits
<1>7. builder'[b] = NoBuild /\ builder' \in [Builder -> Builds] /\ database'.known # b
  BY <1>1, <1>5, NamesAssumption DEF BuildsFit, Builds
<1>8. BuildFits(b)'
  BY <1>7 DEF BuildFits, NoBuild
<1>9. ASSUME NEW q \in Builder, q # b PROVE BuildFits(q)'
  <2>1. builder'[q] = builder[q]
    BY <1>1, <1>9 DEF BuildsFit
  <2>2. database' = database \/ database'.known # q
    BY <1>1, <1>5, NamesAssumption
  <2> QED BY <1>3, <2>1, <2>2, OthersStay
<1> QED BY <1>3, <1>4, <1>6, <1>7, <1>8, <1>9 DEF BuildsFit

\* Threads that are written, blobs that come and go, and steps that change nothing.
LEMMA OutsideStep ==
    ASSUME IndexIInv, SourcesFit', SourcesGrow, UNCHANGED <<database, manifest, builder>>
    PROVE  IndexIInv'
<1>1. DatabaseFits' /\ ManifestFits'
  BY DatabaseStays, ManifestStays
<1>2. \A q \in Builder : BuildFits(q)'
  BY OthersStay
<1> QED BY <1>1, <1>2 DEF IndexIInv, BuildsFit

LEMMA IndexIInvStep ==
    ASSUME IndexIInv, [IndexNext]_indexVars PROVE IndexIInv'
<1>1. CASE EditWorkspace
  <2>1. /\ workspace' = workspace + 1
        /\ indexCount' = [indexCount EXCEPT !.changes = indexCount.changes + 1]
        /\ indexCount.changes < MaxChanges
        /\ UNCHANGED <<records, fileNodes, readable, database, manifest, builder>>
    BY <1>1 DEF EditWorkspace, Use
  <2>2. /\ indexCount' \in [changes : 0 .. MaxChanges, refreshes : Int, mishaps : Int]
        /\ indexCount'.changes = indexCount.changes + 1 /\ indexCount.changes \in Nat
        /\ workspace \in Nat /\ \A r \in Record : records[r] \in Nat
    BY <2>1, BoundAssumption DEF IndexIInv, SourcesFit, Lists
  <2>3. \A r \in Record : records'[r] <= indexCount'.changes + 1
    BY <2>1, <2>2 DEF IndexIInv, SourcesFit
  <2>4. SourcesFit'
    BY <2>1, <2>2, <2>3 DEF IndexIInv, SourcesFit
  <2>5. SourcesGrow
    BY <2>1, <2>2, NodesBeforeItself DEF IndexIInv, SourcesFit, SourcesGrow
  <2> QED BY <2>1, <2>4, <2>5, OutsideStep
<1>2. CASE Outage
  <2>1. /\ readable' = ~readable
        /\ indexCount' = [indexCount EXCEPT !.mishaps = indexCount.mishaps + 1]
        /\ UNCHANGED <<records, workspace, fileNodes, database, manifest, builder>>
    BY <1>2 DEF Outage, Use
  <2>2. /\ indexCount' \in [changes : 0 .. MaxChanges, refreshes : Int, mishaps : Int]
        /\ indexCount'.changes = indexCount.changes
    BY <2>1 DEF IndexIInv, SourcesFit
  <2>3. SourcesFit' /\ SourcesGrow
    BY <2>1, <2>2, NodesBeforeItself DEF IndexIInv, SourcesFit, SourcesGrow, Lists
  <2> QED BY <2>1, <2>3, OutsideStep
<1>3. CASE UNCHANGED indexVars
  BY <1>3, SourcesStay, OutsideStep DEF indexVars, IndexIInv
<1>4. CASE \E b \in Builder : Build(b)
  BY <1>4, SyncNodeStep, ReadRecordsStep, SignStep, CommitIndexStep, KeepPreviousStep,
     PublishIndexStep DEF Build
<1>5. CASE \E b \in Builder : Refresh(b) \/ DieBuilding(b)
  BY <1>5, RefreshStep, DieBuildingStep
<1>6. CASE \E b \in Builder, r \in Record : SaveRecord(b, r)
  BY <1>6, SaveRecordStep
<1> QED BY <1>1, <1>2, <1>3, <1>4, <1>5, <1>6, TickStep DEF IndexNext

LEMMA IndexIInvStart ==
    ASSUME IndexInit PROVE IndexIInv
<1>1. /\ records \in Lists /\ fileNodes \in NodeSets /\ NoFiles \in Lists /\ NoNodes \in NodeSets
      /\ \A r \in Record : records[r] \in 0 .. 1 /\ NoFiles[r] = 0 /\ fileNodes[r].shows = 0
  BY DEF IndexInit, Lists, NodeSets, NoFiles, NoNodes
<1>2. /\ indexCount \in [changes : 0 .. MaxChanges, refreshes : Int, mishaps : Int]
      /\ indexCount.changes = 0
  BY BoundAssumption DEF IndexInit
<1>3. SourcesFit
  BY <1>1, <1>2 DEF IndexInit, SourcesFit
<1>4. /\ database \in [known : Builder \cup {"manifest", "nobody"}, files : Lists,
                       nodes : NodeSets, workspace : Nat, torn : BOOLEAN]
      /\ database.known = "nobody" /\ database.files = NoFiles /\ database.nodes = fileNodes
      /\ database.workspace = workspace /\ workspace = 0
  BY <1>1 DEF IndexInit
<1>5. DatabaseFits
  BY <1>1, <1>4, NodesBeforeItself DEF DatabaseFits, ListedBefore
<1>6. ManifestFits
  BY <1>4 DEF IndexInit, ManifestFits
<1>7. BuildsFit
  <2>1. builder \in [Builder -> Builds] /\ \A b \in Builder : builder[b].step = "idle"
    BY DEF IndexInit, Builds, NoBuild
  <2> QED BY <1>4, <2>1, NamesAssumption DEF BuildsFit, BuildFits
<1> QED BY <1>3, <1>5, <1>6, <1>7 DEF IndexIInv

\* Whatever importers, owners and other programs write while any number of builders
\* list, sign, commit, publish and die: an index a search may use shows the threads and
\* nodes as they are, and the files too unless its builder saw them change between its
\* list and its signature (library_index, library_refresh).
THEOREM IndexIsCurrent == IndexSpec => []IndexInv
<1>1. IndexInit => IndexIInv
  BY IndexIInvStart
<1>2. IndexIInv /\ [IndexNext]_indexVars => IndexIInv'
  BY IndexIInvStep
<1>3. IndexIInv => IndexInv
  <2> SUFFICES ASSUME IndexIInv PROVE IndexInv
    OBVIOUS
  <2> USE DEF IndexIInv
  <2>1. indexCount.changes + 1 <= MaxChanges + 1 /\ indexCount.changes \in Nat
    BY BoundAssumption DEF SourcesFit
  <2>2. \A f \in {records, database.files} : f \in [Record -> 0 .. MaxChanges + 1]
    <3>1. /\ records \in Lists /\ database.files \in Lists
          /\ \A r \in Record : /\ records[r] <= indexCount.changes + 1
                               /\ database.files[r] <= records[r]
      BY DEF SourcesFit, DatabaseFits, ListedBefore
    <3>2. \A r \in Record : /\ records[r] \in 0 .. MaxChanges + 1
                            /\ database.files[r] \in 0 .. MaxChanges + 1
      BY <2>1, <3>1, BoundAssumption DEF Lists
    <3> QED BY <3>1, <3>2 DEF Lists
  <2>3. IndexTypeOK
    <3>1. \A b \in Builder : builder[b].step \in {"idle", "sync", "read", "signed", "committed"}
      BY BuildShape DEF BuildsFit
    <3> QED BY <2>2, <3>1 DEF IndexTypeOK, SourcesFit, DatabaseFits, ManifestFits
  <2>4. ReadyIsCurrent
    <3> SUFFICES ASSUME IndexStatus = "ready"
                 PROVE  /\ database.workspace = workspace /\ database.nodes = fileNodes
                        /\ database.torn \/ database.files = records
      BY DEF ReadyIsCurrent
    <3>1. /\ manifest # Unpublished /\ manifest.signature = Signature
          /\ database.known = "manifest" /\ manifest.status = "ready"
      BY DEF IndexStatus
    <3>2. Fits(Signature, "ready")
      BY <3>1 DEF ManifestFits
    <3>3. /\ Signature.workspace = workspace /\ Signature.nodes = fileNodes
          /\ Signature.records = records
      BY DEF Signature
    <3>4. database.workspace \in Nat /\ workspace \in Nat /\ database.nodes \in NodeSets
          /\ fileNodes \in NodeSets
      BY DEF DatabaseFits, SourcesFit
    <3>5. database.nodes = fileNodes
      BY <3>2, <3>3, <3>4, NodesBeforeSame DEF Fits, DatabaseFits
    <3> QED BY <3>2, <3>3, <3>4, <3>5 DEF Fits, DatabaseFits
  <2> QED BY <2>3, <2>4 DEF IndexInv
<1> QED BY <1>1, <1>2, <1>3, PTL DEF IndexSpec

(***************************************************************************)
(* LibraryUploads: the inductive invariant                                  *)
(***************************************************************************)

PublisherState ==
    [step : {"idle", "publish", "unlink", "record", "read", "link", "answer"},
     via : {"nothing", "upload", "folder"}, content : Content \cup {NoContent},
     record : {0} \cup RecordId, seen : Nat, list : SUBSET RecordId]

UploadRow ==
    [state : {"none", "receiving", "committed", "aborted"},
     content : Content \cup {NoContent}, record : {0} \cup RecordId, next : 0 .. Size]

Card == [content : Content, via : {"upload", "folder"}]

UploadShapes ==
    /\ uploads \in [Transfer -> UploadRow]
    /\ blocks \in [Transfer -> Seq(BOOLEAN)]
    /\ commit \in PublisherState /\ import \in PublisherState
    /\ copies \in [Content -> {"absent", "paired", "stored"}]
    /\ cards \in [RecordId -> {NoCard} \cup Card]
    /\ placed \subseteq RecordId /\ listed \subseteq RecordId
    /\ threadRevision \in Nat
    /\ importLog \in [Content -> [state : {"none", "pending", "stored"},
                                  record : {0} \cup RecordId]]
    /\ uploadCount \in [records : 0 .. MaxRecords, deaths : Nat, notes : Nat]

BegunTransfers == {t \in Transfer : uploads[t].state # "none"}

\* The records of transfers are theirs alone, and hold what their manifests name.
TransfersFit ==
    \A t \in BegunTransfers :
        /\ uploads[t].content \in Content
        /\ uploads[t].record \in 1 .. uploadCount.records
        /\ cards[uploads[t].record]
              \in {NoCard, [content |-> uploads[t].content, via |-> "upload"]}
        /\ \A u \in BegunTransfers : uploads[u].record = uploads[t].record => u = t

\* What was acknowledged is there and linked.
AcknowledgedFit ==
    \A t \in BegunTransfers : uploads[t].state = "committed" =>
        /\ cards[uploads[t].record] = [content |-> uploads[t].content, via |-> "upload"]
        /\ uploads[t].record \in listed

BlocksFit ==
    \A t \in Transfer :
        Len(blocks[t]) = IF uploads[t].state = "receiving" THEN uploads[t].next ELSE 0

\* A record has its copy, and one that came in blocks has its transfer.
CardsFit ==
    \A r \in RecordId : cards[r] # NoCard =>
        /\ r <= uploadCount.records
        /\ copies[cards[r].content] # "absent"
        /\ cards[r].via = "upload" => \E t \in BegunTransfers : uploads[t].record = r

LogFits ==
    \A c \in Content : importLog[c].state = "stored" =>
        /\ importLog[c].record # 0
        /\ cards[importLog[c].record] = [content |-> c, via |-> "folder"]

\* What a writer has behind it is in the files, and the thread it read is the one of
\* the revision it saw.
PublisherFits(p) ==
    p.step # "idle" =>
        /\ p.content \in Content /\ p.via # "nothing"
        /\ p.step # "publish" => copies[p.content] # "absent"
        /\ p.step \in {"read", "link", "answer"} =>
              p.record \in RecordId /\ cards[p.record] = [content |-> p.content, via |-> p.via]
        /\ p.step = "link" =>
              p.seen <= threadRevision /\ (p.seen = threadRevision => p.list = listed)
        /\ p.step = "answer" => p.record \in listed

\* A commit is one of a transfer that is still received.
CommitFits ==
    commit.step # "idle" =>
        /\ commit.via = "upload"
        /\ \E t \in BegunTransfers : /\ uploads[t].state = "receiving"
                            /\ uploads[t].record = commit.record
                            /\ uploads[t].content = commit.content

ImportFits ==
    import.step # "idle" =>
        /\ import.via = "folder"
        /\ import.step \in {"publish", "unlink", "record"} => import.record = 0

TransfersCounted ==
    /\ IsFiniteSet(Active) /\ Cardinality(Active) <= MaxActive
    /\ IsFiniteSet(BegunTransfers)

UploadsIInv ==
    /\ UploadShapes /\ TransfersFit /\ AcknowledgedFit /\ BlocksFit /\ CardsFit /\ LogFits
    /\ PublisherFits(commit) /\ PublisherFits(import)
    /\ CommitFits /\ ImportFits /\ TransfersCounted

\* No step takes a record, a copy or a link away, nor changes the thread unnoticed.
Grown ==
    /\ \A r \in RecordId : cards[r] # NoCard => cards'[r] = cards[r]
    /\ \A c \in Content : copies[c] # "absent" => copies'[c] # "absent"
    /\ listed \subseteq listed' /\ threadRevision <= threadRevision'
    /\ threadRevision' = threadRevision => listed' = listed

LEMMA NoCardIsNone ==
    /\ \A c : [content |-> c, via |-> "upload"] # NoCard
    /\ \A c : [content |-> c, via |-> "folder"] # NoCard
    /\ \A c, d : [content |-> c, via |-> "folder"] # [content |-> d, via |-> "upload"]
<1>1. NoCard.via = "nothing" BY DEF NoCard
<1>2. \A c : [content |-> c, via |-> "upload"].via = "upload" OBVIOUS
<1>3. \A c : [content |-> c, via |-> "folder"].via = "folder" OBVIOUS
<1> QED BY <1>1, <1>2, <1>3

LEMMA IdleShape == Idle \in PublisherState /\ Idle.step = "idle"
BY UploadsAssumption DEF Idle, PublisherState, RecordId

\* What a writer has behind it stays behind it.
LEMMA PublisherStillFits ==
    ASSUME UploadShapes, UploadShapes', Grown, NEW p \in PublisherState, PublisherFits(p)
    PROVE  PublisherFits(p)'
<1> SUFFICES ASSUME p.step # "idle" PROVE
        /\ p.content \in Content /\ p.via # "nothing"
        /\ p.step # "publish" => copies'[p.content] # "absent"
        /\ p.step \in {"read", "link", "answer"} =>
              p.record \in RecordId /\ cards'[p.record] = [content |-> p.content, via |-> p.via]
        /\ p.step = "link" =>
              p.seen <= threadRevision' /\ (p.seen = threadRevision' => p.list = listed')
        /\ p.step = "answer" => p.record \in listed'
    BY DEF PublisherFits
<1>1. p.content \in Content /\ p.via # "nothing" /\ (p.step # "publish" => copies'[p.content] # "absent")
    BY DEF PublisherFits, Grown
<1>2. ASSUME p.step \in {"read", "link", "answer"}
      PROVE  p.record \in RecordId /\ cards'[p.record] = [content |-> p.content, via |-> p.via]
    <2>1. p.record \in RecordId /\ cards[p.record] = [content |-> p.content, via |-> p.via]
        BY <1>2 DEF PublisherFits
    <2>3. cards[p.record] # NoCard BY <1>1, <2>1, NoCardIsNone DEF PublisherState
    <2> QED BY <2>1, <2>3 DEF Grown
<1>3. p.step = "link" => p.seen <= threadRevision' /\ (p.seen = threadRevision' => p.list = listed')
    BY DEF PublisherFits, Grown, UploadShapes, PublisherState
<1>4. p.step = "answer" => p.record \in listed' BY DEF PublisherFits, Grown
<1> QED BY <1>1, <1>2, <1>3, <1>4

\* The record a writer is about to write is its transfer's, or a new one.
RecordIsOwn(p) ==
    p.step # "idle" =>
        \/ /\ p.via = "upload"
           /\ \E t \in BegunTransfers : uploads[t].record = p.record /\ uploads[t].content = p.content
        \/ /\ p.via = "folder"
           /\ p.step \in {"publish", "unlink", "record"} => p.record = 0

\* What PublishNext leaves of the writer it is a step of.
Followed(p, q) ==
    \/ q = Idle
    \/ /\ q.step \notin {"idle", "publish"}
       /\ q.via = p.via /\ q.content = p.content
       /\ p.record # 0 \/ q.step \notin {"read", "link", "answer"} => q.record = p.record

LEMMA PublishTypes ==
    ASSUME UploadShapes, NEW p \in PublisherState, NEW q, PublishNext(p, q),
           PublisherFits(p), RecordIsOwn(p)
    PROVE  /\ q \in PublisherState /\ Followed(p, q)
           /\ copies' \in [Content -> {"absent", "paired", "stored"}]
           /\ cards' \in [RecordId -> {NoCard} \cup Card]
           /\ listed' \subseteq RecordId /\ threadRevision' \in Nat
           /\ uploadCount' \in [records : 0 .. MaxRecords, deaths : Nat, notes : Nat]
           /\ uploadCount.records <= uploadCount'.records
<1> USE DEF UploadShapes
<1>0. uploadCount.records <= uploadCount.records OBVIOUS
<1>1. CASE PublishCopy(p, q)
    <2>1. q \in PublisherState /\ Followed(p, q)
        BY <1>1 DEF PublishCopy, PublisherState, Followed
    <2>2. copies' \in [Content -> {"absent", "paired", "stored"}] BY <1>1 DEF PublishCopy
    <2> QED BY <1>0, <1>1, <2>1, <2>2 DEF PublishCopy
<1>2. CASE UnlinkPartial(p, q)
    <2>1. q \in PublisherState /\ Followed(p, q)
        BY <1>2 DEF UnlinkPartial, PublisherState, Followed
    <2>2. copies' \in [Content -> {"absent", "paired", "stored"}] BY <1>2 DEF UnlinkPartial
    <2> QED BY <1>0, <1>2, <2>1, <2>2 DEF UnlinkPartial
<1>3. CASE WriteCard(p, q)
    <2>1. PICK r \in RecordId :
              /\ r = IF p.record # 0 THEN p.record ELSE uploadCount.records + 1
              /\ cards' = [cards EXCEPT ![r] = [content |-> p.content, via |-> p.via]]
              /\ q = [p EXCEPT !.step = "read", !.record = r]
              /\ uploadCount' = [uploadCount EXCEPT !.records = IF r > @ THEN r ELSE @]
        BY <1>3 DEF WriteCard
    <2>2. q \in PublisherState BY <2>1 DEF PublisherState
    <2>3. Followed(p, q) BY <2>1, <1>3 DEF PublisherState, Followed, WriteCard
    <2>4. [content |-> p.content, via |-> p.via] \in Card
        BY <1>3 DEF PublisherFits, RecordIsOwn, Card, WriteCard
    <2>5. cards' \in [RecordId -> {NoCard} \cup Card] BY <2>1, <2>4
    <2>6. /\ uploadCount' \in [records : 0 .. MaxRecords, deaths : Nat, notes : Nat]
          /\ uploadCount.records <= uploadCount'.records
      <3>1. PICK n \in 0 .. MaxRecords :
                n = IF r > uploadCount.records THEN r ELSE uploadCount.records
          BY UploadsAssumption DEF RecordId
      <3>2. uploadCount' = [uploadCount EXCEPT !.records = n] BY <2>1, <3>1
      <3>3. uploadCount.records <= n BY <3>1, UploadsAssumption DEF RecordId
      <3> QED BY <3>2, <3>3
    <2> QED BY <1>3, <2>2, <2>3, <2>5, <2>6 DEF WriteCard
<1>4. CASE ReadThread(p, q)
    <2>1. q \in PublisherState /\ Followed(p, q)
        BY <1>4 DEF ReadThread, PublisherState, Followed
    <2> QED BY <1>0, <1>4, <2>1 DEF ReadThread
<1>5. CASE SaveLink(p, q)
    <2>1. q \in PublisherState BY <1>5, IdleShape DEF SaveLink, PublisherState
    <2>2. Followed(p, q) BY <1>5 DEF SaveLink, PublisherState, Followed
    <2>3. listed' \subseteq RecordId /\ threadRevision' \in Nat
        BY <1>5 DEF SaveLink, PublisherState, PublisherFits, RecordIsOwn, TransfersFit
    <2> QED BY <1>0, <1>5, <2>1, <2>2, <2>3 DEF SaveLink
<1> QED BY <1>1, <1>2, <1>3, <1>4, <1>5 DEF PublishNext

LEMMA PublishGrows ==
    ASSUME UploadShapes, NEW p \in PublisherState, NEW q, PublishNext(p, q),
           PublisherFits(p), RecordIsOwn(p), TransfersFit, CardsFit
    PROVE  Grown
<1> USE DEF UploadShapes, Grown
<1>1. CASE PublishCopy(p, q) BY <1>1 DEF PublishCopy
<1>2. CASE UnlinkPartial(p, q) BY <1>2 DEF UnlinkPartial
<1>3. CASE WriteCard(p, q)
    <2>1. PICK r \in RecordId :
              /\ r = IF p.record # 0 THEN p.record ELSE uploadCount.records + 1
              /\ cards' = [cards EXCEPT ![r] = [content |-> p.content, via |-> p.via]]
        BY <1>3 DEF WriteCard
    <2>2. cards[r] # NoCard => cards[r] = [content |-> p.content, via |-> p.via]
        <3>1. CASE p.via = "upload"
            <4>1. PICK t \in BegunTransfers : uploads[t].record = p.record /\ uploads[t].content = p.content
                BY <1>3, <3>1 DEF WriteCard, RecordIsOwn
            <4>2. uploads[t].record \in 1 .. uploadCount.records
                BY <4>1 DEF TransfersFit
            <4>3. r = uploads[t].record BY <2>1, <4>1, <4>2
            <4>4. cards[uploads[t].record]
                    \in {NoCard, [content |-> uploads[t].content, via |-> "upload"]}
                BY <4>1 DEF TransfersFit
            <4> QED BY <3>1, <4>1, <4>3, <4>4
        <3>2. CASE p.via # "upload"
            <4>1. r = uploadCount.records + 1
                BY <1>3, <3>2, <2>1 DEF WriteCard, RecordIsOwn
            <4>2. ~(r <= uploadCount.records) BY <4>1
            <4> QED BY <4>2 DEF CardsFit
        <3> QED BY <3>1, <3>2
    <2>3. \A s \in RecordId : cards[s] # NoCard => cards'[s] = cards[s]
        BY <2>1, <2>2
    <2> QED BY <1>3, <2>3 DEF WriteCard
<1>4. CASE ReadThread(p, q) BY <1>4 DEF ReadThread
<1>5. CASE SaveLink(p, q)
    <2>1. CASE threadRevision = p.seen
        <3>1. p.list = listed BY <1>5, <2>1 DEF SaveLink, PublisherFits
        <3> QED BY <1>5, <2>1, <3>1 DEF SaveLink
    <2>2. CASE threadRevision # p.seen BY <1>5, <2>2 DEF SaveLink
    <2> QED BY <2>1, <2>2
<1> QED BY <1>1, <1>2, <1>3, <1>4, <1>5 DEF PublishNext

LEMMA PublishFits ==
    ASSUME UploadShapes, NEW p \in PublisherState, NEW q, PublishNext(p, q),
           PublisherFits(p), Followed(p, q), Grown, q \in PublisherState
    PROVE  PublisherFits(q)'
<1> SUFFICES ASSUME q.step # "idle" PROVE
        /\ q.content \in Content /\ q.via # "nothing"
        /\ q.step # "publish" => copies'[q.content] # "absent"
        /\ q.step \in {"read", "link", "answer"} =>
              q.record \in RecordId /\ cards'[q.record] = [content |-> q.content, via |-> q.via]
        /\ q.step = "link" =>
              q.seen <= threadRevision' /\ (q.seen = threadRevision' => q.list = listed')
        /\ q.step = "answer" => q.record \in listed'
    BY DEF PublisherFits
<1>1. p.step # "idle"
    BY DEF PublishNext, PublishCopy, UnlinkPartial, WriteCard, ReadThread, SaveLink
<1>2. q.content = p.content /\ q.via = p.via BY IdleShape DEF Followed
<1>3. p.content \in Content /\ p.via # "nothing"
      /\ (p.step # "publish" => copies[p.content] # "absent")
    BY <1>1 DEF PublisherFits
<1>4. copies'[p.content] # "absent"
    <2>1. CASE PublishCopy(p, q) BY <2>1, <1>3 DEF PublishCopy, UploadShapes
    <2>2. CASE p.step # "publish" BY <2>2, <1>3 DEF Grown
    <2> QED BY <2>1, <2>2 DEF PublishNext, UnlinkPartial, WriteCard, ReadThread, SaveLink
<1>5. CASE PublishCopy(p, q) \/ UnlinkPartial(p, q)
    <2>1. q.step \in {"unlink", "record"} BY <1>5 DEF PublishCopy, UnlinkPartial, PublisherState
    <2> QED BY <2>1, <1>2, <1>3, <1>4
<1>6. CASE WriteCard(p, q)
    <2>1. PICK r \in RecordId :
              /\ cards' = [cards EXCEPT ![r] = [content |-> p.content, via |-> p.via]]
              /\ q = [p EXCEPT !.step = "read", !.record = r]
        BY <1>6 DEF WriteCard
    <2>2. q.step = "read" /\ q.record = r BY <2>1 DEF PublisherState
    <2>3. cards'[r] = [content |-> p.content, via |-> p.via] BY <2>1 DEF UploadShapes
    <2> QED BY <2>2, <2>3, <1>2, <1>3, <1>4
<1>7. CASE ReadThread(p, q)
    <2>1. /\ q.step = "link" /\ q.record = p.record /\ q.seen = threadRevision /\ q.list = listed
          /\ threadRevision' = threadRevision /\ listed' = listed /\ cards' = cards
        BY <1>7 DEF ReadThread, PublisherState
    <2>2. p.record \in RecordId /\ cards[p.record] = [content |-> p.content, via |-> p.via]
        BY <1>7 DEF ReadThread, PublisherFits
    <2> QED BY <2>1, <2>2, <1>2, <1>3, <1>4 DEF UploadShapes
<1>8. CASE SaveLink(p, q)
    <2>1. q # Idle BY IdleShape
    <2>2. /\ q.step = "answer" /\ q.record = p.record /\ listed' = p.list \cup {p.record}
          /\ cards' = cards
        BY <1>8, <2>1 DEF SaveLink, PublisherState
    <2>3. p.record \in RecordId /\ cards[p.record] = [content |-> p.content, via |-> p.via]
        BY <1>8 DEF SaveLink, PublisherFits
    <2> QED BY <2>2, <2>3, <1>2, <1>3, <1>4
<1> QED BY <1>5, <1>6, <1>7, <1>8 DEF PublishNext

\* What a step that writes no record leaves true of the records.
LEMMA CardsStillFit ==
    ASSUME UploadShapes, UploadShapes', CardsFit, Grown, cards' = cards, BegunTransfers \subseteq BegunTransfers',
           \A t \in BegunTransfers : uploads'[t].record = uploads[t].record,
           uploadCount.records <= uploadCount'.records
    PROVE  CardsFit'
<1> SUFFICES ASSUME NEW r \in RecordId, cards[r] # NoCard PROVE
        /\ r <= uploadCount'.records
        /\ copies'[cards[r].content] # "absent"
        /\ cards[r].via = "upload" => \E t \in BegunTransfers' : uploads'[t].record = r
    BY DEF CardsFit
<1>1. /\ r <= uploadCount.records /\ copies[cards[r].content] # "absent"
      /\ cards[r].via = "upload" => \E t \in BegunTransfers : uploads[t].record = r
    BY DEF CardsFit
<1>2. r <= uploadCount'.records BY <1>1, UploadsAssumption DEF UploadShapes, RecordId
<1>3. cards[r].content \in Content BY DEF UploadShapes, Card
<1>4. copies'[cards[r].content] # "absent" BY <1>1, <1>3 DEF Grown
<1>5. cards[r].via = "upload" => \E t \in BegunTransfers' : uploads'[t].record = r BY <1>1
<1> QED BY <1>2, <1>4, <1>5

LEMMA PublishedCardsFit ==
    ASSUME UploadShapes, UploadShapes', NEW p \in PublisherState, NEW q, PublishNext(p, q),
           PublisherFits(p), RecordIsOwn(p), TransfersFit, CardsFit, Grown,
           uploads' = uploads, uploadCount.records <= uploadCount'.records
    PROVE  CardsFit'
<1>0. BegunTransfers' = BegunTransfers BY DEF BegunTransfers
<1>1. CASE ~WriteCard(p, q)
    <2>1. cards' = cards
        BY <1>1 DEF PublishNext, PublishCopy, UnlinkPartial, ReadThread, SaveLink
    <2> QED BY <2>1, <1>0, CardsStillFit
<1>2. CASE WriteCard(p, q)
    <2>1. PICK r \in RecordId :
              /\ r = IF p.record # 0 THEN p.record ELSE uploadCount.records + 1
              /\ cards' = [cards EXCEPT ![r] = [content |-> p.content, via |-> p.via]]
              /\ uploadCount' = [uploadCount EXCEPT !.records = IF r > @ THEN r ELSE @]
              /\ copies' = copies
        BY <1>2 DEF WriteCard
    <2>2. r <= uploadCount'.records
        <3>1. PICK n \in 0 .. MaxRecords :
                  n = IF r > uploadCount.records THEN r ELSE uploadCount.records
            BY UploadsAssumption DEF RecordId, UploadShapes
        <3>2. uploadCount' = [uploadCount EXCEPT !.records = n] BY <2>1, <3>1
        <3>3. uploadCount'.records = n BY <3>2 DEF UploadShapes
        <3> QED BY <3>1, <3>3, UploadsAssumption DEF RecordId, UploadShapes
    <2>3. cards'[r] = [content |-> p.content, via |-> p.via] BY <2>1 DEF UploadShapes
    <2>4. copies[p.content] # "absent" BY <1>2 DEF WriteCard, PublisherFits
    <2>5. p.via = "upload" => \E t \in BegunTransfers : uploads[t].record = r
        <3>1. SUFFICES ASSUME p.via = "upload" PROVE \E t \in BegunTransfers : uploads[t].record = r
            OBVIOUS
        <3>2. PICK t \in BegunTransfers : uploads[t].record = p.record
            BY <1>2, <3>1 DEF WriteCard, RecordIsOwn
        <3>3. uploads[t].record \in 1 .. uploadCount.records BY DEF TransfersFit
        <3> QED BY <2>1, <3>2, <3>3
    <2>6. \A s \in RecordId \ {r} : cards'[s] = cards[s] BY <2>1 DEF UploadShapes
    <2>7. \A s \in RecordId \ {r} : cards[s] # NoCard =>
              /\ s <= uploadCount'.records
              /\ copies[cards[s].content] # "absent"
              /\ cards[s].via = "upload" => \E t \in BegunTransfers : uploads[t].record = s
        BY UploadsAssumption DEF CardsFit, UploadShapes, RecordId
    <2> QED BY <2>1, <2>2, <2>3, <2>4, <2>5, <2>6, <2>7, <1>0 DEF CardsFit
<1> QED BY <1>1, <1>2

\* The records of transfers stay theirs while nothing is begun.
LEMMA TransfersStillFit ==
    ASSUME UploadShapes, UploadShapes', TransfersFit, CardsFit, CardsFit', Grown,
           BegunTransfers' = BegunTransfers,
           \A t \in BegunTransfers : /\ uploads'[t].record = uploads[t].record
                            /\ uploads'[t].content = uploads[t].content,
           \A r \in RecordId : cards[r] = NoCard /\ cards'[r] # NoCard =>
               \A t \in BegunTransfers : uploads[t].record = r =>
                   cards'[r] = [content |-> uploads[t].content, via |-> "upload"],
           uploadCount.records <= uploadCount'.records
    PROVE  TransfersFit'
<1> SUFFICES ASSUME NEW t \in BegunTransfers PROVE
        /\ uploads[t].content \in Content
        /\ uploads[t].record \in 1 .. uploadCount'.records
        /\ cards'[uploads[t].record]
              \in {NoCard, [content |-> uploads[t].content, via |-> "upload"]}
        /\ \A u \in BegunTransfers : uploads[u].record = uploads[t].record => u = t
    BY DEF TransfersFit
<1>1. /\ uploads[t].content \in Content
      /\ uploads[t].record \in 1 .. uploadCount.records
      /\ cards[uploads[t].record]
              \in {NoCard, [content |-> uploads[t].content, via |-> "upload"]}
      /\ \A u \in BegunTransfers : uploads[u].record = uploads[t].record => u = t
    BY DEF TransfersFit
<1>2. uploads[t].record \in RecordId
    BY <1>1, UploadsAssumption DEF UploadShapes, RecordId
<1>3. uploads[t].record \in 1 .. uploadCount'.records
    BY <1>1, UploadsAssumption DEF UploadShapes, RecordId
<1>4. cards'[uploads[t].record]
              \in {NoCard, [content |-> uploads[t].content, via |-> "upload"]}
    BY <1>1, <1>2 DEF Grown
<1> QED BY <1>1, <1>3, <1>4

LEMMA AcknowledgedStillFit ==
    ASSUME UploadShapes, UploadShapes', AcknowledgedFit, TransfersFit, Grown, BegunTransfers \subseteq BegunTransfers',
           \A t \in BegunTransfers' : uploads'[t].state = "committed" => t \in BegunTransfers /\ uploads'[t] = uploads[t]
    PROVE  AcknowledgedFit'
<1> SUFFICES ASSUME NEW t \in BegunTransfers', uploads'[t].state = "committed" PROVE
        /\ cards'[uploads'[t].record] = [content |-> uploads'[t].content, via |-> "upload"]
        /\ uploads'[t].record \in listed'
    BY DEF AcknowledgedFit
<1>1. t \in BegunTransfers /\ uploads'[t] = uploads[t] OBVIOUS
<1>2. /\ cards[uploads[t].record] = [content |-> uploads[t].content, via |-> "upload"]
      /\ uploads[t].record \in listed
    BY <1>1 DEF AcknowledgedFit
<1>3. uploads[t].record \in RecordId BY <1>2 DEF UploadShapes
<1>4. cards'[uploads[t].record] = cards[uploads[t].record]
    BY <1>2, <1>3, NoCardIsNone DEF Grown
<1> QED BY <1>1, <1>2, <1>4 DEF Grown

LEMMA LogStillFits ==
    ASSUME UploadShapes, UploadShapes', LogFits, Grown,
           \A c \in Content : importLog'[c].state = "stored" => importLog'[c] = importLog[c]
    PROVE  LogFits'
<1> SUFFICES ASSUME NEW c \in Content, importLog'[c].state = "stored" PROVE
        /\ importLog'[c].record # 0
        /\ cards'[importLog'[c].record] = [content |-> c, via |-> "folder"]
    BY DEF LogFits
<1>1. importLog'[c] = importLog[c] OBVIOUS
<1>2. importLog[c].record # 0 /\ cards[importLog[c].record] = [content |-> c, via |-> "folder"]
    BY <1>1 DEF LogFits
<1>3. importLog[c].record \in RecordId BY <1>2 DEF UploadShapes
<1> QED BY <1>1, <1>2, <1>3, NoCardIsNone DEF Grown

LEMMA RecoveredGrows ==
    ASSUME UploadShapes
    PROVE  /\ Recovered \in [Content -> {"absent", "paired", "stored"}]
           /\ \A c \in Content : copies[c] # "absent" => Recovered[c] # "absent"
BY DEF Recovered, UploadShapes

\* A step that touches neither records nor the thread, and takes no copy away.
Quiet ==
    /\ cards' = cards /\ listed' = listed /\ threadRevision' = threadRevision
    /\ copies' = copies \/ copies' = Recovered

LEMMA QuietGrows ==
    ASSUME UploadShapes, Quiet
    PROVE  Grown /\ copies' \in [Content -> {"absent", "paired", "stored"}]
BY RecoveredGrows DEF Quiet, Grown, UploadShapes

LEMMA BeginKeeps ==
    ASSUME UploadsIInv, NEW t \in Transfer, NEW c \in Content, Begin(t, c)
    PROVE  UploadsIInv'
<1> DEFINE n == uploadCount.records + 1
           row == [state |-> "receiving", content |-> c, record |-> n, next |-> 0]
<1> USE DEF UploadsIInv
<1>1. /\ uploads' = [uploads EXCEPT ![t] = row] /\ uploads[t].state = "none"
      /\ uploadCount' = [uploadCount EXCEPT !.records = n]
      /\ uploadCount.records < MaxRecords /\ commit.step = "idle"
      /\ UNCHANGED <<blocks, commit, import, cards, placed, listed, threadRevision, importLog>>
      /\ copies' = Recovered
    BY DEF Begin, Unlocked
<1>2. n \in RecordId /\ n \in 0 .. MaxRecords
    BY <1>1, UploadsAssumption DEF RecordId, UploadShapes
<1>3. row \in UploadRow BY <1>2, UploadsAssumption DEF UploadRow
<1> HIDE DEF row
<1>4. Quiet BY <1>1 DEF Quiet
<1>5. Grown /\ copies' \in [Content -> {"absent", "paired", "stored"}] BY <1>4, QuietGrows
<1>6. UploadShapes' BY <1>1, <1>2, <1>3, <1>5 DEF UploadShapes
<1>7. BegunTransfers' = BegunTransfers \cup {t} /\ t \notin BegunTransfers
    BY <1>1 DEF BegunTransfers, UploadShapes, row
<1>8. \A u \in BegunTransfers : uploads'[u] = uploads[u] BY <1>1, <1>7 DEF UploadShapes, BegunTransfers
<1>9. uploads'[t] = row /\ row.record = n /\ row.content = c /\ row.state = "receiving" /\ row.next = 0
    BY <1>1 DEF UploadShapes, row
<1>10. uploadCount'.records = n /\ uploadCount.records <= uploadCount'.records
    BY <1>1 DEF UploadShapes
<1>11. TransfersFit'
    <2>1. \A u \in BegunTransfers : uploads[u].record \in 1 .. uploadCount.records
        BY DEF TransfersFit
    <2>2. \A u \in BegunTransfers : uploads[u].record # n /\ uploads[u].record \in 1 .. n
        BY <2>1, <1>2 DEF RecordId, UploadShapes
    <2>3. cards[n] = NoCard
        <3>1. ~(n <= uploadCount.records) BY DEF UploadShapes
        <3> QED BY <3>1, <1>2 DEF CardsFit
    <2>4. n \in 1 .. n BY <1>2 DEF RecordId
    <2>5. \A u \in BegunTransfers :
            /\ uploads[u].content \in Content
            /\ cards[uploads[u].record]
                  \in {NoCard, [content |-> uploads[u].content, via |-> "upload"]}
            /\ \A v \in BegunTransfers : uploads[v].record = uploads[u].record => v = u
        BY DEF TransfersFit
    <2> QED BY <2>2, <2>3, <2>4, <2>5, <1>1, <1>7, <1>8, <1>9, <1>10 DEF TransfersFit
<1>12. AcknowledgedFit' BY <1>5, <1>6, <1>7, <1>8, <1>9, AcknowledgedStillFit
<1>13. BlocksFit' BY <1>1, <1>9 DEF BlocksFit, UploadShapes
<1>14. CardsFit' BY <1>1, <1>5, <1>6, <1>7, <1>8, <1>10, CardsStillFit
<1>15. LogFits' BY <1>1, <1>5, <1>6, LogStillFits
<1>16. PublisherFits(commit)' /\ PublisherFits(import)'
    BY <1>1, <1>5, <1>6, PublisherStillFits DEF UploadShapes, PublisherFits
<1>17. CommitFits' /\ ImportFits' BY <1>1 DEF CommitFits, ImportFits
<1>18. TransfersCounted'
    <2>1. Active' = Active \cup {t} BY <1>1, <1>9 DEF Active, UploadShapes
    <2>2. Cardinality(Active) < MaxActive BY DEF Begin
    <2>3. IsFiniteSet(Active') /\ Cardinality(Active') <= Cardinality(Active) + 1
        <3>1. t \notin Active /\ IsFiniteSet(Active) BY <1>1 DEF Active, TransfersCounted
        <3>2. IsFiniteSet(Active \cup {t}) /\ Cardinality(Active \cup {t}) = Cardinality(Active) + 1
            BY <3>1, FS_AddElement
        <3>3. Cardinality(Active) \in Nat BY <3>1, FS_CardinalityType
        <3> QED BY <2>1, <3>2, <3>3
    <2>4. IsFiniteSet(BegunTransfers') BY <1>7, FS_AddElement DEF TransfersCounted
    <2>5. Cardinality(Active) \in Nat BY FS_CardinalityType DEF TransfersCounted
    <2>6. Cardinality(Active') \in Nat BY <2>3, FS_CardinalityType
    <2> QED BY <2>2, <2>3, <2>4, <2>5, <2>6, UploadsAssumption DEF TransfersCounted
<1> QED BY <1>6, <1>11, <1>12, <1>13, <1>14, <1>15, <1>16, <1>17, <1>18

\* What stays of the transfers when one of them, t, becomes the row u.
LEMMA TransferChanges ==
    ASSUME UploadsIInv, NEW t \in BegunTransfers, NEW u \in UploadRow,
           uploads' = [uploads EXCEPT ![t] = u], u.state # "none",
           u.record = uploads[t].record, u.content = uploads[t].content,
           u.state = "receiving" => uploads[t].state = "receiving"
    PROVE  /\ BegunTransfers' = BegunTransfers
           /\ \A v \in BegunTransfers : /\ uploads'[v].record = uploads[v].record
                               /\ uploads'[v].content = uploads[v].content
           /\ \A v \in Transfer \ {t} : uploads'[v] = uploads[v]
           /\ uploads'[t] = u
           /\ TransfersCounted'
<1> USE DEF UploadsIInv, UploadShapes
<1>1. /\ \A v \in Transfer \ {t} : uploads'[v] = uploads[v]
      /\ uploads'[t] = u
    BY DEF BegunTransfers
<1>2. BegunTransfers' = BegunTransfers BY <1>1 DEF BegunTransfers
<1>3. Active' \in SUBSET Active BY <1>1 DEF Active, BegunTransfers
<1>4. IsFiniteSet(Active') /\ Cardinality(Active') <= Cardinality(Active)
    BY <1>3, FS_Subset DEF TransfersCounted
<1>5. Cardinality(Active) \in Nat /\ Cardinality(Active') \in Nat
    BY <1>4, FS_CardinalityType DEF TransfersCounted
<1>6. TransfersCounted' BY <1>2, <1>4, <1>5, UploadsAssumption DEF TransfersCounted
<1>7. \A v \in BegunTransfers : /\ uploads'[v].record = uploads[v].record
                       /\ uploads'[v].content = uploads[v].content
    BY <1>1 DEF BegunTransfers
<1> QED BY <1>1, <1>2, <1>6, <1>7

\* Blocks arrive, or a transfer is given up.
LEMMA BlocksKeep ==
    ASSUME UploadsIInv, NEW t \in Transfer, NEW row \in UploadRow, NEW b \in Seq(BOOLEAN),
           commit.step = "idle", t \in BegunTransfers, uploads[t].state = "receiving",
           uploads' = [uploads EXCEPT ![t] = row], blocks' = [blocks EXCEPT ![t] = b],
           row.state \in {"receiving", "aborted"},
           row.record = uploads[t].record, row.content = uploads[t].content,
           Len(b) = IF row.state = "receiving" THEN row.next ELSE 0,
           copies' = Recovered,
           UNCHANGED <<commit, import, cards, placed, listed, threadRevision, importLog, uploadCount>>
    PROVE  UploadsIInv'
<1> USE DEF UploadsIInv
<1>1. /\ BegunTransfers' = BegunTransfers
      /\ \A v \in BegunTransfers : /\ uploads'[v].record = uploads[v].record
                          /\ uploads'[v].content = uploads[v].content
      /\ \A v \in Transfer \ {t} : uploads'[v] = uploads[v]
      /\ uploads'[t] = row
      /\ TransfersCounted'
    BY TransferChanges
<1>2. Quiet BY DEF Quiet
<1>3. Grown /\ copies' \in [Content -> {"absent", "paired", "stored"}] BY <1>2, QuietGrows
<1>4. UploadShapes' BY <1>3 DEF UploadShapes
<1>5. CardsFit' BY <1>1, <1>3, <1>4, CardsStillFit DEF UploadShapes
<1>6. TransfersFit' BY <1>1, <1>3, <1>4, <1>5, TransfersStillFit DEF UploadShapes
<1>7. \A v \in BegunTransfers' : uploads'[v].state = "committed" => v \in BegunTransfers /\ uploads'[v] = uploads[v]
    BY <1>1 DEF BegunTransfers
<1>8. AcknowledgedFit' BY <1>1, <1>3, <1>4, <1>7, AcknowledgedStillFit
<1>9. BlocksFit' BY <1>1 DEF BlocksFit, UploadShapes
<1>10. LogFits' BY <1>3, <1>4, LogStillFits
<1>11. PublisherFits(commit)' /\ PublisherFits(import)'
    BY <1>3, <1>4, PublisherStillFits DEF UploadShapes, PublisherFits
<1>12. CommitFits' /\ ImportFits' BY DEF CommitFits, ImportFits
<1> QED BY <1>1, <1>4, <1>5, <1>6, <1>8, <1>9, <1>10, <1>11, <1>12

LEMMA AppendKeeps ==
    ASSUME UploadsIInv, NEW t \in Transfer, NEW o \in 0 .. Size, NEW b \in BOOLEAN,
           AppendBlock(t, o, b)
    PROVE  UploadsIInv'
<1> DEFINE row == [uploads[t] EXCEPT !.next = o + 1]
           list == Append(blocks[t], b)
<1>1. /\ uploads' = [uploads EXCEPT ![t] = row] /\ blocks' = [blocks EXCEPT ![t] = list]
      /\ uploads[t].state = "receiving" /\ o = uploads[t].next /\ o < Size
    BY DEF AppendBlock, UploadsIInv, UploadShapes
<1>2. uploads[t] \in UploadRow /\ blocks[t] \in Seq(BOOLEAN) BY DEF UploadsIInv, UploadShapes
<1>3. row \in UploadRow /\ row.state = "receiving" /\ row.next = o + 1
      /\ row.record = uploads[t].record /\ row.content = uploads[t].content
    BY <1>1, <1>2, UploadsAssumption DEF UploadRow
<1>4. list \in Seq(BOOLEAN) /\ Len(list) = Len(blocks[t]) + 1 BY <1>2
<1>5. Len(list) = row.next BY <1>1, <1>3, <1>4 DEF UploadsIInv, BlocksFit
<1>6. t \in BegunTransfers /\ commit.step = "idle" BY <1>1 DEF BegunTransfers, AppendBlock, Unlocked
<1> HIDE DEF row, list
<1> QED BY <1>1, <1>3, <1>4, <1>5, <1>6, BlocksKeep DEF AppendBlock

LEMMA AbortKeeps ==
    ASSUME UploadsIInv, NEW t \in Transfer, Abort(t)
    PROVE  UploadsIInv'
<1> DEFINE row == [uploads[t] EXCEPT !.state = "aborted"]
<1>1. /\ uploads' = [uploads EXCEPT ![t] = row] /\ blocks' = [blocks EXCEPT ![t] = <<>>]
      /\ uploads[t].state = "receiving"
    BY DEF Abort, UploadsIInv, UploadShapes
<1>2. uploads[t] \in UploadRow BY DEF UploadsIInv, UploadShapes
<1>3. row \in UploadRow /\ row.state = "aborted"
      /\ row.record = uploads[t].record /\ row.content = uploads[t].content
    BY <1>2 DEF UploadRow
<1>4. t \in BegunTransfers /\ commit.step = "idle" BY <1>1 DEF BegunTransfers, Abort, Unlocked
<1>5. PICK b : b = <<>> OBVIOUS
<1>8. b \in Seq(BOOLEAN) /\ Len(b) = 0 BY <1>5
<1>6. blocks' = [blocks EXCEPT ![t] = b] BY <1>1, <1>5
<1>7. Len(b) = IF row.state = "receiving" THEN row.next ELSE 0 BY <1>3, <1>8
<1> HIDE DEF row
<1> QED BY <1>1, <1>3, <1>4, <1>6, <1>7, <1>8, BlocksKeep DEF Abort

LEMMA StartCommitKeeps ==
    ASSUME UploadsIInv, NEW t \in Transfer, StartCommit(t)
    PROVE  UploadsIInv'
<1> USE DEF UploadsIInv
<1>1. PICK first \in {"read", "publish"} :
        /\ first = "read" => uploads[t].record # 0 /\ cards[uploads[t].record] # NoCard
        /\ commit' = [Idle EXCEPT !.via = "upload", !.step = first,
                                  !.content = uploads[t].content, !.record = uploads[t].record]
    BY DEF StartCommit
<1>2. /\ uploads[t].state = "receiving" /\ t \in BegunTransfers /\ copies' = Recovered
      /\ UNCHANGED <<uploads, blocks, import, cards, placed, listed, threadRevision, importLog, uploadCount>>
    BY DEF StartCommit, BegunTransfers
<1>3. /\ uploads[t].content \in Content
      /\ uploads[t].record \in 1 .. uploadCount.records
      /\ cards[uploads[t].record]
            \in {NoCard, [content |-> uploads[t].content, via |-> "upload"]}
    BY <1>2 DEF TransfersFit
<1>4. uploads[t].record \in RecordId
    BY <1>3, UploadsAssumption DEF UploadShapes, RecordId
<1>5. /\ commit'.step = first /\ commit'.via = "upload" /\ commit'.content = uploads[t].content
      /\ commit'.record = uploads[t].record /\ commit' \in PublisherState
    BY <1>1, <1>3, <1>4 DEF Idle, PublisherState
<1>6. Quiet BY <1>2 DEF Quiet
<1>7. Grown /\ copies' \in [Content -> {"absent", "paired", "stored"}] BY <1>6, QuietGrows
<1>8. UploadShapes' BY <1>2, <1>5, <1>7 DEF UploadShapes
<1>9. BegunTransfers' = BegunTransfers /\ Active' = Active BY <1>2 DEF BegunTransfers, Active
<1>10. uploadCount.records <= uploadCount'.records BY <1>2 DEF UploadShapes
<1>11. CardsFit' BY <1>2, <1>7, <1>8, <1>9, <1>10, CardsStillFit
<1>12. TransfersFit' BY <1>2, <1>7, <1>8, <1>9, <1>10, <1>11, TransfersStillFit
<1>13. AcknowledgedFit' BY <1>2, <1>7, <1>8, <1>9, AcknowledgedStillFit
<1>14. LogFits' BY <1>2, <1>7, <1>8, LogStillFits
<1>15. PublisherFits(import)'
    BY <1>2, <1>7, <1>8, PublisherStillFits DEF UploadShapes, PublisherFits
<1>16. PublisherFits(commit)'
    <2>1. CASE first = "publish" BY <2>1, <1>3, <1>5 DEF PublisherFits
    <2>2. CASE first = "read"
        <3>1. cards[uploads[t].record] = [content |-> uploads[t].content, via |-> "upload"]
            BY <2>2, <1>1, <1>3
        <3>2. copies[uploads[t].content] # "absent"
            BY <3>1, <1>4, NoCardIsNone DEF CardsFit
        <3>3. copies'[uploads[t].content] # "absent" BY <3>2, <1>3, <1>7 DEF Grown
        <3> QED BY <2>2, <3>1, <3>3, <1>2, <1>3, <1>4, <1>5 DEF PublisherFits
    <2> QED BY <2>1, <2>2
<1>17. CommitFits' BY <1>2, <1>5, <1>9 DEF CommitFits
<1>18. ImportFits' /\ BlocksFit' /\ TransfersCounted'
    BY <1>2, <1>9 DEF ImportFits, BlocksFit, TransfersCounted
<1> QED BY <1>8, <1>11, <1>12, <1>13, <1>14, <1>15, <1>16, <1>17, <1>18

\* Only the transfer of the commit can be acknowledged.
LEMMA AcknowledgeKeeps ==
    ASSUME UploadsIInv, NEW t \in Transfer, Acknowledge(t)
    PROVE  UploadsIInv'
<1> USE DEF UploadsIInv
<1> DEFINE row == [uploads[t] EXCEPT !.state = "committed"]
<1>1. /\ commit.step = "answer" /\ uploads[t].state = "receiving" /\ t \in BegunTransfers
      /\ commit.content = uploads[t].content
      /\ commit.record = uploads[t].record \/ uploads[t].record = 0
      /\ blocks' = [blocks EXCEPT ![t] = <<>>] /\ commit' = Idle
      /\ UNCHANGED <<import, copies, cards, placed, listed, threadRevision, importLog, uploadCount>>
    BY DEF Acknowledge, BegunTransfers
<1>2. uploads[t].record \in 1 .. uploadCount.records BY <1>1 DEF TransfersFit
<1>3. commit.record = uploads[t].record BY <1>1, <1>2
<1>4. uploads' = [uploads EXCEPT ![t] = row]
    BY <1>3 DEF Acknowledge, UploadShapes, UploadRow
<1>5. row \in UploadRow /\ row.state = "committed" /\ row.record = uploads[t].record
      /\ row.content = uploads[t].content
    BY DEF UploadShapes, UploadRow
<1> HIDE DEF row
<1>6. /\ BegunTransfers' = BegunTransfers
      /\ \A v \in BegunTransfers : /\ uploads'[v].record = uploads[v].record
                          /\ uploads'[v].content = uploads[v].content
      /\ \A v \in Transfer \ {t} : uploads'[v] = uploads[v]
      /\ uploads'[t] = row
      /\ TransfersCounted'
    BY <1>1, <1>4, <1>5, TransferChanges
<1>7. Quiet BY <1>1 DEF Quiet
<1>8. Grown BY <1>7, QuietGrows
<1>9. <<>> \in Seq(BOOLEAN) /\ Len(<<>>) = 0 OBVIOUS
<1>10. UploadShapes' BY <1>1, <1>4, <1>5, <1>9, IdleShape DEF UploadShapes
<1>11. uploadCount.records <= uploadCount'.records BY <1>1 DEF UploadShapes
<1>12. CardsFit' BY <1>1, <1>6, <1>8, <1>10, <1>11, CardsStillFit
<1>13. TransfersFit' BY <1>1, <1>6, <1>8, <1>10, <1>11, <1>12, TransfersStillFit
<1>14. AcknowledgedFit'
    <2>1. /\ cards[commit.record] = [content |-> commit.content, via |-> commit.via]
          /\ commit.record \in listed /\ commit.via = "upload"
        BY <1>1 DEF PublisherFits, CommitFits
    <2>2. \A v \in BegunTransfers \ {t} : uploads[v].state = "committed" =>
            /\ cards[uploads[v].record] = [content |-> uploads[v].content, via |-> "upload"]
            /\ uploads[v].record \in listed
        BY DEF AcknowledgedFit
    <2> QED BY <2>1, <2>2, <1>1, <1>3, <1>5, <1>6 DEF AcknowledgedFit, BegunTransfers
<1>15. BlocksFit' BY <1>1, <1>5, <1>6, <1>9 DEF BlocksFit, UploadShapes
<1>16. LogFits' BY <1>1, <1>8, <1>10, LogStillFits
<1>17. PublisherFits(import)'
    BY <1>1, <1>8, <1>10, PublisherStillFits DEF UploadShapes, PublisherFits
<1>18. PublisherFits(commit)' /\ CommitFits' BY <1>1, IdleShape DEF PublisherFits, CommitFits
<1>19. ImportFits' BY <1>1 DEF ImportFits
<1> QED BY <1>6, <1>10, <1>12, <1>13, <1>14, <1>15, <1>16, <1>17, <1>18, <1>19

\* Writers of either kind write a record of their own.
LEMMA OwnRecords ==
    ASSUME CommitFits, ImportFits
    PROVE  RecordIsOwn(commit) /\ RecordIsOwn(import)
BY DEF CommitFits, ImportFits, RecordIsOwn

\* What a step of a publication, by whichever writer, keeps of the files.
LEMMA PublishKeepsFiles ==
    ASSUME UploadsIInv, NEW p \in PublisherState, NEW q, PublishNext(p, q),
           PublisherFits(p), RecordIsOwn(p), commit' \in PublisherState, import' \in PublisherState,
           UNCHANGED <<uploads, blocks, placed, importLog>>
    PROVE  /\ UploadShapes' /\ TransfersFit' /\ AcknowledgedFit' /\ BlocksFit' /\ CardsFit'
           /\ LogFits' /\ TransfersCounted' /\ Grown
           /\ q \in PublisherState /\ Followed(p, q) /\ PublisherFits(q)'
<1> USE DEF UploadsIInv
<1>1. /\ q \in PublisherState /\ Followed(p, q)
      /\ copies' \in [Content -> {"absent", "paired", "stored"}]
      /\ cards' \in [RecordId -> {NoCard} \cup Card]
      /\ listed' \subseteq RecordId /\ threadRevision' \in Nat
      /\ uploadCount' \in [records : 0 .. MaxRecords, deaths : Nat, notes : Nat]
      /\ uploadCount.records <= uploadCount'.records
    BY PublishTypes
<1>2. Grown BY PublishGrows
<1>3. UploadShapes' BY <1>1 DEF UploadShapes
<1>4. BegunTransfers' = BegunTransfers /\ Active' = Active BY DEF BegunTransfers, Active
<1>5. CardsFit' BY <1>1, <1>2, <1>3, PublishedCardsFit
<1>6. ASSUME NEW r \in RecordId, cards[r] = NoCard, cards'[r] # NoCard,
             NEW t \in BegunTransfers, uploads[t].record = r
      PROVE  cards'[r] = [content |-> uploads[t].content, via |-> "upload"]
    <2>1. WriteCard(p, q)
        BY <1>6 DEF PublishNext, PublishCopy, UnlinkPartial, ReadThread, SaveLink
    <2>2. PICK s \in RecordId :
              /\ s = IF p.record # 0 THEN p.record ELSE uploadCount.records + 1
              /\ cards' = [cards EXCEPT ![s] = [content |-> p.content, via |-> p.via]]
        BY <2>1 DEF WriteCard
    <2>3. r = s /\ cards'[r] = [content |-> p.content, via |-> p.via]
        BY <1>6, <2>2 DEF UploadShapes
    <2>4. uploads[t].record \in 1 .. uploadCount.records BY DEF TransfersFit
    <2>5. p.record = r /\ p.record # 0 BY <1>6, <2>2, <2>3, <2>4 DEF UploadShapes
    <2>6. PICK v \in BegunTransfers : uploads[v].record = p.record /\ uploads[v].content = p.content
        BY <2>1, <2>5 DEF RecordIsOwn, WriteCard
    <2>7. v = t BY <1>6, <2>5, <2>6 DEF TransfersFit
    <2>8. p.via = "upload" BY <2>1, <2>5 DEF RecordIsOwn, WriteCard
    <2> QED BY <2>3, <2>6, <2>7, <2>8
<1>7. TransfersFit' BY <1>1, <1>2, <1>3, <1>4, <1>5, <1>6, TransfersStillFit
<1>8. AcknowledgedFit' BY <1>2, <1>3, <1>4, AcknowledgedStillFit
<1>9. LogFits' BY <1>2, <1>3, LogStillFits
<1>10. PublisherFits(q)' BY <1>1, <1>2, PublishFits
<1>11. BlocksFit' /\ TransfersCounted' BY <1>4 DEF BlocksFit, TransfersCounted
<1> QED BY <1>1, <1>2, <1>3, <1>5, <1>7, <1>8, <1>9, <1>10, <1>11

LEMMA ReceivingKeeps ==
    ASSUME UploadsIInv, Receiving
    PROVE  UploadsIInv'
<1> USE DEF UploadsIInv
<1>1. commit \in PublisherState /\ import \in PublisherState BY DEF UploadShapes
<1>2. /\ PublishNext(commit, commit') /\ import' = import
      /\ UNCHANGED <<uploads, blocks, placed, importLog>>
    BY DEF Receiving
<1>3. RecordIsOwn(commit) BY OwnRecords
<1>4. commit.step # "idle"
    BY <1>2 DEF PublishNext, PublishCopy, UnlinkPartial, WriteCard, ReadThread, SaveLink
<1>5. PICK p \in PublisherState : p = commit BY <1>1
<1>6. PICK q : q = commit' OBVIOUS
<1>7. PublishNext(p, q) /\ PublisherFits(p) /\ RecordIsOwn(p) BY <1>2, <1>3, <1>5, <1>6
<1>8. q \in PublisherState /\ Followed(p, q) BY <1>7, PublishTypes
<1>9. commit' \in PublisherState /\ import' \in PublisherState BY <1>1, <1>2, <1>6, <1>8
<1>10. /\ UploadShapes' /\ TransfersFit' /\ AcknowledgedFit' /\ BlocksFit' /\ CardsFit'
       /\ LogFits' /\ TransfersCounted' /\ Grown
       /\ PublisherFits(q)'
    BY <1>2, <1>7, <1>9, PublishKeepsFiles
<1>11. PublisherFits(commit)' BY <1>6, <1>10 DEF PublisherFits
<1>12. PublisherFits(import)'
    BY <1>2, <1>10, PublisherStillFits DEF UploadShapes, PublisherFits
<1>13. CommitFits'
    <2>1. SUFFICES ASSUME q.step # "idle" PROVE
            /\ q.via = "upload"
            /\ \E t \in BegunTransfers : /\ uploads[t].state = "receiving"
                                /\ uploads[t].record = q.record
                                /\ uploads[t].content = q.content
        BY <1>2, <1>6 DEF CommitFits, BegunTransfers
    <2>2. commit.via = "upload" BY <1>4 DEF CommitFits
    <2>3. PICK t \in BegunTransfers : /\ uploads[t].state = "receiving"
                             /\ uploads[t].record = commit.record
                             /\ uploads[t].content = commit.content
        BY <1>4 DEF CommitFits
    <2>4. uploads[t].record \in 1 .. uploadCount.records BY DEF TransfersFit
    <2>5. p.record # 0 BY <1>5, <2>3, <2>4
    <2>6. q.via = p.via /\ q.content = p.content /\ q.record = p.record
        BY <1>8, <2>1, <2>5, IdleShape DEF Followed
    <2> QED BY <1>5, <2>2, <2>3, <2>6
<1>14. ImportFits' BY <1>2 DEF ImportFits
<1> QED BY <1>10, <1>11, <1>12, <1>13, <1>14

LEMMA ImportingKeeps ==
    ASSUME UploadsIInv, Importing
    PROVE  UploadsIInv'
<1> USE DEF UploadsIInv
<1>1. commit \in PublisherState /\ import \in PublisherState BY DEF UploadShapes
<1>2. /\ PublishNext(import, import') /\ commit' = commit
      /\ UNCHANGED <<uploads, blocks, placed, importLog>>
    BY DEF Importing
<1>3. RecordIsOwn(import) BY OwnRecords
<1>4. import.step # "idle"
    BY <1>2 DEF PublishNext, PublishCopy, UnlinkPartial, WriteCard, ReadThread, SaveLink
<1>5. PICK p \in PublisherState : p = import BY <1>1
<1>6. PICK q : q = import' OBVIOUS
<1>7. PublishNext(p, q) /\ PublisherFits(p) /\ RecordIsOwn(p) BY <1>2, <1>3, <1>5, <1>6
<1>8. q \in PublisherState /\ Followed(p, q) BY <1>7, PublishTypes
<1>9. commit' \in PublisherState /\ import' \in PublisherState BY <1>1, <1>2, <1>6, <1>8
<1>10. /\ UploadShapes' /\ TransfersFit' /\ AcknowledgedFit' /\ BlocksFit' /\ CardsFit'
       /\ LogFits' /\ TransfersCounted' /\ Grown
       /\ PublisherFits(q)'
    BY <1>2, <1>7, <1>9, PublishKeepsFiles
<1>11. PublisherFits(import)' BY <1>6, <1>10 DEF PublisherFits
<1>12. PublisherFits(commit)'
    BY <1>2, <1>10, PublisherStillFits DEF UploadShapes, PublisherFits
<1>13. ImportFits'
    <2>1. SUFFICES ASSUME q.step # "idle" PROVE
            /\ q.via = "folder"
            /\ q.step \in {"publish", "unlink", "record"} => q.record = 0
        BY <1>6 DEF ImportFits
    <2>2. p.via = "folder" /\ (p.step \in {"publish", "unlink", "record"} => p.record = 0)
        BY <1>4, <1>5 DEF ImportFits
    <2>3. q.via = p.via /\ q.step # "publish"
        BY <1>8, <2>1, IdleShape DEF Followed
    <2>4. q.step \in {"unlink", "record"} => p.step \in {"publish", "unlink"} /\ q.record = p.record
        BY <1>7, <2>1, IdleShape DEF PublishNext, PublishCopy, UnlinkPartial, WriteCard, ReadThread,
                                     SaveLink, PublisherState
    <2> QED BY <2>2, <2>3, <2>4
<1>14. CommitFits' BY <1>2 DEF CommitFits, BegunTransfers
<1> QED BY <1>10, <1>11, <1>12, <1>13, <1>14

\* What a step keeps that leaves the transfers, the copies and the records alone.
LEMMA FilesStay ==
    ASSUME UploadsIInv, UploadShapes', UNCHANGED <<uploads, blocks, copies, cards, listed>>,
           threadRevision <= threadRevision', uploadCount'.records = uploadCount.records
    PROVE  /\ TransfersFit' /\ AcknowledgedFit' /\ BlocksFit' /\ CardsFit' /\ TransfersCounted'
           /\ Grown
<1> USE DEF UploadsIInv
<1>1. BegunTransfers' = BegunTransfers /\ Active' = Active BY DEF BegunTransfers, Active
<1>2. Grown BY DEF Grown, UploadShapes
<1>3. uploadCount.records <= uploadCount'.records BY DEF UploadShapes
<1>4. CardsFit' BY <1>1, <1>2, <1>3, CardsStillFit
<1>5. TransfersFit' BY <1>1, <1>2, <1>3, <1>4, TransfersStillFit
<1>6. AcknowledgedFit' BY <1>1, <1>2, AcknowledgedStillFit
<1> QED BY <1>1, <1>2, <1>4, <1>5, <1>6 DEF BlocksFit, TransfersCounted

LEMMA StartImportKeeps ==
    ASSUME UploadsIInv, NEW c \in Content, StartImport(c)
    PROVE  UploadsIInv'
<1> USE DEF UploadsIInv
<1>1. /\ import.step = "idle"
      /\ UNCHANGED <<uploads, blocks, commit, copies, cards, placed, listed, threadRevision, uploadCount>>
    BY DEF StartImport
<1>2. CASE /\ StoredMatch(c) # {} /\ UNCHANGED import
           /\ importLog' = [importLog EXCEPT ![c] = [state |-> "stored",
                                record |-> CHOOSE r \in StoredMatch(c) : TRUE]]
    <2>1. PICK r \in StoredMatch(c) : r = CHOOSE s \in StoredMatch(c) : TRUE BY <1>2
    <2>2. r \in RecordId /\ cards[r] = [content |-> c, via |-> "folder"]
        BY <2>1 DEF StoredMatch
    <2>3. importLog' = [importLog EXCEPT ![c] = [state |-> "stored", record |-> r]]
        BY <1>2, <2>1
    <2>4. UploadShapes'
        <3>1. [state |-> "stored", record |-> r]
                \in [state : {"none", "pending", "stored"}, record : {0} \cup RecordId]
            BY <2>2
        <3>2. importLog' \in [Content -> [state : {"none", "pending", "stored"},
                                         record : {0} \cup RecordId]]
            BY <2>3, <3>1 DEF UploadShapes
        <3> QED BY <1>1, <1>2, <3>2 DEF UploadShapes
    <2>5. uploadCount'.records = uploadCount.records /\ threadRevision <= threadRevision'
        BY <1>1 DEF UploadShapes
    <2>6. /\ TransfersFit' /\ AcknowledgedFit' /\ BlocksFit' /\ CardsFit' /\ TransfersCounted'
          /\ Grown
        BY <1>1, <2>4, <2>5, FilesStay
    <2>7. LogFits'
        <3>1. r # 0 BY <2>2, UploadsAssumption DEF RecordId
        <3>2. importLog'[c].record = r /\ \A d \in Content \ {c} : importLog'[d] = importLog[d]
            BY <2>3 DEF UploadShapes
        <3> QED BY <1>1, <2>2, <3>1, <3>2 DEF LogFits
    <2>8. PublisherFits(commit)' /\ PublisherFits(import)' /\ CommitFits' /\ ImportFits'
        BY <1>1, <1>2 DEF PublisherFits, CommitFits, ImportFits, BegunTransfers
    <2> QED BY <2>4, <2>6, <2>7, <2>8
<1>3. CASE /\ importLog' = [importLog EXCEPT ![c].state = "pending"]
           /\ import' = [Idle EXCEPT !.via = "folder", !.step = "publish", !.content = c]
    <2>1. /\ import' \in PublisherState /\ import'.step = "publish" /\ import'.via = "folder"
          /\ import'.content = c /\ import'.record = 0
        BY <1>3 DEF Idle, PublisherState
    <2>2. UploadShapes' BY <1>1, <1>3, <2>1 DEF UploadShapes
    <2>3. uploadCount'.records = uploadCount.records /\ threadRevision <= threadRevision'
        BY <1>1 DEF UploadShapes
    <2>4. /\ TransfersFit' /\ AcknowledgedFit' /\ BlocksFit' /\ CardsFit' /\ TransfersCounted'
          /\ Grown
        BY <1>1, <2>2, <2>3, FilesStay
    <2>5. LogFits' BY <1>1, <1>3 DEF LogFits, UploadShapes
    <2>6. PublisherFits(commit)' /\ CommitFits'
        BY <1>1 DEF PublisherFits, CommitFits, BegunTransfers
    <2>7. PublisherFits(import)' /\ ImportFits'
        BY <2>1 DEF PublisherFits, ImportFits
    <2> QED BY <2>2, <2>4, <2>5, <2>6, <2>7
<1> QED BY <1>2, <1>3 DEF StartImport

LEMMA LogImportKeeps ==
    ASSUME UploadsIInv, LogImport
    PROVE  UploadsIInv'
<1> USE DEF UploadsIInv
<1>1. /\ import.step = "answer" /\ import' = Idle
      /\ importLog' = [importLog EXCEPT ![import.content] = [state |-> "stored", record |-> import.record]]
      /\ UNCHANGED <<uploads, blocks, commit, copies, cards, placed, listed, threadRevision, uploadCount>>
    BY DEF LogImport
<1>2. /\ import.content \in Content /\ import.record \in RecordId
      /\ cards[import.record] = [content |-> import.content, via |-> "folder"]
    BY <1>1 DEF PublisherFits, ImportFits
<1>3. PICK c \in Content, r \in RecordId : c = import.content /\ r = import.record BY <1>2
<1>4. importLog' = [importLog EXCEPT ![c] = [state |-> "stored", record |-> r]] BY <1>1, <1>3
<1>5. UploadShapes' BY <1>1, <1>3, <1>4, IdleShape DEF UploadShapes
<1>6. uploadCount'.records = uploadCount.records /\ threadRevision <= threadRevision'
    BY <1>1 DEF UploadShapes
<1>7. /\ TransfersFit' /\ AcknowledgedFit' /\ BlocksFit' /\ CardsFit' /\ TransfersCounted'
      /\ Grown
    BY <1>1, <1>5, <1>6, FilesStay
<1>8. LogFits'
    <2>1. r # 0 BY <1>3, UploadsAssumption DEF RecordId
    <2>2. importLog'[c].record = r /\ \A d \in Content \ {c} : importLog'[d] = importLog[d]
        BY <1>4 DEF UploadShapes
    <2> QED BY <1>1, <1>2, <1>3, <2>1, <2>2 DEF LogFits
<1>9. PublisherFits(commit)' /\ CommitFits' BY <1>1 DEF PublisherFits, CommitFits, BegunTransfers
<1>10. PublisherFits(import)' /\ ImportFits' BY <1>1, IdleShape DEF PublisherFits, ImportFits
<1> QED BY <1>5, <1>7, <1>8, <1>9, <1>10

\* Owners and others; writers that die.
LEMMA OthersKeep ==
    ASSUME UploadsIInv,
           UNCHANGED <<uploads, blocks, copies, cards, listed, importLog>>,
           commit' \in {commit, Idle}, import' \in {import, Idle},
           placed' \subseteq RecordId, threadRevision' \in Nat, threadRevision <= threadRevision',
           uploadCount' \in [records : 0 .. MaxRecords, deaths : Nat, notes : Nat],
           uploadCount'.records = uploadCount.records
    PROVE  UploadsIInv'
<1> USE DEF UploadsIInv
<1>1. UploadShapes' BY IdleShape DEF UploadShapes
<1>2. /\ TransfersFit' /\ AcknowledgedFit' /\ BlocksFit' /\ CardsFit' /\ TransfersCounted'
      /\ Grown
    BY <1>1, FilesStay
<1>3. LogFits' BY DEF LogFits
<1>4. PublisherFits(commit)'
    <2>1. CASE commit' = commit
        BY <2>1, <1>1, <1>2, PublisherStillFits DEF UploadShapes, PublisherFits
    <2>2. CASE commit' = Idle BY <2>2, IdleShape DEF PublisherFits
    <2> QED BY <2>1, <2>2
<1>5. PublisherFits(import)'
    <2>1. CASE import' = import
        BY <2>1, <1>1, <1>2, PublisherStillFits DEF UploadShapes, PublisherFits
    <2>2. CASE import' = Idle BY <2>2, IdleShape DEF PublisherFits
    <2> QED BY <2>1, <2>2
<1>6. CommitFits' /\ ImportFits' BY IdleShape DEF CommitFits, ImportFits, BegunTransfers
<1> QED BY <1>1, <1>2, <1>3, <1>4, <1>5, <1>6

LEMMA UploadsStep ==
    UploadsIInv /\ [UploadsNext]_uploadVars => UploadsIInv'
<1> SUFFICES ASSUME UploadsIInv, [UploadsNext]_uploadVars PROVE UploadsIInv' OBVIOUS
<1>1. ASSUME NEW t \in Transfer, NEW c \in Content, Begin(t, c) PROVE UploadsIInv'
    BY <1>1, BeginKeeps
<1>2. ASSUME NEW t \in Transfer, NEW o \in 0 .. Size, NEW b \in BOOLEAN, AppendBlock(t, o, b)
      PROVE  UploadsIInv'
    BY <1>2, AppendKeeps
<1>3. ASSUME NEW t \in Transfer, Abort(t) \/ StartCommit(t) \/ Acknowledge(t) PROVE UploadsIInv'
    BY <1>3, AbortKeeps, StartCommitKeeps, AcknowledgeKeeps
<1>4. CASE Receiving \/ Importing BY <1>4, ReceivingKeeps, ImportingKeeps
<1>5. CASE LogImport BY <1>5, LogImportKeeps
<1>6. ASSUME NEW c \in Content, StartImport(c) PROVE UploadsIInv' BY <1>6, StartImportKeeps
<1>7. /\ threadRevision <= threadRevision /\ threadRevision + 1 \in Nat
      /\ threadRevision \in Nat /\ threadRevision <= threadRevision + 1 /\ placed \subseteq RecordId
      /\ uploadCount \in [records : 0 .. MaxRecords, deaths : Nat, notes : Nat]
    BY DEF UploadsIInv, UploadShapes
<1>8. CASE NoteInThread
    <2>1. /\ uploadCount' \in [records : 0 .. MaxRecords, deaths : Nat, notes : Nat]
          /\ uploadCount'.records = uploadCount.records
        BY <1>7, <1>8 DEF NoteInThread
    <2> QED BY <1>7, <1>8, <2>1, OthersKeep DEF NoteInThread
<1>9. ASSUME NEW r \in RecordId, PlaceFile(r) PROVE UploadsIInv'
    BY <1>7, <1>9, OthersKeep DEF PlaceFile
<1>10. CASE DieReceiving \/ DieImporting
    <2>1. /\ uploadCount' \in [records : 0 .. MaxRecords, deaths : Nat, notes : Nat]
          /\ uploadCount'.records = uploadCount.records
        BY <1>7, <1>10 DEF DieReceiving, DieImporting, Die
    <2> QED BY <1>7, <1>10, <2>1, OthersKeep DEF DieReceiving, DieImporting, Die
<1>11. CASE UNCHANGED uploadVars BY <1>7, <1>11, OthersKeep DEF uploadVars
<1> QED BY <1>1, <1>2, <1>3, <1>4, <1>5, <1>6, <1>8, <1>9, <1>10, <1>11 DEF UploadsNext

LEMMA UploadsStart == UploadsInit => UploadsIInv
<1> SUFFICES ASSUME UploadsInit PROVE UploadsIInv OBVIOUS
<1> USE DEF UploadsInit
<1>1. NoUpload \in UploadRow /\ NoUpload.state = "none"
    BY UploadsAssumption DEF NoUpload, UploadRow
<1>2. <<>> \in Seq(BOOLEAN) /\ Len(<<>>) = 0 OBVIOUS
<1>3. NotImported.state = "none"
      /\ NotImported \in [state : {"none", "pending", "stored"}, record : {0} \cup RecordId]
    BY DEF NotImported
<1>4. 0 \in 0 .. MaxRecords /\ 0 \in Nat /\ 1 \in Nat BY UploadsAssumption
<1>5. UploadShapes BY <1>1, <1>2, <1>3, <1>4, IdleShape DEF UploadShapes
<1>6. BegunTransfers = {} /\ Active = {} BY <1>1 DEF BegunTransfers, Active
<1>7. TransfersFit /\ AcknowledgedFit BY <1>6 DEF TransfersFit, AcknowledgedFit
<1>8. BlocksFit BY <1>1, <1>2 DEF BlocksFit
<1>9. CardsFit /\ LogFits BY <1>3 DEF CardsFit, LogFits
<1>10. PublisherFits(commit) /\ PublisherFits(import) /\ CommitFits /\ ImportFits
    BY IdleShape DEF PublisherFits, CommitFits, ImportFits
<1>11. TransfersCounted
    <2>1. IsFiniteSet({}) /\ Cardinality({}) = 0 BY FS_EmptySet
    <2> QED BY <1>6, <2>1, UploadsAssumption DEF TransfersCounted
<1> QED BY <1>5, <1>7, <1>8, <1>9, <1>10, <1>11 DEF UploadsIInv

LEMMA UploadsFollow == UploadsIInv => UploadsInv
<1> SUFFICES ASSUME UploadsIInv PROVE UploadsInv OBVIOUS
<1> USE DEF UploadsIInv
<1>1. \A t \in Transfer : Len(blocks[t]) \in 0 .. Size
    BY UploadsAssumption DEF BlocksFit, UploadShapes, UploadRow
<1>2. ASSUME NEW t \in Transfer PROVE blocks[t] \in UNION {[1 .. n -> BOOLEAN] : n \in 0 .. Size}
    <2>1. PICK n \in 0 .. Size : n = Len(blocks[t]) BY <1>1
    <2>2. blocks[t] \in [1 .. n -> BOOLEAN] BY <2>1 DEF UploadShapes
    <2> QED BY <2>2
<1>3. blocks \in [Transfer -> UNION {[1 .. n -> BOOLEAN] : n \in 0 .. Size}]
    <2> DEFINE U == UNION {[1 .. n -> BOOLEAN] : n \in 0 .. Size}
    <2>1. \A t \in Transfer : blocks[t] \in U BY <1>2
    <2> HIDE DEF U
    <2>2. blocks \in [Transfer -> U] BY <2>1 DEF UploadShapes
    <2> QED BY <2>2 DEF U
<1>4. UploadsTypeOK BY <1>3 DEF UploadsTypeOK, UploadShapes, TransfersCounted, UploadRow, Card
<1>5. BackupIsAccepted
    <2>1. \A r \in RecordId : cards[r] # NoCard => copies[cards[r].content] # "absent"
        BY DEF CardsFit
    <2>2. \A c \in Content : importLog[c].state = "stored" =>
              /\ importLog[c].record # 0 /\ cards[importLog[c].record].content = c
        <3>1. \A c, d : d = [content |-> c, via |-> "folder"] => d.content = c OBVIOUS
        <3> QED BY <3>1 DEF LogFits
    <2>3. \A t \in Transfer : uploads[t].state = "committed" =>
              uploads[t].record # 0 /\ cards[uploads[t].record].content = uploads[t].content
        <3>1. ASSUME NEW t \in BegunTransfers PROVE uploads[t].record # 0
            <4>1. uploads[t].record \in 1 .. uploadCount.records BY DEF TransfersFit
            <4> QED BY <4>1 DEF UploadShapes
        <3>2. \A c, d : d = [content |-> c, via |-> "upload"] => d.content = c OBVIOUS
        <3>3. \A t \in Transfer : uploads[t].state = "committed" =>
                cards[uploads[t].record] = [content |-> uploads[t].content, via |-> "upload"]
            BY DEF AcknowledgedFit, BegunTransfers
        <3>4. \A t \in Transfer : uploads[t].state = "committed" => t \in BegunTransfers BY DEF BegunTransfers
        <3> QED BY <3>1, <3>2, <3>3, <3>4
    <2> QED BY <2>1, <2>2, <2>3 DEF BackupIsAccepted, Valid, BlocksFit
<1>6. OneRecordPerTransfer
    <2> DEFINE S == {r \in RecordId : cards[r].via = "upload"}
               f == [r \in S |-> CHOOSE t \in BegunTransfers : uploads[t].record = r]
    <2>1. ASSUME NEW r \in S PROVE f[r] \in BegunTransfers /\ uploads[f[r]].record = r
        <3>1. NoCard.via = "nothing" BY DEF NoCard
        <3>2. \E t \in BegunTransfers : uploads[t].record = r BY <3>1 DEF CardsFit
        <3> QED BY <3>2
    <2>2. f \in [S -> BegunTransfers] BY <2>1
    <2>3. \A r, s \in S : f[r] = f[s] => r = s BY <2>1
    <2> HIDE DEF f, S
    <2>4. f \in Injection(S, BegunTransfers) BY <2>2, <2>3 DEF Injection, IsInjective
    <2>5. Cardinality(S) <= Cardinality(BegunTransfers) BY <2>4, FS_Injection DEF TransfersCounted
    <2> QED BY <2>5 DEF OneRecordPerTransfer, S, BegunTransfers
<1>7. AcknowledgedIsListed BY DEF AcknowledgedIsListed, AcknowledgedFit, BegunTransfers
<1> QED BY <1>4, <1>5, <1>6, <1>7 DEF UploadsInv

\* For any transfers, contents and sizes, wherever a receiver or an import dies: a transfer
\* leaves at most one record, a backup accepts the library as it is, and what was
\* acknowledged is there and listed (LibraryReceiver.commit, import_file).
THEOREM UploadsLeaveOneRecord == UploadsSpec => []UploadsInv
<1>1. UploadsInit => UploadsIInv BY UploadsStart
<1>2. UploadsIInv /\ [UploadsNext]_uploadVars => UploadsIInv' BY UploadsStep
<1>3. UploadsIInv => UploadsInv BY UploadsFollow
<1> QED BY <1>1, <1>2, <1>3, PTL DEF UploadsSpec

(***************************************************************************)
(* LibraryRefresh: the inductive invariant                                  *)
(***************************************************************************)

LastRecord == MaxFolderSaves + 1
Outcome == {"none", "stored", "missing", "conflict", "failed"}

Place == [place : {Inbox, Assigned}, trashed : BOOLEAN, generation : Nat, revision : Nat, at : Nat]
Shelved == [content : Bytes, place : {Inbox, Assigned}, trashed : BOOLEAN, pred : Nat]
JobRow == [want : Bytes \cup {"none", "gone"}, status : Outcome, complete : BOOLEAN]
Source == [record : Nat, content : Bytes \cup {"none"},
           state : {"none", "record_published", "complete"}, new : BOOLEAN, pred : Nat,
           history : SUBSET Nat]
Ask == [action : {"none", "open", "assign", "trash", "restore"}, record : Nat,
        status : {"none", "done", "unknown", "launch_requested", "failed"}]
BatchState ==
    [step : {"rest", "open", "row", "import", "publish", "record", "receipt", "read", "place",
             "result", "job", "close", "end"},
     content : Bytes \cup {"none"}, record : Nat, pred : Nat, keep : BOOLEAN, new : BOOLEAN,
     history : SUBSET Nat, bad : BOOLEAN, from : Place, result : Outcome]
WatchState ==
    [imported : Nat, attempt : Nat, operation : 0 .. LastRecord,
     status : {"pending", "running", "ready", "partial", "unavailable"}, failed : BOOLEAN]

RefreshShapes ==
    /\ folder \in [was : Seq(Bytes \cup {"gone"}), away : BOOLEAN]
    /\ watch \in WatchState
    /\ batches \in [1 .. LastRecord -> JobRow]
    /\ origin \in Source
    /\ published \in [Bytes -> {"absent", "paired", "stored"}]
    /\ shelf \in Seq(Shelved)
    /\ overlay \in [1 .. LastRecord -> Place]
    /\ requests \in [FileRequest -> Ask]
    /\ launches \in [FileRequest -> [by : BOOLEAN, times : Nat]]
    /\ batch \in BatchState
    /\ refreshCount \in [saves : 0 .. MaxFolderSaves, halts : Nat]

\* An attempt is of a state the folder had, and gets one operation at most.
WatchFits ==
    /\ Time >= 1 /\ Time <= refreshCount.saves + 1
    /\ watch.imported <= watch.attempt /\ watch.attempt <= Time
    /\ watch.operation <= watch.attempt
    /\ watch.attempt > 0 => watch.operation > 0
    /\ batch.step # "rest" => watch.attempt > 0 /\ watch.status = "running"
    /\ watch.status = "ready" => watch.imported > 0

\* The source's receipt is one of bytes that are stored, with their record, for good.
OriginStores(c) ==
    /\ origin.content = c /\ origin.state = "complete" /\ origin.record # 0

JobFits ==
    /\ \A n \in 1 .. LastRecord : n > watch.operation => batches[n] = NoJob
    /\ watch.operation > 0 =>
        /\ Job.want # "none" /\ Time = watch.attempt => Job.want = Held(Time)
        /\ Job.status = "stored" => Job.want \in Bytes /\ OriginStores(Job.want)
        /\ Job.complete => Job.want # "none" /\ (Job.want \in Bytes => Job.status = "stored")

\* Every record's bytes are stored, were in the folder, and have that record only.
ShelfFits ==
    \A r \in DOMAIN shelf :
        /\ published[shelf[r].content] = "stored"
        /\ \E t \in DOMAIN folder.was : folder.was[t] = shelf[r].content
        /\ shelf[r].pred < r
        /\ \A s \in DOMAIN shelf : shelf[s].content = shelf[r].content => s = r

OriginFits ==
    /\ origin.record \in 0 .. Len(shelf) /\ origin.pred \in 0 .. Len(shelf)
    /\ origin.history \subseteq DOMAIN shelf
    /\ origin.record # 0 => shelf[origin.record].content = origin.content
    /\ origin.new /\ origin.pred # 0 => origin.pred < origin.record

\* Where an import stands.
Mapping == {"receipt", "read", "place"}
Creating == {"import", "publish", "record"}
BatchFits ==
    /\ batch.pred \in 0 .. Len(shelf) /\ batch.history \subseteq DOMAIN shelf
    /\ batch.step \notin {"rest", "open", "end"} => Job.want # "none"
    /\ batch.step \in {"row", "result", "job"} \cup Creating \cup Mapping =>
          Job.status # "stored" /\ Job.want \in Bytes
    /\ batch.step \in Creating \cup Mapping =>
          /\ batch.content = Job.want
          /\ \E t \in DOMAIN folder.was : folder.was[t] = batch.content
    /\ batch.step \in Creating \cup {"open", "row"} => batch.record = 0 /\ ~batch.new
    /\ batch.step \in {"publish", "record"} => Copied(batch.content) = {}
    /\ batch.step \in Mapping =>
          /\ batch.record \in DOMAIN shelf /\ shelf[batch.record].content = batch.content
          /\ batch.new /\ batch.pred # 0 => batch.pred < batch.record
    /\ batch.step \in {"read", "place"} =>
          origin.record = batch.record /\ origin.content = batch.content
    /\ batch.step \in {"result", "job"} =>
          batch.result # "none"
    /\ batch.step = "result" /\ batch.result = "stored" =>
          batch.record # 0 /\ origin.record = batch.record /\ origin.content = Job.want
    /\ batch.step = "job" /\ batch.result = "stored" => OriginStores(Job.want)

\* Every change an owner asked for has its receipt; a viewer is started by one caller.
ChangesOf(r) == {q \in FileRequest : requests[q].record = r /\ requests[q].action # "open"}
RequestsFit ==
    /\ \A q \in FileRequest :
        /\ requests[q].record \in 0 .. Len(shelf)
        /\ requests[q] # NoAsk => requests[q].record # 0
        /\ requests[q] = NoAsk => launches[q].times = 0 /\ ~launches[q].by
        /\ launches[q].times <= 1 /\ (launches[q].by => launches[q].times = 0)
    /\ \A r \in 1 .. LastRecord :
        /\ IsFiniteSet(ChangesOf(r))
        /\ overlay[r].revision = IF ChangesOf(r) = {} THEN 0 ELSE 1 + Cardinality(ChangesOf(r))

RefreshIInv ==
    /\ RefreshShapes /\ WatchFits /\ JobFits /\ ShelfFits /\ OriginFits /\ BatchFits /\ RequestsFit
    /\ ReadyIsStored

LEMMA RefreshConstants ==
    /\ MaxFolderSaves \in Nat /\ LastRecord \in Nat /\ LastRecord >= 1
    /\ "none" \notin Bytes /\ "gone" \notin Bytes
BY RefreshAssumption DEF LastRecord

LEMMA WaitingShape ==
    /\ NoPlace \in Place /\ NoPlace.revision = 0
    /\ Waiting \in BatchState /\ Waiting.step = "rest" /\ Waiting.record = 0 /\ Waiting.pred = 0
    /\ Waiting.history = {} /\ ~Waiting.new /\ Waiting.result = "none"
BY DEF NoPlace, Place, Waiting, BatchState, Outcome

LEMMA ShelfShape ==
    ASSUME RefreshShapes
    PROVE  /\ Len(shelf) \in Nat /\ DOMAIN shelf = 1 .. Len(shelf)
           /\ \A r \in DOMAIN shelf : shelf[r] \in Shelved
           /\ \A r \in DOMAIN shelf : shelf[r].content \in Bytes
<1>1. shelf \in Seq(Shelved) BY DEF RefreshShapes
<1>2. \A r \in DOMAIN shelf : shelf[r] \in Shelved BY <1>1
<1>3. \A x \in Shelved : x.content \in Bytes BY DEF Shelved
<1> QED BY <1>1, <1>2, <1>3

\* What a step of an import keeps that leaves the records and the owners' changes alone.
LEMMA ImportStays ==
    ASSUME RefreshIInv, RefreshShapes', UNCHANGED <<folder, watch, shelf, ownerVars>>,
           refreshCount'.saves = refreshCount.saves,
           \A c \in Bytes : published[c] = "stored" => published'[c] = "stored",
           batch.step # "rest", batch'.step # "rest",
           JobFits', OriginFits', BatchFits'
    PROVE  RefreshIInv'
<1> USE DEF RefreshIInv
<1>1. WatchFits' BY DEF WatchFits, Time
<1>2. ShelfFits'
    <2>1. \A r \in DOMAIN shelf : shelf[r].content \in Bytes BY ShelfShape
    <2> QED BY <2>1 DEF ShelfFits
<1>3. RequestsFit' BY DEF RequestsFit, ChangesOf, ownerVars
<1>4. ReadyIsStored'
    <2>1. watch'.status = "running" BY DEF WatchFits
    <2> QED BY <2>1 DEF ReadyIsStored
<1> QED BY <1>1, <1>2, <1>3, <1>4

\* A step that only moves the import on.
LEMMA BatchMoves ==
    ASSUME RefreshIInv, batch' \in BatchState, batch.step # "rest", batch'.step # "rest", BatchFits',
           UNCHANGED <<folder, watch, batches, origin, shelf, ownerVars, refreshCount>>,
           published' \in [Bytes -> {"absent", "paired", "stored"}],
           \A c \in Bytes : published[c] = "stored" => published'[c] = "stored"
    PROVE  RefreshIInv'
<1> USE DEF RefreshIInv
<1>1. RefreshShapes' BY DEF RefreshShapes, ownerVars
<1>2. JobFits' BY DEF JobFits, Job, OriginStores, Time, Held
<1>3. OriginFits' BY DEF OriginFits
<1> QED BY <1>1, <1>2, <1>3, ImportStays

LEMMA TheJob ==
    ASSUME RefreshIInv, batch.step # "rest"
    PROVE  /\ watch.operation \in 1 .. LastRecord /\ Job \in JobRow
           /\ batches \in [1 .. LastRecord -> JobRow]
BY RefreshConstants DEF RefreshIInv, RefreshShapes, WatchFits, Job, WatchState

LEMMA FolderNow ==
    ASSUME RefreshIInv
    PROVE  /\ Time \in Nat /\ Time >= 1 /\ Time \in DOMAIN folder.was
           /\ folder.was[Time] \in Bytes \cup {"gone"} /\ Held(Time) = folder.was[Time]
           /\ folder.was \in Seq(Bytes \cup {"gone"}) /\ folder.away \in BOOLEAN
<1>1. folder.was \in Seq(Bytes \cup {"gone"}) /\ folder.away \in BOOLEAN
    BY DEF RefreshIInv, RefreshShapes
<1>2. Time >= 1 BY DEF RefreshIInv, WatchFits
<1>3. PICK n \in Nat : n = Len(folder.was) BY <1>1
<1>4. n \in DOMAIN folder.was BY <1>1, <1>2, <1>3 DEF Time
<1> QED BY <1>1, <1>2, <1>3, <1>4 DEF Time, Held

\* A step of an import that leaves the records alone leaves the copies of bytes alone.
LEMMA NoJobShape ==
    NoJob \in JobRow /\ NoJob.want = "none" /\ NoJob.status = "none" /\ ~NoJob.complete
BY DEF NoJob, JobRow, Outcome

LEMMA OpenJobKeeps ==
    ASSUME RefreshIInv, OpenJob
    PROVE  RefreshIInv'
<1> USE DEF RefreshIInv
<1>1. /\ batch.step = "open"
      /\ published' = [b \in Bytes |-> IF published[b] = "paired" THEN "stored" ELSE published[b]]
      /\ UNCHANGED <<folder, watch, origin, shelf, ownerVars, refreshCount>>
    BY DEF OpenJob
<1>2. /\ published' \in [Bytes -> {"absent", "paired", "stored"}]
      /\ \A c \in Bytes : published[c] = "stored" => published'[c] = "stored"
    BY <1>1 DEF RefreshShapes
<1>3. /\ watch.operation \in 1 .. LastRecord /\ Job \in JobRow
      /\ batches \in [1 .. LastRecord -> JobRow]
    BY <1>1, TheJob
<1>4. /\ batch \in BatchState /\ batch.pred \in 0 .. Len(shelf) /\ batch.history \subseteq DOMAIN shelf
    BY DEF RefreshShapes, BatchFits
<1>5. Time' = Time /\ Held(Time)' = Held(Time) /\ watch' = watch BY <1>1 DEF Time, Held
<1>6. OriginFits' BY <1>1 DEF OriginFits
<1>7. CASE Job.want = "none" /\ folder.away
    <2>1. batch' = [batch EXCEPT !.step = "end"] /\ UNCHANGED batches
        BY <1>7 DEF OpenJob, Step
    <2>2. batch' \in BatchState /\ batch'.step = "end" /\ batch'.pred = batch.pred
          /\ batch'.history = batch.history
        BY <2>1, <1>4 DEF BatchState
    <2>3. BatchFits' BY <1>1, <1>4, <2>2 DEF BatchFits, Creating, Mapping
    <2> QED BY <1>1, <1>2, <2>1, <2>2, <2>3, BatchMoves
<1>8. CASE Job.want = "none" /\ ~folder.away
    <2>1. PICK s \in {"row", "close"} :
            /\ s = "row" => Held(Time) \in Bytes
            /\ batch' = [batch EXCEPT !.step = s]
            /\ batches' = [batches EXCEPT ![watch.operation] = [NoJob EXCEPT !.want = Held(Time)]]
        BY <1>8 DEF OpenJob, Step, SetJob, There
    <2>11. PICK h \in Bytes \cup {"gone"} : h = Held(Time) BY FolderNow
    <2>12. PICK j : j = [NoJob EXCEPT !.want = h] OBVIOUS
    <2>2. /\ j \in JobRow /\ j = [NoJob EXCEPT !.want = Held(Time)] /\ j.want = Held(Time)
          /\ j.status = "none" /\ ~j.complete
        <3>1. j \in JobRow /\ j.want = h /\ j.status = "none" /\ ~j.complete
            BY <2>11, <2>12, NoJobShape DEF JobRow
        <3> QED BY <2>11, <2>12, <3>1
    <2>3. batches' = [batches EXCEPT ![watch.operation] = j] BY <2>1, <2>2
    <2>4. Job' = j BY <1>3, <1>5, <2>3 DEF Job
    <2>5. Held(Time) # "none" BY FolderNow, RefreshConstants
    <2>6. batch' \in BatchState /\ batch'.step = s /\ batch'.pred = batch.pred
          /\ batch'.history = batch.history /\ batch'.record = batch.record /\ batch'.new = batch.new
          /\ batch'.result = batch.result
        BY <2>1, <1>4 DEF BatchState
    <2>7. RefreshShapes' BY <1>1, <1>2, <2>2, <2>3, <2>6 DEF RefreshShapes, ownerVars
    <2>8. JobFits'
        <3>1. \A n \in 1 .. LastRecord : n > watch.operation => batches'[n] = NoJob
            BY <1>3, <2>3 DEF JobFits
        <3> QED BY <3>1, <1>5, <2>2, <2>4 DEF JobFits
    <2>9. batch.record = 0 /\ ~batch.new BY <1>1 DEF BatchFits
    <2>10. BatchFits'
        BY <1>1, <1>4, <2>1, <2>2, <2>4, <2>5, <2>6, <2>9 DEF BatchFits, Creating, Mapping
    <2> QED BY <1>1, <1>2, <1>6, <2>6, <2>7, <2>8, <2>10, ImportStays
<1>9. CASE Job.want # "none"
    <2>1. PICK s \in {"row", "close", "end"} :
            /\ s = "row" => Job.want \in Bytes /\ Job.status # "stored"
            /\ batch' = [batch EXCEPT !.step = s]
            /\ UNCHANGED batches
        BY <1>9 DEF OpenJob, Step
    <2>2. batch' \in BatchState /\ batch'.step = s /\ batch'.pred = batch.pred
          /\ batch'.history = batch.history /\ batch'.record = batch.record /\ batch'.new = batch.new
          /\ batch'.result = batch.result
        BY <2>1, <1>4 DEF BatchState
    <2>3. Job' = Job BY <1>1, <2>1 DEF Job
    <2>4. batch.record = 0 /\ ~batch.new BY <1>1 DEF BatchFits
    <2>5. BatchFits' BY <1>1, <1>4, <1>9, <2>1, <2>2, <2>3, <2>4 DEF BatchFits, Creating, Mapping
    <2> QED BY <1>1, <1>2, <2>1, <2>2, <2>5, BatchMoves
<1> QED BY <1>7, <1>8, <1>9

LEMMA TakeRowKeeps ==
    ASSUME RefreshIInv, TakeRow
    PROVE  RefreshIInv'
<1> USE DEF RefreshIInv
<1>1. /\ batch.step = "row" /\ UNCHANGED <<folder, watch, batches, origin, published, shelf, ownerVars, refreshCount>>
      /\ batch.step # "rest"
    BY DEF TakeRow
<1>2. /\ published' \in [Bytes -> {"absent", "paired", "stored"}]
      /\ \A c \in Bytes : published[c] = "stored" => published'[c] = "stored"
    BY <1>1 DEF RefreshShapes
<1>3. Job' = Job /\ (\A c : Copied(c)' = Copied(c)) /\ folder' = folder /\ shelf' = shelf
    BY <1>1 DEF Job, Copied
<1>4. /\ batch \in BatchState /\ batch.pred \in 0 .. Len(shelf) /\ batch.history \subseteq DOMAIN shelf
      /\ batch.record = 0 /\ ~batch.new /\ Job.want # "none" /\ Job.status # "stored" /\ Job.want \in Bytes
    BY <1>1 DEF RefreshShapes, BatchFits
<1>5. ASSUME NEW o \in {"missing", "conflict"}, Result(o) PROVE RefreshIInv'
    <2>1. batch' = [batch EXCEPT !.step = "result", !.result = o] BY <1>5 DEF Result
    <2>2. batch' \in BatchState /\ batch'.step = "result" /\ batch'.result = o /\ batch'.pred = batch.pred
          /\ batch'.history = batch.history
        BY <2>1, <1>4 DEF BatchState, Outcome
    <2>3. BatchFits' BY <1>3, <1>4, <2>2 DEF BatchFits, Creating, Mapping
    <2> QED BY <1>1, <1>2, <2>2, <2>3, BatchMoves
<1>6. CASE There /\ Held(Time) = Job.want
    <2> DEFINE same == origin.record # 0 /\ origin.content = Held(Time)
    <2>1. PICK s \in {"receipt", "import"}, r \in Nat, p \in Nat, k \in BOOLEAN, n \in BOOLEAN :
            /\ s = IF same THEN "receipt" ELSE "import"
            /\ r = (IF same THEN origin.record ELSE 0)
            /\ p = (IF same THEN origin.pred ELSE origin.record)
            /\ k = (same /\ origin.state = "complete")
            /\ n = (same /\ StillNew)
        BY DEF RefreshShapes, Source
    <2>2. PICK h : h = origin.history \cup ({p} \ {0}) OBVIOUS
    <2>3. batch' = [batch EXCEPT !.step = s, !.content = Held(Time), !.record = r, !.pred = p,
                                 !.history = h, !.keep = k, !.new = n]
        BY <1>6, <2>1, <2>2 DEF TakeRow
    <2>4. /\ origin.record \in 0 .. Len(shelf) /\ origin.pred \in 0 .. Len(shelf)
          /\ origin.history \subseteq DOMAIN shelf
          /\ Len(shelf) \in Nat /\ DOMAIN shelf = 1 .. Len(shelf)
        BY ShelfShape DEF OriginFits
    <2>5. p \in 0 .. Len(shelf) /\ r \in 0 .. Len(shelf) BY <2>1, <2>4
    <2>6. h \subseteq DOMAIN shelf /\ h \in SUBSET Nat BY <2>2, <2>4, <2>5
    <2>7. batch' \in BatchState /\ batch'.step = s /\ batch'.content = Job.want /\ batch'.record = r
          /\ batch'.pred = p /\ batch'.history = h /\ batch'.new = n
        BY <1>4, <1>6, <2>3, <2>6 DEF BatchState
    <2>8. \E t \in DOMAIN folder.was : folder.was[t] = Job.want BY <1>6, FolderNow
    <2>9. s = "receipt" => /\ r \in DOMAIN shelf /\ shelf[r].content = Job.want
                           /\ n /\ p # 0 => p < r
        <3>1. s = "receipt" => same BY <2>1
        <3>2. same => r = origin.record /\ p = origin.pred /\ (n => origin.new) BY <2>1 DEF StillNew
        <3>3. same => /\ origin.record # 0 /\ origin.content = Job.want
                      /\ origin.record \in DOMAIN shelf
                      /\ shelf[origin.record].content = Job.want
            BY <1>6, <2>4 DEF OriginFits
        <3>4. origin.new /\ origin.pred # 0 => origin.pred < origin.record BY DEF OriginFits
        <3> HIDE DEF same
        <3> QED BY <3>1, <3>2, <3>3, <3>4
    <2>10. s = "import" => r = 0 /\ ~n BY <2>1
    <2> HIDE DEF same
    <2>11. BatchFits' BY <1>3, <1>4, <2>5, <2>6, <2>7, <2>8, <2>9, <2>10 DEF BatchFits, Creating, Mapping
    <2> QED BY <1>1, <1>2, <2>7, <2>11, BatchMoves
<1> QED BY <1>5, <1>6 DEF TakeRow

LEMMA ImportOneKeeps ==
    ASSUME RefreshIInv, ImportOne
    PROVE  RefreshIInv'
<1> USE DEF RefreshIInv
<1>1. /\ batch.step = "import" /\ UNCHANGED <<folder, watch, batches, origin, published, shelf, ownerVars, refreshCount>>
      /\ batch.step # "rest"
    BY DEF ImportOne
<1>2. /\ published' \in [Bytes -> {"absent", "paired", "stored"}]
      /\ \A c \in Bytes : published[c] = "stored" => published'[c] = "stored"
    BY <1>1 DEF RefreshShapes
<1>3. Job' = Job /\ \A c : Copied(c)' = Copied(c) BY <1>1 DEF Job, Copied
<1>4. /\ batch \in BatchState /\ batch.pred \in 0 .. Len(shelf) /\ batch.history \subseteq DOMAIN shelf
      /\ batch.record = 0 /\ ~batch.new /\ Job.want # "none" /\ Job.status # "stored" /\ Job.want \in Bytes
      /\ batch.content = Job.want /\ \E t \in DOMAIN folder.was : folder.was[t] = batch.content
    BY <1>1 DEF RefreshShapes, BatchFits, Creating
<1>5. CASE Result("failed")
    <2>1. batch' = [batch EXCEPT !.step = "result", !.result = "failed"] BY <1>5 DEF Result
    <2>2. batch' \in BatchState /\ batch'.step = "result" /\ batch'.result = "failed" /\ batch'.pred = batch.pred
          /\ batch'.history = batch.history
        BY <2>1, <1>4 DEF BatchState, Outcome
    <2>3. BatchFits' BY <1>1, <1>3, <1>4, <2>2 DEF BatchFits, Creating, Mapping
    <2> QED BY <1>1, <1>2, <2>2, <2>3, BatchMoves
<1>6. CASE /\ Copied(batch.content) # {}
           /\ batch' = [batch EXCEPT !.step = "receipt", !.keep = TRUE, !.new = FALSE,
                                     !.record = CHOOSE r \in Copied(batch.content) : TRUE]
    <2>1. PICK r \in Copied(batch.content) : r = CHOOSE x \in Copied(batch.content) : TRUE
        BY <1>6
    <2>2. batch' = [batch EXCEPT !.step = "receipt", !.keep = TRUE, !.new = FALSE, !.record = r]
        BY <1>6, <2>1
    <2>3. r \in DOMAIN shelf /\ shelf[r].content = batch.content /\ r \in Nat
        BY <2>1, ShelfShape DEF Copied
    <2>4. batch' \in BatchState /\ batch'.step = "receipt" /\ batch'.pred = batch.pred
          /\ batch'.history = batch.history /\ batch'.content = batch.content /\ batch'.record = r
          /\ ~batch'.new
        BY <1>4, <2>2, <2>3 DEF BatchState
    <2>5. BatchFits' BY <1>1, <1>3, <1>4, <2>3, <2>4 DEF BatchFits, Creating, Mapping
    <2> QED BY <1>1, <1>2, <2>4, <2>5, BatchMoves
<1>7. CASE /\ ~(published[batch.content] # "absent" /\ Copied(batch.content) # {})
           /\ batch' = [batch EXCEPT !.step = "publish"]
    <2>1. batch' \in BatchState /\ batch'.step = "publish" /\ batch'.pred = batch.pred
          /\ batch'.history = batch.history /\ batch'.content = batch.content /\ batch'.record = batch.record
          /\ batch'.new = batch.new
        BY <1>4, <1>7 DEF BatchState
    <2>2. Copied(batch.content) = {}
        BY <1>7 DEF ShelfFits, Copied
    <2>3. Copied(batch.content)' = {}
        <3>1. {r \in DOMAIN shelf : shelf[r].content = batch'.content} = {}
            BY <2>1, <2>2 DEF Copied
        <3> QED BY <1>1, <3>1 DEF Copied
    <2>4. BatchFits' BY <1>1, <1>3, <1>4, <2>1, <2>3 DEF BatchFits, Creating, Mapping
    <2> QED BY <1>1, <1>2, <2>1, <2>4, BatchMoves
<1> QED BY <1>5, <1>6, <1>7 DEF ImportOne

\* The bytes get their name; the temporary one may still be there.
LEMMA PublishBytesKeeps ==
    ASSUME RefreshIInv, PublishBytes
    PROVE  RefreshIInv'
<1> USE DEF RefreshIInv
<1>1. /\ batch.step = "publish" /\ UNCHANGED <<folder, watch, batches, origin, shelf, ownerVars, refreshCount>>
      /\ batch.step # "rest"
    BY DEF PublishBytes
<1>2. Job' = Job /\ \A c : Copied(c)' = Copied(c) BY <1>1 DEF Job, Copied
<1>3. /\ batch \in BatchState /\ batch.pred \in 0 .. Len(shelf) /\ batch.history \subseteq DOMAIN shelf
      /\ batch.record = 0 /\ ~batch.new /\ Job.want # "none" /\ Job.status # "stored" /\ Job.want \in Bytes
      /\ batch.content = Job.want /\ (\E t \in DOMAIN folder.was : folder.was[t] = batch.content)
      /\ Copied(batch.content) = {}
    BY <1>1 DEF RefreshShapes, BatchFits, Creating
<1>4. CASE Result("failed") /\ UNCHANGED published
    <2>1. batch' = [batch EXCEPT !.step = "result", !.result = "failed"] BY <1>4 DEF Result
    <2>2. batch' \in BatchState /\ batch'.step = "result" /\ batch'.result = "failed" /\ batch'.pred = batch.pred
          /\ batch'.history = batch.history
        BY <2>1, <1>3 DEF BatchState, Outcome
    <2>3. BatchFits' BY <1>1, <1>2, <1>3, <2>2 DEF BatchFits, Creating, Mapping
    <2>4. /\ published' \in [Bytes -> {"absent", "paired", "stored"}]
          /\ \A c \in Bytes : published[c] = "stored" => published'[c] = "stored"
        BY <1>4 DEF RefreshShapes
    <2> QED BY <1>1, <2>2, <2>3, <2>4, BatchMoves
<1>5. CASE /\ published' = [published EXCEPT ![batch.content] = IF @ = "absent" THEN "paired" ELSE @]
           /\ Step("record")
    <2>1. batch' = [batch EXCEPT !.step = "record"] BY <1>5 DEF Step
    <2>2. batch' \in BatchState /\ batch'.step = "record" /\ batch'.pred = batch.pred
          /\ batch'.history = batch.history /\ batch'.content = batch.content /\ batch'.record = batch.record
          /\ batch'.new = batch.new
        BY <2>1, <1>3 DEF BatchState
    <2>3. Copied(batch.content)' = {}
        <3>1. {r \in DOMAIN shelf : shelf[r].content = batch'.content} = {}
            BY <1>3, <2>2 DEF Copied
        <3> QED BY <1>1, <3>1 DEF Copied
    <2>4. BatchFits' BY <1>1, <1>2, <1>3, <2>2, <2>3 DEF BatchFits, Creating, Mapping
    <2>5. /\ published' \in [Bytes -> {"absent", "paired", "stored"}]
          /\ \A c \in Bytes : published[c] = "stored" => published'[c] = "stored"
        BY <1>3, <1>5 DEF RefreshShapes
    <2> QED BY <1>1, <2>2, <2>4, <2>5, BatchMoves
<1> QED BY <1>4, <1>5 DEF PublishBytes

LEMMA NoteMappingKeeps ==
    ASSUME RefreshIInv, NoteMapping
    PROVE  RefreshIInv'
<1> USE DEF RefreshIInv
<1> DEFINE noted == [record |-> batch.record, content |-> batch.content, state |-> "record_published",
                     new |-> batch.new, pred |-> batch.pred, history |-> batch.history]
<1>1. /\ batch.step = "receipt" /\ batch.step # "rest" /\ origin' = noted
      /\ UNCHANGED <<folder, watch, batches, published, shelf, ownerVars, refreshCount>>
    BY DEF NoteMapping
<1>2. Job' = Job /\ Time' = Time /\ Held(Time)' = Held(Time) BY <1>1 DEF Job, Time, Held
<1>3. /\ batch \in BatchState /\ batch.pred \in 0 .. Len(shelf) /\ batch.history \subseteq DOMAIN shelf
      /\ Job.want # "none" /\ Job.status # "stored" /\ Job.want \in Bytes
      /\ batch.content = Job.want /\ (\E t \in DOMAIN folder.was : folder.was[t] = batch.content)
      /\ batch.record \in DOMAIN shelf /\ shelf[batch.record].content = batch.content
      /\ (batch.new /\ batch.pred # 0 => batch.pred < batch.record)
    BY <1>1 DEF RefreshShapes, BatchFits, Mapping
<1>4. PICK b \in BOOLEAN : b = (~Holds(batch.content)) OBVIOUS
<1>5. batch' = [batch EXCEPT !.step = "read", !.bad = b] BY <1>4 DEF NoteMapping
<1>6. batch' \in BatchState /\ batch'.step = "read" /\ batch'.pred = batch.pred
      /\ batch'.history = batch.history /\ batch'.content = batch.content /\ batch'.record = batch.record
      /\ batch'.new = batch.new
    BY <1>3, <1>5 DEF BatchState
<1>7. noted \in Source /\ noted.record = batch.record /\ noted.content = batch.content
      /\ noted.new = batch.new /\ noted.pred = batch.pred /\ noted.history = batch.history
    BY <1>3 DEF BatchState, Source
<1> HIDE DEF noted
<1>8. RefreshShapes' BY <1>1, <1>6, <1>7 DEF RefreshShapes, ownerVars
<1>9. BatchFits' BY <1>1, <1>2, <1>3, <1>6, <1>7 DEF BatchFits, Creating, Mapping
<1>10. JobFits' BY <1>1, <1>2, <1>3 DEF JobFits, Job
<1>11. OriginFits' BY <1>1, <1>3, <1>7, ShelfShape DEF OriginFits
<1> QED BY <1>1, <1>6, <1>8, <1>9, <1>10, <1>11, ImportStays

LEMMA SaveReceiptKeeps ==
    ASSUME RefreshIInv, SaveReceipt
    PROVE  RefreshIInv'
<1> USE DEF RefreshIInv
<1>1. /\ batch.step = "result" /\ batch.step # "rest" /\ batch' = [batch EXCEPT !.step = "job"]
      /\ origin' = IF batch.record # 0 THEN [origin EXCEPT !.state = "complete"] ELSE origin
      /\ UNCHANGED <<folder, watch, batches, published, shelf, ownerVars, refreshCount>>
    BY DEF SaveReceipt, Step
<1>2. Job' = Job /\ Time' = Time /\ Held(Time)' = Held(Time) BY <1>1 DEF Job, Time, Held
<1>3. /\ batch \in BatchState /\ batch.pred \in 0 .. Len(shelf) /\ batch.history \subseteq DOMAIN shelf
      /\ Job.want # "none" /\ Job.status # "stored" /\ Job.want \in Bytes /\ batch.result # "none"
      /\ (batch.result = "stored" =>
             batch.record # 0 /\ origin.record = batch.record /\ origin.content = Job.want)
    BY <1>1 DEF RefreshShapes, BatchFits
<1>4. batch' \in BatchState /\ batch'.step = "job" /\ batch'.pred = batch.pred
      /\ batch'.history = batch.history /\ batch'.result = batch.result
    BY <1>1, <1>3 DEF BatchState
<1>5. /\ origin' \in Source /\ origin'.record = origin.record /\ origin'.content = origin.content
      /\ origin'.new = origin.new /\ origin'.pred = origin.pred /\ origin'.history = origin.history
      /\ (batch.record # 0 => origin'.state = "complete")
    BY <1>1 DEF RefreshShapes, Source
<1>6. RefreshShapes' BY <1>1, <1>4, <1>5 DEF RefreshShapes, ownerVars
<1>7. BatchFits' BY <1>1, <1>2, <1>3, <1>4, <1>5 DEF BatchFits, Creating, Mapping, OriginStores
<1>8. JobFits' BY <1>1, <1>2, <1>3 DEF JobFits, Job
<1>9. OriginFits' BY <1>1, <1>5 DEF OriginFits
<1> QED BY <1>1, <1>4, <1>6, <1>7, <1>8, <1>9, ImportStays

LEMMA SaveJobKeeps ==
    ASSUME RefreshIInv, SaveJob
    PROVE  RefreshIInv'
<1> USE DEF RefreshIInv
<1>1. /\ batch.step = "job" /\ batch.step # "rest" /\ batch' = [batch EXCEPT !.step = "close"]
      /\ batches' = [batches EXCEPT ![watch.operation] = [Job EXCEPT !.status = batch.result]]
      /\ UNCHANGED <<folder, watch, origin, published, shelf, ownerVars, refreshCount>>
    BY DEF SaveJob, Step, SetJob
<1>2. /\ watch.operation \in 1 .. LastRecord /\ Job \in JobRow
      /\ batches \in [1 .. LastRecord -> JobRow]
    BY <1>1, TheJob
<1>3. /\ batch \in BatchState /\ batch.pred \in 0 .. Len(shelf) /\ batch.history \subseteq DOMAIN shelf
      /\ Job.want # "none" /\ Job.status # "stored" /\ Job.want \in Bytes /\ batch.result # "none"
      /\ (batch.result = "stored" => OriginStores(Job.want))
    BY <1>1 DEF RefreshShapes, BatchFits
<1>4. PICK j : j = [Job EXCEPT !.status = batch.result] OBVIOUS
<1>5. j \in JobRow /\ j.want = Job.want /\ j.status = batch.result /\ j.complete = Job.complete
    BY <1>2, <1>3, <1>4 DEF JobRow, BatchState
<1>6. batches' = [batches EXCEPT ![watch.operation] = j] BY <1>1, <1>4
<1>7. Job' = j BY <1>1, <1>2, <1>6 DEF Job
<1>8. batch' \in BatchState /\ batch'.step = "close" /\ batch'.pred = batch.pred
      /\ batch'.history = batch.history
    BY <1>1, <1>3 DEF BatchState
<1>9. RefreshShapes' BY <1>1, <1>5, <1>6, <1>8 DEF RefreshShapes, ownerVars
<1>10. BatchFits' BY <1>1, <1>3, <1>5, <1>7, <1>8 DEF BatchFits, Creating, Mapping
<1>11. ~Job.complete BY <1>2, <1>3 DEF JobFits
<1>12. JobFits'
    <2>1. \A n \in 1 .. LastRecord : n > watch.operation => batches'[n] = NoJob
        BY <1>2, <1>6 DEF JobFits
    <2>2. Time = watch.attempt => Job.want = Held(Time) BY <1>2, <1>3 DEF JobFits
    <2>3. Time' = Time /\ Held(Time)' = Held(Time) BY <1>1 DEF Time, Held
    <2>4. OriginStores(Job.want) <=> (/\ origin'.content = Job.want /\ origin'.state = "complete"
                                      /\ origin'.record # 0)
        BY <1>1 DEF OriginStores
    <2>5. ~j.complete BY <1>5, <1>11
    <2> QED BY <1>1, <1>3, <1>5, <1>7, <2>1, <2>2, <2>3, <2>4, <2>5 DEF JobFits, OriginStores
<1>13. OriginFits' BY <1>1 DEF OriginFits
<1> QED BY <1>1, <1>8, <1>9, <1>10, <1>12, <1>13, ImportStays

LEMMA CloseJobKeeps ==
    ASSUME RefreshIInv, NEW derived \in BOOLEAN, CloseJob(derived)
    PROVE  RefreshIInv'
<1> USE DEF RefreshIInv
<1>1. /\ batch.step = "close" /\ batch.step # "rest" /\ batch' = [batch EXCEPT !.step = "end"]
      /\ batches' = [batches EXCEPT ![watch.operation] =
            [Job EXCEPT !.complete = derived /\ (Job.want \in Bytes => Job.status = "stored")]]
      /\ UNCHANGED <<folder, watch, origin, published, shelf, ownerVars>>
    BY DEF CloseJob, Step, SetJob
<1>2. /\ watch.operation \in 1 .. LastRecord /\ Job \in JobRow
      /\ batches \in [1 .. LastRecord -> JobRow]
    BY <1>1, TheJob
<1>3. /\ batch \in BatchState /\ batch.pred \in 0 .. Len(shelf) /\ batch.history \subseteq DOMAIN shelf
      /\ Job.want # "none"
    BY <1>1 DEF RefreshShapes, BatchFits
<1>4. PICK d \in BOOLEAN : d = (derived /\ (Job.want \in Bytes => Job.status = "stored")) OBVIOUS
<1>5. PICK j : j = [Job EXCEPT !.complete = d] OBVIOUS
<1>6. j \in JobRow /\ j.want = Job.want /\ j.status = Job.status /\ j.complete = d
    BY <1>2, <1>5 DEF JobRow
<1>7. batches' = [batches EXCEPT ![watch.operation] = j] BY <1>1, <1>4, <1>5
<1>8. Job' = j BY <1>1, <1>2, <1>7 DEF Job
<1>9. batch' \in BatchState /\ batch'.step = "end" /\ batch'.pred = batch.pred
      /\ batch'.history = batch.history
    BY <1>1, <1>3 DEF BatchState
<1>10. /\ refreshCount' \in [saves : 0 .. MaxFolderSaves, halts : Nat]
       /\ refreshCount'.saves = refreshCount.saves
    <2>1. PICK h \in Nat : h = IF derived THEN refreshCount.halts ELSE refreshCount.halts + 1
        BY DEF RefreshShapes
    <2>2. refreshCount' = [refreshCount EXCEPT !.halts = h] BY <2>1 DEF CloseJob
    <2> QED BY <2>2 DEF RefreshShapes
<1>11. RefreshShapes'
    <2>1. batches' \in [1 .. LastRecord -> JobRow] BY <1>2, <1>6, <1>7
    <2> QED BY <1>1, <1>9, <1>10, <2>1 DEF RefreshShapes, ownerVars
<1>12. BatchFits' BY <1>1, <1>3, <1>9 DEF BatchFits, Creating, Mapping
<1>13. JobFits'
    <2>1. \A n \in 1 .. LastRecord : n > watch.operation => batches'[n] = NoJob
        BY <1>2, <1>7 DEF JobFits
    <2>2. /\ Time = watch.attempt => Job.want = Held(Time)
          /\ Job.status = "stored" => Job.want \in Bytes /\ OriginStores(Job.want)
        BY <1>2, <1>3 DEF JobFits
    <2>3. Time' = Time /\ Held(Time)' = Held(Time) BY <1>1 DEF Time, Held
    <2>4. d => (Job.want \in Bytes => Job.status = "stored") BY <1>4
    <2> QED BY <1>1, <1>3, <1>6, <1>8, <2>1, <2>2, <2>3, <2>4 DEF JobFits, OriginStores
<1>14. OriginFits' BY <1>1 DEF OriginFits
<1> QED BY <1>1, <1>9, <1>10, <1>11, <1>12, <1>13, <1>14, ImportStays

\* How many records there can be: no more than states the folder was in.
LEMMA ShelfIsBounded ==
    ASSUME RefreshIInv
    PROVE  Len(shelf) <= LastRecord
<1> USE DEF RefreshIInv
<1> DEFINE S == DOMAIN shelf
           T == DOMAIN folder.was
           f == [r \in S |-> CHOOSE t \in T : folder.was[t] = shelf[r].content]
<1>1. \A r \in S : f[r] \in T /\ folder.was[f[r]] = shelf[r].content BY DEF ShelfFits
<1>2. f \in [S -> T] BY <1>1
<1>3. ASSUME NEW r \in S, NEW s \in S, f[r] = f[s] PROVE r = s
    <2>1. shelf[r].content = shelf[s].content BY <1>1, <1>3
    <2> QED BY <2>1 DEF ShelfFits
<1>4. S = 1 .. Len(shelf) /\ Len(shelf) \in Nat BY ShelfShape
<1>5. T = 1 .. Time /\ Time \in Nat BY FolderNow DEF Time
<1> HIDE DEF f, S, T
<1>6. f \in Injection(S, T) BY <1>2, <1>3 DEF Injection, IsInjective
<1>7. IsFiniteSet(T) /\ Cardinality(T) = Time
    <2>1. PICK n \in Nat : n = Time BY <1>5
    <2>2. IsFiniteSet(1 .. n) /\ Cardinality(1 .. n) = IF 1 > n THEN 0 ELSE n - 1 + 1 BY FS_Interval
    <2>3. Cardinality(1 .. n) = n BY <2>2
    <2> QED BY <1>5, <2>1, <2>2, <2>3
<1>8. Cardinality(S) <= Cardinality(T) BY <1>6, <1>7, FS_Injection
<1>9. Cardinality(S) = Len(shelf)
    <2>1. PICK n \in Nat : n = Len(shelf) BY <1>4
    <2>2. Cardinality(1 .. n) = IF 1 > n THEN 0 ELSE n - 1 + 1 BY FS_Interval
    <2>3. Cardinality(1 .. n) = n BY <2>2
    <2> QED BY <1>4, <2>1, <2>3
<1>10. Time <= LastRecord
    <2>1. PICK n \in 0 .. MaxFolderSaves : n = refreshCount.saves BY DEF RefreshShapes
    <2>2. Time <= n + 1 BY <2>1 DEF WatchFits
    <2> QED BY <1>5, <2>1, <2>2, RefreshConstants DEF LastRecord
<1> QED BY <1>4, <1>5, <1>7, <1>8, <1>9, <1>10, RefreshConstants

LEMMA EffectiveShape ==
    ASSUME RefreshIInv, NEW r \in DOMAIN shelf
    PROVE  /\ Effective(r) \in Place /\ r \in 1 .. LastRecord
           /\ Effective(r).revision = IF overlay[r].revision > 0 THEN overlay[r].revision ELSE 1
<1>1. r \in 1 .. LastRecord /\ shelf[r] \in Shelved
    BY ShelfShape, ShelfIsBounded, RefreshConstants DEF RefreshIInv
<1>2. overlay[r] \in Place BY <1>1 DEF RefreshIInv, RefreshShapes
<1>3. CASE overlay[r].revision > 0 BY <1>1, <1>2, <1>3 DEF Effective
<1>4. CASE ~(overlay[r].revision > 0)
    <2>1. PICK p \in {Inbox, Assigned}, d \in BOOLEAN : p = shelf[r].place /\ d = shelf[r].trashed
        BY <1>1 DEF Shelved
    <2>2. Effective(r) = [NoPlace EXCEPT !.place = p, !.trashed = d, !.revision = 1]
        BY <1>4, <2>1 DEF Effective
    <2>3. [NoPlace EXCEPT !.place = p, !.trashed = d, !.revision = 1] \in Place
          /\ [NoPlace EXCEPT !.place = p, !.trashed = d, !.revision = 1].revision = 1
        BY WaitingShape DEF Place
    <2> QED BY <1>1, <1>4, <2>2, <2>3
<1> QED BY <1>3, <1>4

LEMMA ReadPredecessorKeeps ==
    ASSUME RefreshIInv, ReadPredecessor
    PROVE  RefreshIInv'
<1> USE DEF RefreshIInv
<1>1. /\ batch.step = "read" /\ batch.step # "rest"
      /\ UNCHANGED <<folder, watch, batches, origin, published, shelf, ownerVars, refreshCount>>
    BY DEF ReadPredecessor
<1>2. Job' = Job /\ \A c : Copied(c)' = Copied(c) BY <1>1 DEF Job, Copied
<1>3. /\ batch \in BatchState /\ batch.pred \in 0 .. Len(shelf) /\ batch.history \subseteq DOMAIN shelf
      /\ Job.want # "none" /\ Job.status # "stored" /\ Job.want \in Bytes
      /\ batch.content = Job.want /\ (\E t \in DOMAIN folder.was : folder.was[t] = batch.content)
      /\ batch.record \in DOMAIN shelf /\ shelf[batch.record].content = batch.content
      /\ (batch.new /\ batch.pred # 0 => batch.pred < batch.record)
      /\ origin.record = batch.record /\ origin.content = batch.content
    BY <1>1 DEF RefreshShapes, BatchFits, Mapping
<1>4. PICK r : r = IF batch.pred # 0 THEN batch.pred ELSE batch.record OBVIOUS
<1>5. r \in DOMAIN shelf BY <1>3, <1>4, ShelfShape
<1>6. PICK e \in Place : e = Effective(r) BY <1>5, EffectiveShape
<1>7. batch' = [batch EXCEPT !.step = "place", !.from = e]
    BY <1>4, <1>6 DEF ReadPredecessor
<1>8. batch' \in BatchState /\ batch'.step = "place" /\ batch'.pred = batch.pred
      /\ batch'.history = batch.history /\ batch'.content = batch.content /\ batch'.record = batch.record
      /\ batch'.new = batch.new
    BY <1>3, <1>7 DEF BatchState
<1>9. BatchFits' BY <1>1, <1>2, <1>3, <1>8 DEF BatchFits, Creating, Mapping
<1>10. /\ published' \in [Bytes -> {"absent", "paired", "stored"}]
       /\ \A c \in Bytes : published[c] = "stored" => published'[c] = "stored"
    BY <1>1 DEF RefreshShapes
<1> QED BY <1>1, <1>8, <1>9, <1>10, BatchMoves

\* What stays true while records are added or get a place.
LEMMA RecordsStay ==
    ASSUME RefreshIInv, RefreshShapes', UNCHANGED <<folder, watch, batches, origin, ownerVars, refreshCount>>,
           Len(shelf) <= Len(shelf'),
           \A r \in DOMAIN shelf : r \in DOMAIN shelf' /\ shelf'[r].content = shelf[r].content,
           batch.step # "rest", batch'.step # "rest",
           ShelfFits', BatchFits'
    PROVE  RefreshIInv'
<1> USE DEF RefreshIInv
<1>1. WatchFits' BY DEF WatchFits, Time
<1>2. Len(shelf) \in Nat /\ Len(shelf') \in Nat /\ DOMAIN shelf = 1 .. Len(shelf)
    BY ShelfShape DEF RefreshShapes
<1>3. OriginFits'
    <2>1. PICK n \in Nat, m \in Nat : n = Len(shelf) /\ m = Len(shelf') BY <1>2
    <2>2. 0 .. n \subseteq 0 .. m BY <2>1
    <2> QED BY <1>2, <2>1, <2>2 DEF OriginFits
<1>4. RequestsFit'
    <2>1. PICK n \in Nat, m \in Nat : n = Len(shelf) /\ m = Len(shelf') BY <1>2
    <2>2. 0 .. n \subseteq 0 .. m BY <2>1
    <2>3. \A r : ChangesOf(r)' = ChangesOf(r) BY DEF ChangesOf, ownerVars
    <2> QED BY <2>1, <2>2, <2>3 DEF RequestsFit, ownerVars
<1>5. JobFits' BY DEF JobFits, Job, OriginStores, Time, Held
<1>6. ReadyIsStored'
    <2>1. watch'.status = "running" BY DEF WatchFits
    <2> QED BY <2>1 DEF ReadyIsStored
<1> QED BY <1>1, <1>3, <1>4, <1>5, <1>6

LEMMA WriteRecordKeeps ==
    ASSUME RefreshIInv, WriteRecord
    PROVE  RefreshIInv'
<1> USE DEF RefreshIInv
<1> DEFINE new == [content |-> batch.content, place |-> Inbox, trashed |-> FALSE, pred |-> 0]
<1>1. /\ batch.step = "record" /\ batch.step # "rest" /\ shelf' = Append(shelf, new)
      /\ published' = [published EXCEPT ![batch.content] = "stored"]
      /\ batch' = [batch EXCEPT !.step = "receipt", !.new = TRUE, !.record = Len(shelf) + 1]
      /\ UNCHANGED <<folder, watch, batches, origin, ownerVars, refreshCount>>
    BY DEF WriteRecord
<1>2. Job' = Job BY <1>1 DEF Job
<1>3. /\ batch \in BatchState /\ batch.pred \in 0 .. Len(shelf) /\ batch.history \subseteq DOMAIN shelf
      /\ Job.want # "none" /\ Job.status # "stored" /\ Job.want \in Bytes
      /\ batch.content = Job.want /\ (\E t \in DOMAIN folder.was : folder.was[t] = batch.content)
      /\ Copied(batch.content) = {}
    BY <1>1 DEF RefreshShapes, BatchFits, Creating
<1>4. new \in Shelved /\ new.content = batch.content /\ new.pred = 0 BY <1>3 DEF Shelved
<1> HIDE DEF new
<1>5. PICK n \in Nat : n = Len(shelf) BY ShelfShape
<1>6. /\ shelf \in Seq(Shelved) /\ shelf' \in Seq(Shelved) /\ Len(shelf') = n + 1
      /\ DOMAIN shelf = 1 .. n /\ DOMAIN shelf' = 1 .. n + 1
      /\ shelf'[n + 1] = new /\ \A r \in 1 .. n : shelf'[r] = shelf[r]
    BY <1>1, <1>4, <1>5 DEF RefreshShapes
<1>7. batch' \in BatchState /\ batch'.step = "receipt" /\ batch'.pred = batch.pred
      /\ batch'.history = batch.history /\ batch'.content = batch.content /\ batch'.record = n + 1
    <2>1. PICK m \in Nat : m = n + 1 OBVIOUS
    <2>2. batch' = [batch EXCEPT !.step = "receipt", !.new = TRUE, !.record = m]
        BY <1>1, <1>5, <2>1
    <2>3. batch' \in BatchState /\ batch'.step = "receipt" /\ batch'.pred = batch.pred
          /\ batch'.history = batch.history /\ batch'.content = batch.content /\ batch'.record = m
        BY <1>3, <2>2 DEF BatchState
    <2> QED BY <2>1, <2>3
<1>8. published' \in [Bytes -> {"absent", "paired", "stored"}] /\ published'[batch.content] = "stored"
      /\ \A c \in Bytes : published[c] = "stored" => published'[c] = "stored"
    BY <1>1, <1>3 DEF RefreshShapes
<1>9. RefreshShapes' BY <1>1, <1>6, <1>7, <1>8 DEF RefreshShapes, ownerVars
<1>10. ShelfFits'
    <2>1. \A r \in 1 .. n : shelf[r].content # batch.content BY <1>3, <1>6 DEF Copied
    <2>2. \A r \in 1 .. n : shelf[r].content \in Bytes BY <1>6, ShelfShape
    <2>3. \A r \in 1 .. n :
            /\ published'[shelf[r].content] = "stored"
            /\ \E t \in DOMAIN folder.was : folder.was[t] = shelf[r].content
            /\ shelf[r].pred < r
            /\ \A s \in 1 .. n : shelf[s].content = shelf[r].content => s = r
        BY <1>6, <1>8, <2>2 DEF ShelfFits
    <2>4. 0 < n + 1 /\ \A r \in 1 .. n + 1 : r \in 1 .. n \/ r = n + 1 OBVIOUS
    <2>5. ASSUME NEW r \in 1 .. n + 1 PROVE
            /\ published'[shelf'[r].content] = "stored"
            /\ \E t \in DOMAIN folder.was : folder.was[t] = shelf'[r].content
            /\ shelf'[r].pred < r
            /\ \A s \in 1 .. n + 1 : shelf'[s].content = shelf'[r].content => s = r
        <3>1. CASE r \in 1 .. n
            <4>1. shelf'[r] = shelf[r] BY <3>1, <1>6
            <4>2. ASSUME NEW s \in 1 .. n + 1, shelf'[s].content = shelf'[r].content PROVE s = r
                <5>1. CASE s \in 1 .. n
                    <6>1. shelf[s].content = shelf[r].content BY <5>1, <4>1, <4>2, <1>6
                    <6> QED BY <6>1, <5>1, <3>1, <2>3
                <5>2. CASE s = n + 1
                    <6>1. batch.content = shelf[r].content BY <5>2, <4>1, <4>2, <1>4, <1>6
                    <6> QED BY <6>1, <3>1, <2>1
                <5> QED BY <5>1, <5>2, <2>4
            <4>3. /\ published'[shelf[r].content] = "stored"
                  /\ \E t \in DOMAIN folder.was : folder.was[t] = shelf[r].content
                  /\ shelf[r].pred < r
                BY <3>1, <2>3
            <4> QED BY <4>1, <4>2, <4>3
        <3>2. CASE r = n + 1
            <4>1. shelf'[r] = new BY <3>2, <1>6
            <4>2. shelf'[r].content = batch.content /\ shelf'[r].pred < r BY <4>1, <3>2, <1>4
            <4>3. ASSUME NEW s \in 1 .. n + 1, shelf'[s].content = shelf'[r].content PROVE s = r
                <5>1. CASE s \in 1 .. n BY <5>1, <4>2, <4>3, <1>6, <2>1
                <5> QED BY <5>1, <3>2, <2>4
            <4> QED BY <4>2, <4>3, <1>3, <1>8
        <3> QED BY <3>1, <3>2, <2>4
    <2> QED BY <1>1, <1>6, <2>5 DEF ShelfFits
<1>11. BatchFits'
    <2>1. batch.pred < n + 1 /\ batch.pred \in 0 .. n + 1 /\ batch.history \subseteq 1 .. n + 1
          /\ n + 1 \in 1 .. n + 1
        BY <1>3, <1>5, <1>6
    <2> QED BY <1>1, <1>2, <1>3, <1>4, <1>6, <1>7, <2>1 DEF BatchFits, Creating, Mapping
<1>12. Len(shelf) <= Len(shelf') /\ \A r \in DOMAIN shelf : r \in DOMAIN shelf' /\ shelf'[r].content = shelf[r].content
    BY <1>5, <1>6
<1> QED BY <1>1, <1>7, <1>9, <1>10, <1>11, <1>12, RecordsStay

LEMMA PlaceRecordKeeps ==
    ASSUME RefreshIInv, PlaceRecord
    PROVE  RefreshIInv'
<1> USE DEF RefreshIInv
<1>1. /\ batch.step = "place" /\ batch.step # "rest"
      /\ UNCHANGED <<folder, watch, batches, origin, published, ownerVars, refreshCount>>
    BY DEF PlaceRecord
<1>2. Job' = Job BY <1>1 DEF Job
<1>3. /\ batch \in BatchState /\ batch.pred \in 0 .. Len(shelf) /\ batch.history \subseteq DOMAIN shelf
      /\ Job.want # "none" /\ Job.status # "stored" /\ Job.want \in Bytes
      /\ batch.content = Job.want
      /\ batch.record \in DOMAIN shelf /\ shelf[batch.record].content = batch.content
      /\ (batch.new /\ batch.pred # 0 => batch.pred < batch.record)
      /\ origin.record = batch.record /\ origin.content = batch.content
    BY <1>1 DEF RefreshShapes, BatchFits, Mapping
<1>4. PICK r \in DOMAIN shelf : r = batch.record BY <1>3
<1>5. shelf[r] \in Shelved /\ shelf[r].pred < r /\ shelf \in Seq(Shelved)
      /\ Len(shelf) \in Nat /\ DOMAIN shelf = 1 .. Len(shelf)
    BY ShelfShape DEF ShelfFits, RefreshShapes
<1>6. Effective(r) \in Place /\ batch.from \in Place BY <1>3, EffectiveShape DEF BatchState
<1>7. PICK p \in {Inbox, Assigned} :
          p = IF batch.keep THEN Effective(r).place
              ELSE IF batch.pred # 0 THEN batch.from.place ELSE Inbox
    BY <1>6 DEF Place
<1>8. PICK d \in BOOLEAN : d = IF Succeeds THEN batch.from.trashed ELSE Effective(r).trashed
    BY <1>6 DEF Place
<1>9. PICK b \in Nat : /\ b = IF Succeeds /\ shelf[r].pred = 0 THEN batch.pred ELSE shelf[r].pred
                       /\ b < r
    BY <1>3, <1>4, <1>5 DEF Succeeds, BatchState, Shelved
<1>10. PICK new : new = [content |-> shelf[r].content, place |-> p, trashed |-> d, pred |-> b] OBVIOUS
<1>11. new \in Shelved /\ new.content = shelf[r].content /\ new.pred = b
    BY <1>5, <1>10 DEF Shelved
<1>12. shelf' = [shelf EXCEPT ![r] = new] BY <1>4, <1>7, <1>8, <1>9, <1>10 DEF PlaceRecord
<1>13. /\ shelf' \in Seq(Shelved) /\ Len(shelf') = Len(shelf) /\ DOMAIN shelf' = DOMAIN shelf
       /\ shelf'[r] = new /\ \A s \in DOMAIN shelf \ {r} : shelf'[s] = shelf[s]
    BY <1>5, <1>11, <1>12
<1>14. \A s \in DOMAIN shelf : shelf'[s].content = shelf[s].content BY <1>11, <1>13
<1>15. PICK o \in {"stored", "conflict"} : batch' = [batch EXCEPT !.step = "result", !.result = o]
    BY DEF PlaceRecord, Result
<1>16. batch' \in BatchState /\ batch'.step = "result" /\ batch'.result = o /\ batch'.pred = batch.pred
       /\ batch'.history = batch.history /\ batch'.record = batch.record
    BY <1>3, <1>15 DEF BatchState, Outcome
<1>17. RefreshShapes' BY <1>1, <1>13, <1>16 DEF RefreshShapes, ownerVars
<1>18. ShelfFits' BY <1>1, <1>9, <1>11, <1>13, <1>14 DEF ShelfFits
<1>19. batch.record # 0 BY <1>3, <1>5
<1>20. BatchFits' BY <1>1, <1>2, <1>3, <1>13, <1>16, <1>19 DEF BatchFits, Creating, Mapping
<1>21. Len(shelf) <= Len(shelf') /\ \A s \in DOMAIN shelf : s \in DOMAIN shelf' /\ shelf'[s].content = shelf[s].content
    BY <1>5, <1>13, <1>14
<1> QED BY <1>1, <1>16, <1>17, <1>18, <1>20, <1>21, RecordsStay

LEMMA EndRefreshKeeps ==
    ASSUME RefreshIInv, EndRefresh
    PROVE  RefreshIInv'
<1> USE DEF RefreshIInv
<1>1. /\ batch.step = "end" /\ batch.step # "rest" /\ batch' = Waiting
      /\ UNCHANGED <<folder, batches, origin, published, shelf, ownerVars, refreshCount>>
    BY DEF EndRefresh
<1>2. watch \in WatchState /\ watch.operation \in 1 .. LastRecord
    BY <1>1, TheJob DEF RefreshShapes
<1>3. PICK now \in WatchState :
        /\ watch' = now /\ now.attempt = watch.attempt /\ now.operation = watch.operation
        /\ now.imported \in {watch.imported, watch.attempt}
        /\ now.status = "ready" =>
              Job.complete /\ StillAsObserved /\ now.imported = watch.attempt
    <2>1. CASE Job.complete /\ StillAsObserved
        <3>1. PICK t \in Nat : t = watch.attempt BY <1>2 DEF WatchState
        <3>2. PICK now : now = [watch EXCEPT !.status = "ready", !.imported = t] OBVIOUS
        <3>3. watch' = now BY <2>1, <3>1, <3>2 DEF EndRefresh, Job
        <3>4. /\ now \in WatchState /\ now.attempt = watch.attempt /\ now.operation = watch.operation
              /\ now.imported = t
            BY <1>2, <3>2 DEF WatchState
        <3> QED BY <2>1, <3>1, <3>3, <3>4
    <2>2. CASE ~(Job.complete /\ StillAsObserved)
        <3>1. PICK now : now = [watch EXCEPT !.status = "partial", !.failed = TRUE] OBVIOUS
        <3>2. watch' = now BY <2>2, <3>1 DEF EndRefresh, Job
        <3>3. /\ now \in WatchState /\ now.attempt = watch.attempt /\ now.operation = watch.operation
              /\ now.imported = watch.imported /\ now.status = "partial"
            BY <1>2, <3>1 DEF WatchState
        <3> QED BY <3>2, <3>3
    <2> QED BY <2>1, <2>2
<1>4. Job' = Job /\ Time' = Time BY <1>1, <1>3 DEF Job, Time
<1>5. RefreshShapes' BY <1>1, <1>3, WaitingShape DEF RefreshShapes, ownerVars
<1>6. WatchFits' BY <1>1, <1>2, <1>3, <1>4, WaitingShape DEF WatchFits, WatchState
<1>7. JobFits' BY <1>1, <1>3, <1>4 DEF JobFits, OriginStores, Held
<1>8. ShelfFits' /\ OriginFits' /\ RequestsFit'
    BY <1>1 DEF ShelfFits, OriginFits, RequestsFit, ChangesOf, ownerVars
<1>9. BatchFits' BY <1>1, WaitingShape, ShelfShape DEF BatchFits, Creating, Mapping
<1>10. ReadyIsStored'
    <2>1. SUFFICES ASSUME now.status = "ready", folder.was[now.imported] \in Bytes PROVE
            /\ origin.content = folder.was[now.imported] /\ origin.state = "complete"
            /\ shelf[origin.record].content = origin.content
            /\ published[origin.content] = "stored"
        BY <1>1, <1>3 DEF ReadyIsStored, Held
    <2>2. Job.complete /\ Time = watch.attempt /\ now.imported = Time
        BY <1>3, <2>1 DEF StillAsObserved
    <2>3. Job.want = Held(Time) /\ Job.want \in Bytes /\ Job.status = "stored"
        BY <1>2, <2>1, <2>2 DEF JobFits, Held
    <2>4. OriginStores(Job.want) BY <1>2, <2>3 DEF JobFits
    <2>5. origin.record \in DOMAIN shelf /\ shelf[origin.record].content = origin.content
        BY <2>4, ShelfShape DEF OriginFits, OriginStores
    <2>6. published[origin.content] = "stored" BY <2>5 DEF ShelfFits
    <2> QED BY <2>2, <2>3, <2>4, <2>5, <2>6 DEF OriginStores, Held
<1> QED BY <1>5, <1>6, <1>7, <1>8, <1>9, <1>10

LEMMA PollKeeps ==
    ASSUME RefreshIInv, Poll
    PROVE  RefreshIInv'
<1> USE DEF RefreshIInv
<1>1. /\ batch.step = "rest"
      /\ UNCHANGED <<folder, batches, origin, published, shelf, ownerVars, refreshCount>>
      /\ watch \in WatchState /\ Time' = Time
    BY DEF Poll, RefreshShapes, Time
<1>2. ShelfFits' /\ OriginFits' /\ RequestsFit'
    BY <1>1 DEF ShelfFits, OriginFits, RequestsFit, ChangesOf, ownerVars
<1>3. CASE folder.away
    <2>1. watch' = [watch EXCEPT !.status = "unavailable", !.failed = TRUE] /\ UNCHANGED batch
        BY <1>3 DEF Poll
    <2>2. watch' \in WatchState /\ watch'.attempt = watch.attempt /\ watch'.operation = watch.operation
          /\ watch'.imported = watch.imported /\ watch'.status = "unavailable"
        BY <1>1, <2>1 DEF WatchState
    <2>3. RefreshShapes' BY <1>1, <2>1, <2>2 DEF RefreshShapes, ownerVars
    <2>4. WatchFits' BY <1>1, <2>1, <2>2 DEF WatchFits
    <2>5. Job' = Job BY <1>1, <2>2 DEF Job
    <2>6. JobFits' BY <1>1, <2>2, <2>5 DEF JobFits, OriginStores, Held
    <2>7. BatchFits' BY <1>1, <2>1, <2>5 DEF BatchFits, Creating, Mapping, Copied
    <2>8. ReadyIsStored' BY <2>2 DEF ReadyIsStored
    <2> QED BY <1>2, <2>3, <2>4, <2>6, <2>7, <2>8
<1>4. CASE ~folder.away
    <2>1. PICK n : n = IF Time = watch.attempt /\ watch.operation > 0 THEN watch.operation
                       ELSE watch.operation + 1
        OBVIOUS
    <2>2. watch' = [watch EXCEPT !.status = "running", !.failed = FALSE, !.attempt = Time, !.operation = n]
        BY <1>4, <2>1 DEF Poll
    <2>3. /\ watch.attempt \in Nat /\ watch.operation \in Nat /\ watch.imported \in Nat
          /\ Time \in Nat /\ Time >= 1 /\ watch.attempt <= Time /\ watch.operation <= watch.attempt
          /\ watch.imported <= watch.attempt /\ watch.attempt > 0 => watch.operation > 0
        BY <1>1, FolderNow, RefreshConstants DEF WatchFits, WatchState
    <2>4. Time <= LastRecord
        <3>1. PICK k \in 0 .. MaxFolderSaves : k = refreshCount.saves BY DEF RefreshShapes
        <3>2. Time <= k + 1 BY <3>1 DEF WatchFits
        <3> QED BY <2>3, <3>1, <3>2, RefreshConstants DEF LastRecord
    <2>5. n \in 1 .. LastRecord /\ n <= Time BY <2>1, <2>3, <2>4, RefreshConstants
    <2>6. watch' \in WatchState /\ watch'.attempt = Time /\ watch'.operation = n
          /\ watch'.imported = watch.imported /\ watch'.status = "running"
        <3>1. PICK t \in Nat : t = Time BY <2>3
        <3>2. PICK o \in 0 .. LastRecord : o = n BY <2>5
        <3>3. watch' = [watch EXCEPT !.status = "running", !.failed = FALSE, !.attempt = t, !.operation = o]
            BY <2>2, <3>1, <3>2
        <3>4. /\ watch' \in WatchState /\ watch'.attempt = t /\ watch'.operation = o
              /\ watch'.imported = watch.imported /\ watch'.status = "running"
            BY <1>1, <3>3 DEF WatchState
        <3> QED BY <3>1, <3>2, <3>4
    <2>7. batch' = [Waiting EXCEPT !.step = "open"] BY <1>4 DEF Poll
    <2>8. /\ batch' \in BatchState /\ batch'.step = "open" /\ batch'.record = 0 /\ batch'.pred = 0
          /\ batch'.history = {} /\ ~batch'.new
        BY <2>7, WaitingShape DEF BatchState
    <2>9. RefreshShapes' BY <1>1, <2>6, <2>8 DEF RefreshShapes, ownerVars
    <2>10. WatchFits' BY <1>1, <2>3, <2>5, <2>6 DEF WatchFits
    <2>11. JobFits'
        <3>1. CASE Time = watch.attempt /\ watch.operation > 0
            <4>1. n = watch.operation /\ Job' = Job BY <1>1, <2>1, <2>6, <3>1 DEF Job
            <4> QED BY <1>1, <2>3, <2>6, <3>1, <4>1 DEF JobFits, OriginStores, Held
        <3>2. CASE ~(Time = watch.attempt /\ watch.operation > 0)
            <4>1. n = watch.operation + 1 BY <2>1, <3>2
            <4>2. batches[n] = NoJob /\ \A m \in 1 .. LastRecord : m > n => batches[m] = NoJob
                BY <2>3, <2>5, <4>1 DEF JobFits
            <4>3. Job' = NoJob BY <1>1, <2>6, <4>2 DEF Job
            <4> QED BY <1>1, <2>6, <4>2, <4>3, NoJobShape DEF JobFits
        <3> QED BY <3>1, <3>2
    <2>12. BatchFits' BY <2>8, ShelfShape, <1>1 DEF BatchFits, Creating, Mapping
    <2>13. ReadyIsStored' BY <2>6 DEF ReadyIsStored
    <2> QED BY <1>2, <2>9, <2>10, <2>11, <2>12, <2>13
<1> QED BY <1>3, <1>4

LEMMA HaltKeeps ==
    ASSUME RefreshIInv, Halt
    PROVE  RefreshIInv'
<1> USE DEF RefreshIInv
<1>1. /\ batch' = Waiting
      /\ launches' = [q \in FileRequest |-> [launches[q] EXCEPT !.by = FALSE]]
      /\ refreshCount' = [refreshCount EXCEPT !.halts = refreshCount.halts + 1]
      /\ UNCHANGED <<folder, watch, batches, origin, published, shelf, overlay, requests>>
    BY DEF Halt
<1>2. \A q \in FileRequest : /\ launches'[q] \in [by : BOOLEAN, times : Nat]
                             /\ launches'[q].times = launches[q].times /\ ~launches'[q].by
    <2>1. TAKE q \in FileRequest
    <2>2. launches[q] \in [by : BOOLEAN, times : Nat] BY DEF RefreshShapes
    <2>3. launches'[q] = [launches[q] EXCEPT !.by = FALSE] BY <1>1
    <2> QED BY <2>2, <2>3
<1>3. launches' \in [FileRequest -> [by : BOOLEAN, times : Nat]] BY <1>1, <1>2
<1>4. /\ refreshCount' \in [saves : 0 .. MaxFolderSaves, halts : Nat]
      /\ refreshCount'.saves = refreshCount.saves
    BY <1>1 DEF RefreshShapes
<1>5. RefreshShapes' BY <1>1, <1>3, <1>4, WaitingShape DEF RefreshShapes
<1>6. Job' = Job /\ Time' = Time BY <1>1 DEF Job, Time
<1>7. WatchFits' BY <1>1, <1>4, <1>6, WaitingShape DEF WatchFits
<1>8. JobFits' BY <1>1, <1>6 DEF JobFits, OriginStores, Held
<1>9. ShelfFits' /\ OriginFits' /\ ReadyIsStored'
    BY <1>1 DEF ShelfFits, OriginFits, ReadyIsStored, Held
<1>10. BatchFits' BY <1>1, WaitingShape, ShelfShape DEF BatchFits, Creating, Mapping
<1>11. RequestsFit'
    <2>1. \A r : ChangesOf(r)' = ChangesOf(r) BY <1>1 DEF ChangesOf
    <2> QED BY <1>1, <1>2, <2>1 DEF RequestsFit
<1> QED BY <1>5, <1>7, <1>8, <1>9, <1>10, <1>11

\* The past of the folder stays what it was; an attempt is of its past.
LEMMA ChangeFolderKeeps ==
    ASSUME RefreshIInv, NEW c \in Bytes \cup {"gone"}, ChangeFolder(c)
    PROVE  RefreshIInv'
<1> USE DEF RefreshIInv
<1>1. /\ refreshCount.saves < MaxFolderSaves
      /\ folder' \in {[folder EXCEPT !.was = Append(folder.was, c)], [folder EXCEPT !.away = ~folder.away]}
      /\ refreshCount' = [refreshCount EXCEPT !.saves = refreshCount.saves + 1]
      /\ UNCHANGED <<watch, batches, origin, published, shelf, ownerVars, batch>>
    BY DEF ChangeFolder
<1>2. /\ refreshCount' \in [saves : 0 .. MaxFolderSaves, halts : Nat]
      /\ refreshCount'.saves = refreshCount.saves + 1 /\ refreshCount.saves \in Nat
    <2>1. PICK k \in 0 .. MaxFolderSaves : k = refreshCount.saves BY DEF RefreshShapes
    <2>2. PICK m \in 0 .. MaxFolderSaves : m = k + 1 BY <1>1, <2>1, RefreshConstants
    <2>3. refreshCount' = [refreshCount EXCEPT !.saves = m] BY <1>1, <2>1, <2>2
    <2>4. refreshCount' \in [saves : 0 .. MaxFolderSaves, halts : Nat] /\ refreshCount'.saves = m
        BY <2>3 DEF RefreshShapes
    <2> QED BY <2>1, <2>2, <2>4
<1>3. PICK n \in Nat : n = Time /\ n = Len(folder.was) /\ n >= 1 BY FolderNow DEF Time
<1>4. PICK w, a : folder' = [folder EXCEPT !.was = w, !.away = a]
                  /\ ((w = Append(folder.was, c) /\ a = folder.away)
                      \/ (w = folder.was /\ a = ~folder.away))
    <2>0. folder \in [was : Seq(Bytes \cup {"gone"}), away : BOOLEAN] BY DEF RefreshShapes
    <2>1. CASE folder' = [folder EXCEPT !.was = Append(folder.was, c)]
        <3>1. PICK v : v = Append(folder.was, c) OBVIOUS
        <3>2. folder' = [folder EXCEPT !.was = v, !.away = folder.away] BY <2>0, <2>1, <3>1
        <3> QED BY <3>1, <3>2
    <2>2. CASE folder' = [folder EXCEPT !.away = ~folder.away]
        <3>1. PICK v : v = ~folder.away OBVIOUS
        <3>2. folder' = [folder EXCEPT !.was = folder.was, !.away = v] BY <2>0, <2>2, <3>1
        <3> QED BY <3>1, <3>2
    <2> QED BY <1>1, <2>1, <2>2
<1>5. /\ w \in Seq(Bytes \cup {"gone"}) /\ a \in BOOLEAN
      /\ Len(w) \in {n, n + 1} /\ \A t \in 1 .. n : w[t] = folder.was[t]
    <2>1. folder.was \in Seq(Bytes \cup {"gone"}) /\ folder.away \in BOOLEAN BY FolderNow
    <2>2. CASE w = Append(folder.was, c) /\ a = folder.away BY <1>3, <2>1, <2>2
    <2>3. CASE w = folder.was /\ a = ~folder.away BY <1>3, <2>1, <2>3
    <2> QED BY <1>4, <2>2, <2>3
<1>6. folder' \in [was : Seq(Bytes \cup {"gone"}), away : BOOLEAN] /\ folder'.was = w
    BY <1>4, <1>5 DEF RefreshShapes
<1>7. PICK m \in {n, n + 1} : m = Len(w) BY <1>5
<1>8. Time' = m /\ DOMAIN folder'.was = 1 .. m /\ DOMAIN folder.was = 1 .. n
    BY <1>3, <1>5, <1>6, <1>7, FolderNow DEF Time
<1>9. 1 .. n \subseteq 1 .. m /\ n <= m /\ m <= n + 1 BY <1>7
<1>10. Job' = Job /\ \A b : Copied(b)' = Copied(b) BY <1>1 DEF Job, Copied
<1>11. watch \in WatchState /\ watch.attempt \in Nat /\ watch.imported \in Nat /\ watch.attempt <= n
       /\ watch.imported <= watch.attempt
    BY <1>3 DEF RefreshShapes, WatchFits, WatchState
<1>12. RefreshShapes' BY <1>1, <1>2, <1>6 DEF RefreshShapes, ownerVars
<1>13. WatchFits' BY <1>1, <1>2, <1>3, <1>8, <1>9, <1>11 DEF WatchFits
<1>14. JobFits'
    <2>1. \A i \in 1 .. LastRecord : i > watch.operation => batches[i] = NoJob BY DEF JobFits
    <2>2. CASE m = n
        <3>1. Held(Time)' = Held(Time) /\ Time' = Time BY <1>3, <1>5, <1>6, <1>8, <2>2 DEF Held
        <3> QED BY <1>1, <1>10, <3>1 DEF JobFits, OriginStores
    <2>3. CASE m = n + 1
        <3>1. ~(Time' = watch'.attempt) BY <1>1, <1>8, <1>11, <2>3
        <3> QED BY <1>1, <1>10, <3>1 DEF JobFits, OriginStores
    <2> QED BY <1>7, <2>2, <2>3
<1>15. ASSUME NEW b, \E t \in DOMAIN folder.was : folder.was[t] = b
       PROVE  \E t \in DOMAIN folder'.was : folder'.was[t] = b
    <2>1. PICK t \in 1 .. n : folder.was[t] = b BY <1>8, <1>15
    <2>2. t \in DOMAIN folder'.was /\ folder'.was[t] = b BY <2>1, <1>5, <1>6, <1>8, <1>9
    <2> QED BY <2>2
<1>16. ShelfFits' BY <1>1, <1>15 DEF ShelfFits
<1>17. OriginFits' /\ RequestsFit' BY <1>1 DEF OriginFits, RequestsFit, ChangesOf, ownerVars
<1>18. BatchFits' BY <1>1, <1>10, <1>15 DEF BatchFits, OriginStores
<1>19. ReadyIsStored'
    <2>1. watch.status = "ready" => watch.imported \in 1 .. n BY <1>11 DEF WatchFits
    <2>2. watch.status = "ready" => folder'.was[watch.imported] = folder.was[watch.imported]
        BY <2>1, <1>5, <1>6
    <2> QED BY <1>1, <2>2 DEF ReadyIsStored, Held
<1> QED BY <1>12, <1>13, <1>14, <1>16, <1>17, <1>18, <1>19

\* Owners' changes leave the import and what it wrote alone.
LEMMA OwnersStay ==
    ASSUME RefreshIInv, RefreshShapes', RequestsFit',
           UNCHANGED <<folder, watch, batches, origin, published, shelf, batch, refreshCount>>
    PROVE  RefreshIInv'
<1> USE DEF RefreshIInv
<1>1. Job' = Job /\ Time' = Time BY DEF Job, Time
<1>2. WatchFits' BY <1>1 DEF WatchFits
<1>3. JobFits' BY <1>1 DEF JobFits, OriginStores, Held
<1>4. ShelfFits' /\ OriginFits' BY DEF ShelfFits, OriginFits
<1>5. ReadyIsStored' BY DEF ReadyIsStored, Held
<1>6. BatchFits' BY <1>1 DEF BatchFits, Creating, Mapping, Copied, OriginStores
<1> QED BY <1>2, <1>3, <1>4, <1>5, <1>6

\* What is shown of a record counts the changes its owners were answered.
LEMMA EffectiveRevision ==
    ASSUME RefreshIInv, NEW r \in DOMAIN shelf
    PROVE  /\ IsFiniteSet(ChangesOf(r)) /\ Cardinality(ChangesOf(r)) \in Nat
           /\ Effective(r).revision = 1 + Cardinality(ChangesOf(r))
<1>1. r \in 1 .. LastRecord
      /\ Effective(r).revision = IF overlay[r].revision > 0 THEN overlay[r].revision ELSE 1
    BY EffectiveShape
<1>2. IsFiniteSet(ChangesOf(r)) BY <1>1 DEF RefreshIInv, RequestsFit
<1>3. PICK k \in Nat : k = Cardinality(ChangesOf(r)) BY <1>2, FS_CardinalityType
<1>4. overlay[r].revision = IF ChangesOf(r) = {} THEN 0 ELSE 1 + k
    BY <1>1, <1>3 DEF RefreshIInv, RequestsFit
<1>5. ChangesOf(r) = {} => k = 0 BY <1>3, FS_EmptySet
<1>6. ChangesOf(r) # {} => k # 0 BY <1>2, <1>3, FS_EmptySet
<1> QED BY <1>1, <1>2, <1>3, <1>4, <1>5, <1>6

LEMMA AskShape ==
    /\ NoAsk \in Ask /\ NoAsk.record = 0 /\ NoAsk.action = "none"
BY DEF NoAsk, Ask

LEMMA ManageKeeps ==
    ASSUME RefreshIInv, NEW q \in FileRequest, NEW r \in DOMAIN shelf,
           NEW action \in {"assign", "trash", "restore"}, Manage(q, r, action)
    PROVE  RefreshIInv'
<1> USE DEF RefreshIInv
<1>1. /\ requests[q] = NoAsk
      /\ UNCHANGED <<folder, watch, batches, origin, published, shelf, launches, batch, refreshCount>>
    BY DEF Manage
<1>2. Effective(r) \in Place /\ r \in 1 .. LastRecord BY EffectiveShape
<1>3. PICK e \in Place : e = Effective(r) BY <1>2
<1>4. IsFiniteSet(ChangesOf(r)) /\ e.revision = 1 + Cardinality(ChangesOf(r)) BY <1>3, EffectiveRevision
<1>5. PICK k \in Nat : k = Cardinality(ChangesOf(r)) BY <1>4, FS_CardinalityType
<1>6. PICK new : /\ new \in Place /\ new.revision = k + 2
                 /\ overlay' = [overlay EXCEPT ![r] = new]
    <2>0. /\ Inbox \in {Inbox, Assigned} /\ e.place \in {Inbox, Assigned} /\ e.revision \in Nat
          /\ e.generation \in Nat /\ e.at \in Nat /\ Len(shelf) \in Nat
        BY <1>3, ShelfShape DEF Place
    <2>1. PICK p \in {Inbox, Assigned} : p = IF action = "assign" THEN Assigned ELSE e.place
        BY <2>0
    <2>11. PICK d \in BOOLEAN : d = (action = "trash") OBVIOUS
    <2>12. PICK v \in Nat : v = e.revision + 1 BY <2>0
    <2>13. PICK g \in Nat : g = e.generation + (IF action = "trash" THEN 1 ELSE 0) BY <2>0
    <2>14. PICK t \in Nat : t = IF action = "trash" THEN Len(shelf) ELSE e.at BY <2>0
    <2>2. PICK new : new = [place |-> p, trashed |-> d, revision |-> v, generation |-> g, at |-> t]
        OBVIOUS
    <2>3. new \in Place /\ new.revision = v BY <2>1, <2>11, <2>12, <2>13, <2>14, <2>2 DEF Place
    <2>4. overlay' = [overlay EXCEPT ![r] = new]
        BY <1>3, <2>1, <2>11, <2>12, <2>13, <2>14, <2>2 DEF Manage
    <2>5. v = k + 2 BY <1>4, <1>5, <2>12
    <2> QED BY <2>3, <2>4, <2>5
<1>7. PICK ask : /\ ask \in Ask /\ ask.action = action /\ ask.record = r
                 /\ requests' = [requests EXCEPT ![q] = ask]
    <2>1. PICK ask : ask = [action |-> action, record |-> r, status |-> "done"] OBVIOUS
    <2>2. ask \in Ask /\ ask.action = action /\ ask.record = r BY <2>1, <1>2 DEF Ask
    <2> QED BY <2>1, <2>2 DEF Manage
<1>8. requests \in [FileRequest -> Ask] /\ overlay \in [1 .. LastRecord -> Place] BY DEF RefreshShapes
<1>9. RefreshShapes' BY <1>1, <1>6, <1>7, <1>8 DEF RefreshShapes
<1>10. r # 0 /\ r \in 0 .. Len(shelf) /\ ask # NoAsk BY <1>2, <1>7, ShelfShape, AskShape
<1>11. q \notin ChangesOf(r) BY <1>1, <1>10, AskShape DEF ChangesOf
<1>12. ChangesOf(r)' = ChangesOf(r) \cup {q}
    <2>1. {p \in FileRequest : requests'[p].record = r /\ requests'[p].action # "open"} = ChangesOf(r) \cup {q}
        BY <1>7, <1>8 DEF ChangesOf
    <2> QED BY <2>1 DEF ChangesOf
<1>13. IsFiniteSet(ChangesOf(r) \cup {q}) /\ Cardinality(ChangesOf(r) \cup {q}) = k + 1
    BY <1>4, <1>5, <1>11, FS_AddElement
<1>14. \A s \in 1 .. LastRecord : s # r => ChangesOf(s)' = ChangesOf(s)
    <2>1. TAKE s \in 1 .. LastRecord
    <2>2. HAVE s # r
    <2>3. q \notin ChangesOf(s) BY <1>1, AskShape DEF ChangesOf
    <2>4. {p \in FileRequest : requests'[p].record = s /\ requests'[p].action # "open"} = ChangesOf(s)
        BY <1>7, <1>8, <2>2, <2>3 DEF ChangesOf
    <2> QED BY <2>4 DEF ChangesOf
<1>15. RequestsFit'
    <2>1. \A p \in FileRequest :
            /\ requests'[p].record \in 0 .. Len(shelf)
            /\ requests'[p] # NoAsk => requests'[p].record # 0
            /\ requests'[p] = NoAsk => launches[p].times = 0 /\ ~launches[p].by
            /\ launches[p].times <= 1 /\ (launches[p].by => launches[p].times = 0)
        BY <1>7, <1>8, <1>10 DEF RequestsFit
    <2>2. ASSUME NEW s \in 1 .. LastRecord PROVE
            /\ IsFiniteSet(ChangesOf(s)')
            /\ overlay'[s].revision = IF ChangesOf(s)' = {} THEN 0 ELSE 1 + Cardinality(ChangesOf(s)')
        <3>1. CASE s = r
            <4>1. overlay'[r].revision = k + 2 BY <1>2, <1>6, <1>8
            <4>2. IsFiniteSet(ChangesOf(r)') /\ Cardinality(ChangesOf(r)') = k + 1 /\ ChangesOf(r)' # {}
                BY <1>12, <1>13
            <4>3. overlay'[r].revision = 1 + Cardinality(ChangesOf(r)') BY <4>1, <4>2
            <4> QED BY <3>1, <4>2, <4>3
        <3>2. CASE s # r BY <3>2, <1>6, <1>8, <1>14 DEF RequestsFit
        <3> QED BY <3>1, <3>2
    <2> QED BY <1>1, <2>1, <2>2 DEF RequestsFit
<1> QED BY <1>1, <1>9, <1>15, OwnersStay

LEMMA ReserveOpeningKeeps ==
    ASSUME RefreshIInv, NEW q \in FileRequest, NEW r \in DOMAIN shelf, ReserveOpening(q, r)
    PROVE  RefreshIInv'
<1> USE DEF RefreshIInv
<1>1. /\ requests[q] = NoAsk
      /\ UNCHANGED <<folder, watch, batches, origin, published, shelf, overlay, batch, refreshCount>>
    BY DEF ReserveOpening
<1>2. PICK ask : /\ ask \in Ask /\ ask.action = "open" /\ ask.record = r
                 /\ requests' = [requests EXCEPT ![q] = ask]
    <2>1. PICK ask : ask = [action |-> "open", record |-> r, status |-> "unknown"] OBVIOUS
    <2>2. ask \in Ask /\ ask.action = "open" /\ ask.record = r BY <2>1, ShelfShape DEF Ask
    <2> QED BY <2>1, <2>2 DEF ReserveOpening
<1>3. requests \in [FileRequest -> Ask] /\ launches \in [FileRequest -> [by : BOOLEAN, times : Nat]]
    BY DEF RefreshShapes
<1>4. PICK l : /\ l \in [by : BOOLEAN, times : Nat] /\ l.by /\ l.times = launches[q].times
               /\ launches' = [launches EXCEPT ![q] = l]
    <2>1. launches[q] \in [by : BOOLEAN, times : Nat] BY <1>3
    <2>2. PICK l : l = [launches[q] EXCEPT !.by = TRUE] OBVIOUS
    <2>3. l \in [by : BOOLEAN, times : Nat] /\ l.by /\ l.times = launches[q].times BY <2>1, <2>2
    <2> QED BY <2>2, <2>3 DEF ReserveOpening
<1>5. RefreshShapes' BY <1>1, <1>2, <1>3, <1>4 DEF RefreshShapes
<1>6. r # 0 /\ r \in 0 .. Len(shelf) /\ ask # NoAsk BY <1>2, ShelfShape, AskShape
<1>7. launches[q].times = 0 BY <1>1 DEF RequestsFit
<1>8. \A s \in 1 .. LastRecord : ChangesOf(s)' = ChangesOf(s)
    <2>1. TAKE s \in 1 .. LastRecord
    <2>2. q \notin ChangesOf(s) BY <1>1, AskShape DEF ChangesOf
    <2>3. {p \in FileRequest : requests'[p].record = s /\ requests'[p].action # "open"} = ChangesOf(s)
        BY <1>2, <1>3, <2>2 DEF ChangesOf
    <2> QED BY <2>3 DEF ChangesOf
<1>9. \A p \in FileRequest :
        /\ requests'[p].record \in 0 .. Len(shelf)
        /\ requests'[p] # NoAsk => requests'[p].record # 0
        /\ requests'[p] = NoAsk => launches'[p].times = 0 /\ ~launches'[p].by
        /\ launches'[p].times <= 1 /\ (launches'[p].by => launches'[p].times = 0)
    BY <1>2, <1>3, <1>4, <1>6, <1>7 DEF RequestsFit
<1>10. RequestsFit' BY <1>1, <1>8, <1>9 DEF RequestsFit
<1> QED BY <1>1, <1>5, <1>10, OwnersStay

LEMMA LaunchViewerKeeps ==
    ASSUME RefreshIInv, NEW q \in FileRequest, LaunchViewer(q)
    PROVE  RefreshIInv'
<1> USE DEF RefreshIInv
<1>1. /\ launches[q].by
      /\ UNCHANGED <<folder, watch, batches, origin, published, shelf, overlay, requests, batch, refreshCount>>
    BY DEF LaunchViewer
<1>2. launches \in [FileRequest -> [by : BOOLEAN, times : Nat]] BY DEF RefreshShapes
<1>3. launches[q].times = 0 /\ requests[q] # NoAsk BY <1>1 DEF RequestsFit
<1>4. PICK l : /\ l \in [by : BOOLEAN, times : Nat] /\ ~l.by /\ l.times = 1
               /\ launches' = [launches EXCEPT ![q] = l]
    <2>1. PICK l : l = [by |-> FALSE, times |-> launches[q].times + 1] OBVIOUS
    <2>2. l \in [by : BOOLEAN, times : Nat] /\ ~l.by /\ l.times = 1 BY <1>3, <2>1
    <2> QED BY <2>1, <2>2 DEF LaunchViewer
<1>5. RefreshShapes' BY <1>1, <1>2, <1>4 DEF RefreshShapes
<1>6. \A r : ChangesOf(r)' = ChangesOf(r) BY <1>1 DEF ChangesOf
<1>7. RequestsFit' BY <1>1, <1>2, <1>3, <1>4, <1>6 DEF RequestsFit
<1> QED BY <1>1, <1>5, <1>7, OwnersStay

LEMMA NoteLaunchKeeps ==
    ASSUME RefreshIInv, NEW q \in FileRequest, NoteLaunch(q)
    PROVE  RefreshIInv'
<1> USE DEF RefreshIInv
<1>1. /\ requests[q].action = "open"
      /\ UNCHANGED <<folder, watch, batches, origin, published, shelf, overlay, launches, batch, refreshCount>>
    BY DEF NoteLaunch
<1>2. requests \in [FileRequest -> Ask] BY DEF RefreshShapes
<1>3. PICK ask : /\ ask \in Ask /\ ask.action = "open" /\ ask.record = requests[q].record
                 /\ requests' = [requests EXCEPT ![q] = ask]
    <2>1. PICK s \in {"launch_requested", "failed"} : requests' = [requests EXCEPT ![q].status = s]
        BY DEF NoteLaunch
    <2>2. PICK ask : ask = [requests[q] EXCEPT !.status = s] OBVIOUS
    <2>3. ask \in Ask /\ ask.action = "open" /\ ask.record = requests[q].record
        BY <1>1, <1>2, <2>2 DEF Ask
    <2> QED BY <2>1, <2>2, <2>3
<1>4. RefreshShapes' BY <1>1, <1>2, <1>3 DEF RefreshShapes
<1>5. requests[q].record # 0 /\ ask # NoAsk
    <2>1. requests[q] # NoAsk BY <1>1, AskShape
    <2> QED BY <2>1, <1>3, AskShape DEF RequestsFit
<1>6. \A r : ChangesOf(r)' = ChangesOf(r)
    <2>1. TAKE r
    <2>2. {p \in FileRequest : requests'[p].record = r /\ requests'[p].action # "open"} = ChangesOf(r)
        BY <1>1, <1>2, <1>3 DEF ChangesOf
    <2> QED BY <2>2 DEF ChangesOf
<1>7. RequestsFit' BY <1>1, <1>2, <1>3, <1>5, <1>6 DEF RequestsFit
<1> QED BY <1>1, <1>4, <1>7, OwnersStay

LEMMA RefreshStart == RefreshInit => RefreshIInv
<1> SUFFICES ASSUME RefreshInit PROVE RefreshIInv OBVIOUS
<1>1. PICK b \in Bytes : folder = [was |-> <<b>>, away |-> FALSE] BY DEF RefreshInit
<1>2. PICK w : w = <<b>> OBVIOUS
<1>3. w \in Seq(Bytes \cup {"gone"}) /\ Len(w) = 1 BY <1>2
<1>4. folder = [was |-> w, away |-> FALSE] BY <1>1, <1>2
<1>5. Time = 1 BY <1>3, <1>4 DEF Time
<1>6. /\ watch = [imported |-> 0, attempt |-> 0, operation |-> 0, status |-> "pending", failed |-> FALSE]
      /\ batches = [n \in 1 .. LastRecord |-> NoJob] /\ origin = NoSource
      /\ published = [c \in Bytes |-> "absent"] /\ shelf = <<>>
      /\ overlay = [r \in 1 .. LastRecord |-> NoPlace]
      /\ requests = [q \in FileRequest |-> NoAsk]
      /\ launches = [q \in FileRequest |-> [by |-> FALSE, times |-> 0]]
      /\ batch = Waiting /\ refreshCount = [saves |-> 0, halts |-> 0]
    BY DEF RefreshInit, LastRecord
<1>7. /\ watch \in WatchState /\ watch.imported = 0 /\ watch.attempt = 0 /\ watch.operation = 0
      /\ watch.status = "pending"
    BY <1>6, RefreshConstants DEF WatchState
<1>8. /\ origin \in Source /\ origin.record = 0 /\ origin.pred = 0 /\ origin.history = {} /\ ~origin.new
    BY <1>6 DEF NoSource, Source
<1>9. shelf \in Seq(Shelved) /\ Len(shelf) = 0 /\ DOMAIN shelf = {} BY <1>6
<1>10. RefreshShapes
    <2>1. folder \in [was : Seq(Bytes \cup {"gone"}), away : BOOLEAN] BY <1>3, <1>4
    <2>2. \A q \in FileRequest : launches[q] = [by |-> FALSE, times |-> 0] BY <1>6
    <2>3. launches \in [FileRequest -> [by : BOOLEAN, times : Nat]] BY <1>6
    <2>4. refreshCount \in [saves : 0 .. MaxFolderSaves, halts : Nat] BY <1>6, RefreshConstants
    <2> QED BY <1>6, <1>7, <1>8, <1>9, <2>1, <2>3, <2>4, NoJobShape, WaitingShape, AskShape
            DEF RefreshShapes
<1>11. WatchFits BY <1>5, <1>6, <1>7, WaitingShape DEF WatchFits
<1>12. JobFits BY <1>6, <1>7 DEF JobFits
<1>13. ShelfFits BY <1>9 DEF ShelfFits
<1>14. OriginFits BY <1>8, <1>9 DEF OriginFits
<1>15. BatchFits BY <1>6, <1>9, WaitingShape DEF BatchFits, Creating, Mapping
<1>16. RequestsFit
    <2>1. \A q \in FileRequest : /\ requests[q] = NoAsk
                                 /\ launches[q].times = 0 /\ ~launches[q].by
        BY <1>6
    <2>2. ASSUME NEW r \in 1 .. LastRecord PROVE ChangesOf(r) = {}
        BY <2>1, AskShape DEF ChangesOf
    <2>3. \A r \in 1 .. LastRecord : overlay[r].revision = 0 BY <1>6, WaitingShape
    <2>4. \A r \in 1 .. LastRecord :
            /\ IsFiniteSet(ChangesOf(r))
            /\ overlay[r].revision = IF ChangesOf(r) = {} THEN 0 ELSE 1 + Cardinality(ChangesOf(r))
        BY <2>2, <2>3, FS_EmptySet
    <2>5. \A q \in FileRequest :
            /\ requests[q].record \in 0 .. Len(shelf)
            /\ requests[q] # NoAsk => requests[q].record # 0
            /\ requests[q] = NoAsk => launches[q].times = 0 /\ ~launches[q].by
            /\ launches[q].times <= 1 /\ (launches[q].by => launches[q].times = 0)
        BY <1>9, <2>1, AskShape
    <2> QED BY <2>4, <2>5 DEF RequestsFit
<1>17. ReadyIsStored BY <1>7 DEF ReadyIsStored
<1> QED BY <1>10, <1>11, <1>12, <1>13, <1>14, <1>15, <1>16, <1>17 DEF RefreshIInv

LEMMA RefreshingStep == RefreshIInv /\ [RefreshNext]_refreshVars => RefreshIInv'
<1> SUFFICES ASSUME RefreshIInv, [RefreshNext]_refreshVars PROVE RefreshIInv' OBVIOUS
<1>1. CASE Poll BY <1>1, PollKeeps
<1>2. CASE OpenJob BY <1>2, OpenJobKeeps
<1>3. CASE TakeRow BY <1>3, TakeRowKeeps
<1>4. CASE ImportOne BY <1>4, ImportOneKeeps
<1>5. CASE PublishBytes BY <1>5, PublishBytesKeeps
<1>6. CASE WriteRecord BY <1>6, WriteRecordKeeps
<1>7. CASE NoteMapping BY <1>7, NoteMappingKeeps
<1>8. CASE ReadPredecessor BY <1>8, ReadPredecessorKeeps
<1>9. CASE PlaceRecord BY <1>9, PlaceRecordKeeps
<1>10. CASE SaveReceipt BY <1>10, SaveReceiptKeeps
<1>11. CASE SaveJob BY <1>11, SaveJobKeeps
<1>12. CASE EndRefresh BY <1>12, EndRefreshKeeps
<1>13. ASSUME NEW d \in BOOLEAN, CloseJob(d) PROVE RefreshIInv' BY <1>13, CloseJobKeeps
<1>14. CASE Halt BY <1>14, HaltKeeps
<1>15. ASSUME NEW c \in Bytes \cup {"gone"}, ChangeFolder(c) PROVE RefreshIInv'
    BY <1>15, ChangeFolderKeeps
<1>16. ASSUME NEW q \in FileRequest, LaunchViewer(q) PROVE RefreshIInv' BY <1>16, LaunchViewerKeeps
<1>17. ASSUME NEW q \in FileRequest, NoteLaunch(q) PROVE RefreshIInv' BY <1>17, NoteLaunchKeeps
<1>18. ASSUME NEW q \in FileRequest, NEW r \in DOMAIN shelf, ReserveOpening(q, r) PROVE RefreshIInv'
    BY <1>18, ReserveOpeningKeeps
<1>19. ASSUME NEW q \in FileRequest, NEW r \in DOMAIN shelf, NEW a \in {"assign", "trash", "restore"},
              Manage(q, r, a)
       PROVE  RefreshIInv'
    BY <1>19, ManageKeeps
<1>20. CASE UNCHANGED refreshVars
    <2>1. UNCHANGED <<folder, watch, batches, origin, published, shelf, overlay, requests, launches,
                      batch, refreshCount>>
        BY <1>20 DEF refreshVars
    <2>2. RefreshShapes' BY <2>1 DEF RefreshIInv, RefreshShapes
    <2>3. RequestsFit' BY <2>1 DEF RefreshIInv, RequestsFit, ChangesOf
    <2> QED BY <2>1, <2>2, <2>3, OwnersStay
<1> QED BY <1>1, <1>2, <1>3, <1>4, <1>5, <1>6, <1>7, <1>8, <1>9, <1>10, <1>11, <1>12, <1>13, <1>14,
           <1>15, <1>16, <1>17, <1>18, <1>19, <1>20
        DEF RefreshNext, Import

LEMMA RefreshFollows == RefreshIInv => RefreshInv
<1> SUFFICES ASSUME RefreshIInv PROVE RefreshInv OBVIOUS
<1> USE DEF RefreshIInv
<1>1. RefreshTypeOK
    <2>1. watch.operation \in 0 .. MaxFolderSaves + 1
        BY DEF RefreshShapes, WatchState, LastRecord
    <2>2. batch.step # "rest" => watch.operation > 0 /\ watch.status = "running"
        BY DEF WatchFits
    <2>3. \A n \in DOMAIN batches : batches[n].want \in Bytes \cup {"none", "gone"}
        <3>1. \A j \in JobRow : j.want \in Bytes \cup {"none", "gone"} BY DEF JobRow
        <3> QED BY <3>1 DEF RefreshShapes
    <2>4. origin.record \in 0 .. Len(shelf) /\ origin.history \subseteq DOMAIN shelf BY DEF OriginFits
    <2>5. \A r \in DOMAIN shelf : shelf[r].content \in Bytes /\ shelf[r].pred \in 0 .. Len(shelf)
        <3>1. \A x \in Shelved : x.pred \in Nat BY DEF Shelved
        <3>2. \A r \in DOMAIN shelf : shelf[r].pred < r BY DEF ShelfFits
        <3>3. PICK n \in Nat : n = Len(shelf) /\ DOMAIN shelf = 1 .. n BY ShelfShape
        <3> QED BY <3>1, <3>2, <3>3, ShelfShape
    <2>6. ASSUME NEW r \in DOMAIN overlay, overlay[r].revision > 0 PROVE r \in DOMAIN shelf
        <3>1. r \in 1 .. LastRecord BY DEF RefreshShapes
        <3>2. ChangesOf(r) # {} BY <2>6, <3>1 DEF RequestsFit
        <3>3. PICK q \in FileRequest : requests[q].record = r BY <3>2 DEF ChangesOf
        <3>4. r \in 0 .. Len(shelf) BY <3>3 DEF RequestsFit
        <3> QED BY <3>1, <3>4, ShelfShape
    <2> QED BY <2>1, <2>2, <2>3, <2>4, <2>5, <2>6 DEF RefreshTypeOK, RefreshShapes
<1>2. OneRecordPerContent BY DEF OneRecordPerContent, ShelfFits
<1>3. VersionsAreOrdered BY DEF VersionsAreOrdered, ShelfFits
<1>4. ChangesAreReceipted BY EffectiveRevision DEF ChangesAreReceipted, ChangesOf
<1>5. LaunchedOnce BY DEF LaunchedOnce, RequestsFit
<1> QED BY <1>1, <1>2, <1>3, <1>4, <1>5 DEF RefreshInv

\* For any contents, requests and numbers of changes and deaths: one record per content,
\* stored before the folder counts as imported, its predecessors before it, every owner's
\* change with its receipt, a viewer started once (run, _one, manage, open_file).
THEOREM ImportsMakeOneRecord == RefreshSpec => []RefreshInv
<1>1. RefreshInit => RefreshIInv BY RefreshStart
<1>2. RefreshIInv /\ [RefreshNext]_refreshVars => RefreshIInv' BY RefreshingStep
<1>3. RefreshIInv => RefreshInv BY RefreshFollows
<1> QED BY <1>1, <1>2, <1>3, PTL DEF RefreshSpec
===============================================================================
