---------------------------- MODULE PlatformProofs ----------------------------
(***************************************************************************)
(* What TLAPS proves of the parts of Platform, for any collections,        *)
(* providers, attempts, keys, rollouts and contents of the disk.  The      *)
(* parts share nothing, so that each has an invariant of its own, and      *)
(* PartsAlone makes a theorem about a part one about Platform.             *)
(***************************************************************************)
EXTENDS Platform, FiniteSetTheorems, TLAPS

-------------------------------------------------------------------------------
\* Records put under ids made up for them

Counters == {CounterOf(c) : c \in Collection}

StoreType ==
  /\ store \in [Collection -> [Id -> 0..MaxWrites]]
  /\ seq \in [Counters -> Id]
  /\ writes \in 0..MaxWrites
  /\ issued \subseteq Collection \X Id \X (1..MaxWrites)

\* Ids that have been made up are no larger than their counter: the next one is new.
IssuedBelowCounter == \A r \in issued : r[2] <= seq[CounterOf(r[1])]

\* Records are numbered in the order of the writes.
StoreBelowWrites == \A c \in Collection, n \in Id : store[c][n] <= writes

StoreInv == StoreType /\ IssuedBelowCounter /\ IssuedRecordsStay

\* What a write does to the store, its guards and the backup left aside.
LEMMA WriteType ==
  ASSUME StoreType, NEW c \in Collection, NEW n \in Id, Write(c, n)
  PROVE  /\ store' \in [Collection -> [Id -> 0..MaxWrites]]
         /\ writes' \in 0..MaxWrites
         /\ writes + 1 \in 1..MaxWrites
         /\ store'[c][n] = writes + 1
         /\ \A d \in Collection, k \in Id : d # c \/ k # n => store'[d][k] = store[d][k]
<1>1. MaxWrites \in Nat
  BY CollectionAssumption
<1>2. writes \in 0..MaxWrites /\ writes < MaxWrites /\ writes' = writes + 1
  BY DEF StoreType, Write
<1>3. writes + 1 \in 0..MaxWrites /\ writes + 1 \in 1..MaxWrites
  BY <1>1, <1>2
<1>4. store' = [store EXCEPT ![c][n] = writes + 1] /\ store \in [Collection -> [Id -> 0..MaxWrites]]
  BY DEF StoreType, Write
<1> HIDE DEF Id
<1>5. store'[c] = [store[c] EXCEPT ![n] = writes + 1] /\ store[c] \in [Id -> 0..MaxWrites]
      /\ \A d \in Collection : d # c => store'[d] = store[d]
  BY <1>4
<1>6. store'[c] \in [Id -> 0..MaxWrites]
  BY <1>3, <1>5
<1>7. store' \in [Collection -> [Id -> 0..MaxWrites]]
  BY <1>4, <1>6
<1>8. QED
  BY <1>2, <1>3, <1>5, <1>7

\* A record put without an id leaves the issued ones as they are.
LEMMA IssueKeeps ==
  ASSUME StoreInv, NEW c \in Collection, Issue(c)
  PROVE  StoreInv'
<1> DEFINE n == NextId(c)
<1>1. CounterOf(c) \in Counters
  BY DEF Counters
<1>2. n \in Id /\ n = seq[CounterOf(c)] + 1 /\ seq[CounterOf(c)] \in Nat
  BY <1>1, CollectionAssumption DEF Issue, NextId, StoreInv, StoreType, Id
<1>3. Write(c, n) /\ seq' = [seq EXCEPT ![CounterOf(c)] = n]
      /\ issued' = issued \cup {<<c, n, writes + 1>>}
  BY DEF Issue
<1> HIDE DEF n
<1>4. /\ store' \in [Collection -> [Id -> 0..MaxWrites]]
      /\ writes' \in 0..MaxWrites
      /\ writes + 1 \in 1..MaxWrites
      /\ store'[c][n] = writes + 1
      /\ \A d \in Collection, k \in Id : d # c \/ k # n => store'[d][k] = store[d][k]
  BY <1>2, <1>3, WriteType DEF StoreInv
<1>5. StoreType'
  BY <1>1, <1>2, <1>3, <1>4 DEF StoreInv, StoreType
<1>6. IssuedBelowCounter'
  <2> SUFFICES ASSUME NEW r \in issued' PROVE r[2] <= seq'[CounterOf(r[1])]
    BY DEF IssuedBelowCounter
  <2>1. CASE r = <<c, n, writes + 1>>
    BY <2>1, <1>1, <1>2, <1>3 DEF StoreInv, StoreType, Id
  <2>2. CASE r \in issued
    <3>1. r[1] \in Collection /\ r[2] \in Nat /\ r[2] <= seq[CounterOf(r[1])]
      BY <2>2 DEF StoreInv, StoreType, IssuedBelowCounter, Id
    <3>2. CounterOf(r[1]) \in Counters /\ seq[CounterOf(r[1])] \in Nat
      BY <3>1, CollectionAssumption DEF Counters, StoreInv, StoreType, Id
    <3>3. QED
      BY <3>1, <3>2, <1>1, <1>2, <1>3 DEF StoreInv, StoreType
  <2>3. QED
    BY <2>1, <2>2, <1>3
<1>7. IssuedRecordsStay'
  <2> SUFFICES ASSUME NEW r \in issued' PROVE store'[r[1]][r[2]] = r[3]
    BY DEF IssuedRecordsStay
  <2>1. CASE r = <<c, n, writes + 1>>
    BY <2>1, <1>4
  <2>2. CASE r \in issued
    <3>1. /\ r[1] \in Collection /\ r[2] \in Id
          /\ r[2] <= seq[CounterOf(r[1])] /\ store[r[1]][r[2]] = r[3]
      BY <2>2 DEF StoreInv, StoreType, IssuedBelowCounter, IssuedRecordsStay
    <3>2. r[1] # c \/ r[2] # n
      BY <3>1, <1>2 DEF Id
    <3>3. QED
      BY <3>1, <3>2, <1>4
  <2>3. QED
    BY <2>1, <2>2, <1>3
<1>8. QED
  BY <1>5, <1>6, <1>7 DEF StoreInv

\* Naming a record takes it out of the issued ones.
LEMMA NameKeeps ==
  ASSUME StoreInv, NEW c \in Collection, NEW n \in Id, Name(c, n) \/ Delete(c, n)
  PROVE  StoreInv'
<1>1. issued' = Unnamed(c, n) /\ seq' = seq
  BY DEF Name, Delete
<1>2. /\ store' \in [Collection -> [Id -> 0..MaxWrites]]
      /\ writes' \in 0..MaxWrites
      /\ \A d \in Collection, k \in Id : d # c \/ k # n => store'[d][k] = store[d][k]
  <2>1. CASE Name(c, n)
    BY <2>1, WriteType DEF Name, StoreInv
  <2>2. CASE Delete(c, n)
    BY <2>2, CollectionAssumption DEF Delete, StoreInv, StoreType
  <2>3. QED
    BY <2>1, <2>2
<1>3. StoreType'
  BY <1>1, <1>2 DEF StoreInv, StoreType, Unnamed
<1>4. IssuedBelowCounter'
  BY <1>1 DEF StoreInv, IssuedBelowCounter, Unnamed
<1>5. IssuedRecordsStay'
  BY <1>1, <1>2 DEF StoreInv, StoreType, IssuedRecordsStay, Unnamed
<1>6. QED
  BY <1>3, <1>4, <1>5 DEF StoreInv

\* Every request preserves what issued records need.
LEMMA StoreInvStep == StoreInv /\ [StoresNext]_storeVars => StoreInv'
<1> SUFFICES ASSUME StoreInv, [StoresNext]_storeVars PROVE StoreInv'
  OBVIOUS
<1>1. ASSUME NEW c \in Collection, Issue(c) PROVE StoreInv'
  BY <1>1, IssueKeeps
<1>2. ASSUME NEW c \in Collection, NEW n \in Id, Name(c, n) \/ Delete(c, n) PROVE StoreInv'
  BY <1>2, NameKeeps
<1>3. ASSUME FailUpload PROVE StoreInv'
  <2>1. CounterOf("upload") = "workspace" /\ "workspace" \in Counters
    BY <1>3 DEF FailUpload, CounterOf, Counter, Counters
  <2>2. seq' = [seq EXCEPT !["workspace"] = seq["workspace"] + 1] /\ seq["workspace"] + 1 \in Id
    BY <1>3, <2>1 DEF FailUpload, NextId
  <2>3. store' = store /\ writes' = writes /\ issued' = issued
    BY <1>3 DEF FailUpload
  <2>4. StoreType'
    BY <2>1, <2>2, <2>3 DEF StoreInv, StoreType
  <2>5. IssuedBelowCounter'
    <3> SUFFICES ASSUME NEW r \in issued PROVE r[2] <= seq'[CounterOf(r[1])]
      BY <2>3 DEF IssuedBelowCounter
    <3>1. /\ r[1] \in Collection /\ r[2] \in Nat /\ CounterOf(r[1]) \in Counters
          /\ r[2] <= seq[CounterOf(r[1])] /\ seq[CounterOf(r[1])] \in Nat
      BY CollectionAssumption DEF StoreInv, StoreType, IssuedBelowCounter, Id, Counters
    <3>2. QED
      BY <3>1, <2>1, <2>2 DEF StoreInv, StoreType
  <2>6. QED
    BY <2>3, <2>4, <2>5 DEF StoreInv, IssuedRecordsStay
<1>4. CASE Backup
  <2>1. UNCHANGED <<store, seq, writes, issued>>
    BY <1>4 DEF Backup, Snapshot, EncodeCollection, EncodeRecord, EndCollection, EndBackup
  <2>2. QED
    BY <2>1 DEF StoreInv, StoreType, IssuedBelowCounter, IssuedRecordsStay
<1>5. CASE UNCHANGED storeVars
  BY <1>5 DEF storeVars, StoreInv, StoreType, IssuedBelowCounter, IssuedRecordsStay
<1>6. QED
  BY <1>1, <1>2, <1>3, <1>4, <1>5 DEF StoresNext, ApiRequest, ToolCall

\* Records whose ids were made up stay until they are named, for any collections and any
\* number of writes (nextID and the Put functions of the stores).
THEOREM IssuedRecordsSafe == StoresSpec => []IssuedRecordsStay
<1>1. StoresInit => StoreInv
  BY CollectionAssumption
  DEF StoresInit, StoreInv, StoreType, IssuedBelowCounter, IssuedRecordsStay, Counters, Id
<1>2. StoreInv => IssuedRecordsStay
  BY DEF StoreInv
<1>3. QED
  BY <1>1, <1>2, StoreInvStep, PTL DEF StoresSpec

-------------------------------------------------------------------------------
\* The backup

BackupType ==
  backup \in [at : {"idle", "encode", "done", "aborted", "crashed"}, left : SUBSET Collection,
              now : Collection \cup {"none"}, due : SUBSET Id,
              room : Nat, out : SUBSET (Collection \X Id \X (1..MaxWrites)),
              stayed : SUBSET (Collection \X Id \X (1..MaxWrites))]

WrittenOut(r) == \E w \in backup.out : w[1] = r[1] /\ w[2] = r[2] /\ w[3] >= r[3]

\* A record that has stayed is there, no older, and is still to come or has been written out.
BackupInv ==
  /\ StoreBelowWrites
  /\ backup.at = "done" => backup.left = {} /\ backup.now = "none"
  /\ backup.at # "crashed" =>
       \A r \in backup.stayed :
         /\ r[1] \in BackedUp /\ store[r[1]][r[2]] >= r[3]
         /\ r[1] \in backup.left \/ (r[1] = backup.now /\ r[2] \in backup.due) \/ WrittenOut(r)

BackupStep == BackupType' /\ BackupInv'

\* No collection is called "none".
LEMMA CollectionNamed == "none" \notin Collection
  BY CollectionAssumption DEF Counter, Shared, NamedOnly, IssuedOnly

\* A request that writes leaves what stays to come or written out.
LEMMA WriteBacksUp ==
  ASSUME StoreInv, BackupType, BackupInv, NEW c \in Collection, NEW n \in Id, Write(c, n)
  PROVE  BackupStep
<1>1. /\ store' \in [Collection -> [Id -> 0..MaxWrites]]
      /\ store'[c][n] = writes + 1
      /\ \A d \in Collection, k \in Id : d # c \/ k # n => store'[d][k] = store[d][k]
      /\ store \in [Collection -> [Id -> 0..MaxWrites]]
  BY WriteType DEF StoreInv, StoreType
<1>4. StoreBelowWrites'
  <2> SUFFICES ASSUME NEW d \in Collection, NEW k \in Id PROVE store'[d][k] <= writes'
    BY DEF StoreBelowWrites
  <2>1. writes' = writes + 1 /\ writes \in Nat
    BY CollectionAssumption DEF Write, StoreInv, StoreType
  <2>2. store[d][k] \in Nat /\ store[d][k] <= writes
    BY <1>1, CollectionAssumption DEF BackupInv, StoreBelowWrites
  <2>3. QED
    BY <1>1, <2>1, <2>2
<1>2. CASE backup' = [backup EXCEPT !.due = IF backup.now = c THEN @ \ {} ELSE @,
                              !.stayed = {r \in @ : ~ (r[1] = c /\ r[2] \in {})}]
  <2>1. backup' = backup
    BY <1>2 DEF BackupType
  <2>2. ASSUME backup.at # "crashed", NEW r \in backup.stayed PROVE store'[r[1]][r[2]] >= r[3]
    <3>1. r[1] \in Collection /\ r[2] \in Id /\ r[3] \in 1..MaxWrites /\ store[r[1]][r[2]] >= r[3]
      BY <2>2 DEF BackupType, BackupInv
    <3>2. store[r[1]][r[2]] \in 0..MaxWrites
      BY <3>1, <1>1
    <3>3. store[r[1]][r[2]] <= writes
      BY <3>1 DEF BackupInv, StoreBelowWrites
    <3>4. writes \in Nat /\ MaxWrites \in Nat
      BY CollectionAssumption DEF StoreInv, StoreType
    <3>5. QED
      BY <1>1, <3>1, <3>2, <3>3, <3>4
  <2>3. QED
    BY <2>1, <2>2, <1>4 DEF BackupStep, BackupType, BackupInv, WrittenOut
<1>3. CASE backup' = [backup EXCEPT !.at = "crashed"]
  BY <1>3, <1>4 DEF BackupStep, BackupType, BackupInv
<1>5. QED
  BY <1>2, <1>3 DEF Write, Touch

\* What is deleted is no longer due and has not stayed.
LEMMA DeleteBacksUp ==
  ASSUME StoreInv, BackupType, BackupInv, NEW c \in Collection, NEW n \in Id, Delete(c, n)
  PROVE  BackupStep
<1>1. /\ store' = [store EXCEPT ![c][n] = 0] /\ writes' = writes
      /\ store \in [Collection -> [Id -> 0..MaxWrites]]
      /\ \A d \in Collection, k \in Id : store'[d][k] = IF d = c /\ k = n THEN 0 ELSE store[d][k]
  BY DEF Delete, StoreInv, StoreType
<1>2. StoreBelowWrites'
  <2> SUFFICES ASSUME NEW d \in Collection, NEW k \in Id PROVE store'[d][k] <= writes
    BY <1>1 DEF StoreBelowWrites
  <2>1. writes \in Nat /\ store[d][k] <= writes
    BY CollectionAssumption DEF BackupInv, StoreBelowWrites, StoreInv, StoreType
  <2>2. QED
    BY <1>1, <2>1
<1>3. CASE backup' = [backup EXCEPT !.due = IF backup.now = c THEN @ \ {n} ELSE @,
                              !.stayed = {r \in @ : ~ (r[1] = c /\ r[2] \in {n})}]
  <2>1. /\ backup'.at = backup.at /\ backup'.left = backup.left /\ backup'.now = backup.now
        /\ backup'.out = backup.out
        /\ backup'.due = IF backup.now = c THEN backup.due \ {n} ELSE backup.due
        /\ backup'.stayed = {r \in backup.stayed : ~ (r[1] = c /\ r[2] = n)}
    BY <1>3 DEF BackupType
  <2>2. BackupType'
    BY <1>3 DEF BackupType
  <2>3. ASSUME backup'.at # "crashed", NEW r \in backup'.stayed
        PROVE  /\ r[1] \in BackedUp /\ store'[r[1]][r[2]] >= r[3]
               /\ \/ r[1] \in backup'.left
                  \/ r[1] = backup'.now /\ r[2] \in backup'.due
                  \/ WrittenOut(r)'
    <3>1. r \in backup.stayed /\ ~ (r[1] = c /\ r[2] = n) /\ r[1] \in Collection /\ r[2] \in Id
      BY <2>1 DEF BackupType
    <3>2. /\ r[1] \in BackedUp /\ store[r[1]][r[2]] >= r[3]
          /\ r[1] \in backup.left \/ (r[1] = backup.now /\ r[2] \in backup.due) \/ WrittenOut(r)
      BY <2>1, <2>3, <3>1 DEF BackupInv
    <3>3. WrittenOut(r)' <=> WrittenOut(r)
      BY <2>1 DEF WrittenOut
    <3>4. store'[r[1]][r[2]] >= r[3]
      BY <1>1, <3>1, <3>2
    <3>5. QED
      BY <2>1, <3>1, <3>2, <3>3, <3>4
  <2>4. (backup.at = "done" => backup.left = {} /\ backup.now = "none")'
    BY <2>1 DEF BackupInv
  <2>5. QED
    BY <1>2, <2>2, <2>3, <2>4 DEF BackupStep, BackupInv
<1>4. CASE backup' = [backup EXCEPT !.at = "crashed"]
  BY <1>2, <1>4 DEF BackupStep, BackupType, BackupInv
<1>5. QED
  BY <1>3, <1>4 DEF Delete, Touch

\* There are finitely many ids.
LEMMA IdsFinite == IsFiniteSet(Id) /\ \A S \in SUBSET Id : Cardinality(S) \in Nat
<1>1. 0 \in Int /\ MaxWrites \in Int
  BY CollectionAssumption
<1>2. IsFiniteSet(Id)
  BY <1>1, FS_Interval DEF Id
<1>3. QED
  BY <1>2, FS_Subset, FS_CardinalityType

\* Snapshot: all that is there is still to come.
LEMMA SnapshotBacksUp ==
  ASSUME StoreInv, BackupType, BackupInv, Snapshot
  PROVE  BackupStep
<1>1. /\ backup'.at = "encode" /\ backup'.left = BackedUp /\ backup'.now = backup.now
      /\ backup'.stayed = {r \in BackedUp \X Id \X (1..MaxWrites) : store[r[1]][r[2]] = r[3]}
      /\ BackedUp \subseteq Collection
  BY DEF Snapshot, SnapshotMaps, BackupType, BackedUp
<1>2. BackupType'
  <2>1. {r \in BackedUp \X Id \X (1..MaxWrites) : store[r[1]][r[2]] = r[3]}
          \subseteq Collection \X Id \X (1..MaxWrites)
    BY <1>1
  <2>2. QED
    BY <1>1, <2>1 DEF Snapshot, SnapshotMaps, BackupType
<1>3. ASSUME NEW r \in backup'.stayed
      PROVE  r[1] \in backup'.left /\ r[1] \in BackedUp /\ store[r[1]][r[2]] >= r[3]
  <2>1. r[1] \in BackedUp /\ r[3] \in 1..MaxWrites /\ store[r[1]][r[2]] = r[3]
    BY <1>1, <1>3
  <2>2. QED
    BY <1>1, <2>1, CollectionAssumption
<1>4. store' = store /\ writes' = writes
  BY DEF Snapshot
<1>5. QED
  BY <1>1, <1>2, <1>3, <1>4 DEF BackupStep, BackupInv, StoreBelowWrites

\* The iteration over a collection begins with all its records due.
LEMMA EncodeCollectionBacksUp ==
  ASSUME StoreInv, BackupType, BackupInv, NEW c \in Collection, EncodeCollection(c)
  PROVE  BackupStep
<1> DEFINE stored == {n \in Id : Present(c, n)}
<1>1. /\ backup' = [backup EXCEPT !.now = c, !.left = @ \ {c}, !.due = stored,
                                  !.room = Cardinality(stored)]
      /\ backup.at = "encode" /\ backup.now = "none" /\ store' = store /\ writes' = writes
  BY DEF EncodeCollection
<1>2. stored \in SUBSET Id /\ Cardinality(stored) \in Nat
  BY IdsFinite
<1>3. BackupType'
  BY <1>1, <1>2 DEF BackupType
<1>4. /\ backup'.at = "encode" /\ backup'.now = c /\ backup'.left = backup.left \ {c}
      /\ backup'.due = stored /\ backup'.out = backup.out /\ backup'.stayed = backup.stayed
  BY <1>1 DEF BackupType
<1>5. ASSUME NEW r \in backup'.stayed
      PROVE  /\ r[1] \in BackedUp /\ store[r[1]][r[2]] >= r[3]
             /\ r[1] \in backup'.left \/ (r[1] = c /\ r[2] \in stored) \/ WrittenOut(r)'
  <2>1. /\ r \in backup.stayed /\ r[1] \in Collection /\ r[2] \in Id /\ r[3] \in 1..MaxWrites
    BY <1>4, <1>5 DEF BackupType
  <2>2. /\ r[1] \in BackedUp /\ store[r[1]][r[2]] >= r[3]
        /\ r[1] \in backup.left \/ WrittenOut(r)
    BY <1>1, <2>1, CollectionNamed DEF BackupInv
  <2>3. store[r[1]][r[2]] # 0
    <3>1. store[r[1]][r[2]] \in Nat /\ r[3] \in Nat \ {0}
      BY <2>1, CollectionAssumption DEF StoreInv, StoreType
    <3>2. QED
      BY <2>2, <3>1
  <2>4. WrittenOut(r)' <=> WrittenOut(r)
    BY <1>4 DEF WrittenOut
  <2>5. QED
    BY <1>4, <2>1, <2>2, <2>3, <2>4 DEF Present
<1>6. QED
  BY <1>1, <1>3, <1>4, <1>5 DEF BackupStep, BackupInv, StoreBelowWrites

\* A record that is written out is no longer due.
LEMMA EncodeRecordBacksUp ==
  ASSUME StoreInv, BackupType, BackupInv, NEW n \in Id, EncodeRecord(n)
  PROVE  BackupStep
<1> DEFINE c == backup.now
<1>1. /\ c \in Collection /\ backup.at = "encode" /\ store' = store /\ writes' = writes
      /\ store[c][n] # 0
  BY DEF EncodeRecord, BackupType, Present
<1>2. CASE backup' = [backup EXCEPT !.at = "aborted"]
  <2>1. BackupType'
    BY <1>2 DEF BackupType
  <2>2. \A r : WrittenOut(r)' <=> WrittenOut(r)
    BY <1>2 DEF WrittenOut, BackupType
  <2>3. QED
    BY <1>1, <1>2, <2>1, <2>2 DEF BackupStep, BackupType, BackupInv, StoreBelowWrites
<1>3. CASE /\ backup.room # 0
           /\ backup' = [backup EXCEPT !.due = @ \ {n}, !.room = @ - 1,
                                       !.out = @ \cup {<<c, n, store[c][n]>>}]
  <2>1. store[c][n] \in 1..MaxWrites /\ backup.room - 1 \in Nat
    <3>1. store[c][n] \in 0..MaxWrites /\ backup.room \in Nat
      BY <1>1 DEF StoreInv, StoreType, BackupType
    <3>2. QED
      BY <1>1, <1>3, <3>1, CollectionAssumption
  <2>2. backup.out \cup {<<c, n, store[c][n]>>} \in SUBSET (Collection \X Id \X (1..MaxWrites))
    BY <1>1, <2>1 DEF BackupType
  <2>3. BackupType'
    BY <1>3, <2>1, <2>2 DEF BackupType
  <2>4. /\ backup'.at = "encode" /\ backup'.left = backup.left /\ backup'.now = c
        /\ backup'.due = backup.due \ {n} /\ backup'.stayed = backup.stayed
        /\ backup'.out = backup.out \cup {<<c, n, store[c][n]>>}
    BY <1>1, <1>3 DEF BackupType
  <2>5. ASSUME NEW r \in backup.stayed
        PROVE  /\ r[1] \in BackedUp /\ store[r[1]][r[2]] >= r[3]
               /\ r[1] \in backup.left \/ (r[1] = c /\ r[2] \in backup.due \ {n}) \/ WrittenOut(r)'
    <3>1. /\ r[1] \in BackedUp /\ store[r[1]][r[2]] >= r[3]
          /\ r[1] \in backup.left \/ (r[1] = c /\ r[2] \in backup.due) \/ WrittenOut(r)
      BY <1>1, <2>5 DEF BackupInv
    <3>2. WrittenOut(r) => WrittenOut(r)'
      BY <2>4 DEF WrittenOut
    <3>3. r[1] = c /\ r[2] = n => WrittenOut(r)'
      <4> SUFFICES ASSUME r[1] = c, r[2] = n PROVE WrittenOut(r)'
        OBVIOUS
      <4> DEFINE w == <<c, n, store[c][n]>>
      <4>1. w \in backup'.out /\ w[1] = r[1] /\ w[2] = r[2] /\ w[3] >= r[3]
        BY <2>4, <3>1
      <4>2. QED
        BY <4>1 DEF WrittenOut
    <3>4. QED
      BY <3>1, <3>2, <3>3
  <2>6. QED
    BY <1>1, <2>3, <2>4, <2>5 DEF BackupStep, BackupInv, StoreBelowWrites
<1>4. QED
  BY <1>2, <1>3 DEF EncodeRecord

\* Every request and every step of the encoder preserves what the backup needs.
LEMMA BackupInvStep ==
  ASSUME StoreInv, BackupType, BackupInv, [StoresNext]_storeVars
  PROVE  BackupStep
<1>1. ASSUME NEW c \in Collection, Issue(c) PROVE BackupStep
  <2>1. NextId(c) \in Id /\ Write(c, NextId(c))
    BY <1>1 DEF Issue
  <2>2. QED
    BY <2>1, WriteBacksUp
<1>2. ASSUME NEW c \in Collection, NEW n \in Id, Name(c, n) PROVE BackupStep
  <2>1. Write(c, n)
    BY <1>2 DEF Name
  <2>2. QED
    BY <2>1, WriteBacksUp
<1>3. ASSUME NEW c \in Collection, NEW n \in Id, Delete(c, n) PROVE BackupStep
  BY <1>3, DeleteBacksUp
<1>4. CASE FailUpload
  BY <1>4 DEF FailUpload, BackupStep, BackupType, BackupInv, StoreBelowWrites, WrittenOut
<1>5. CASE Snapshot
  BY <1>5, SnapshotBacksUp
<1>6. ASSUME NEW c \in Collection, EncodeCollection(c) PROVE BackupStep
  BY <1>6, EncodeCollectionBacksUp
<1>7. ASSUME NEW n \in Id, EncodeRecord(n) PROVE BackupStep
  BY <1>7, EncodeRecordBacksUp
<1>8. CASE EndCollection
  <2>1. /\ backup.at = "encode" /\ backup.due = {} /\ store' = store /\ writes' = writes
        /\ backup' = [backup EXCEPT !.now = "none"]
    BY <1>8 DEF EndCollection
  <2>2. BackupType'
    BY <2>1 DEF BackupType
  <2>3. \A r : WrittenOut(r)' <=> WrittenOut(r)
    BY <2>1 DEF WrittenOut, BackupType
  <2>4. QED
    BY <2>1, <2>2, <2>3 DEF BackupStep, BackupType, BackupInv, StoreBelowWrites
<1>9. CASE EndBackup
  <2>1. /\ backup.at = "encode" /\ backup.now = "none" /\ backup.left = {}
        /\ store' = store /\ writes' = writes /\ backup' = [backup EXCEPT !.at = "done"]
    BY <1>9 DEF EndBackup
  <2>2. BackupType'
    BY <2>1 DEF BackupType
  <2>3. \A r : WrittenOut(r)' <=> WrittenOut(r)
    BY <2>1 DEF WrittenOut, BackupType
  <2>4. QED
    BY <2>1, <2>2, <2>3 DEF BackupStep, BackupType, BackupInv, StoreBelowWrites
<1>10. CASE UNCHANGED storeVars
  BY <1>10 DEF storeVars, BackupStep, BackupType, BackupInv, StoreBelowWrites, WrittenOut
<1>11. QED
  BY <1>1, <1>2, <1>3, <1>4, <1>5, <1>6, <1>7, <1>8, <1>9, <1>10
  DEF StoresNext, ApiRequest, ToolCall, Backup

\* The stores start empty, without a backup.
LEMMA StoresInitInv == StoresInit => StoreInv /\ BackupType /\ BackupInv
<1> SUFFICES ASSUME StoresInit PROVE StoreInv /\ BackupType /\ BackupInv
  OBVIOUS
<1>1. StoreInv
  BY CollectionAssumption
  DEF StoresInit, StoreInv, StoreType, IssuedBelowCounter, IssuedRecordsStay, Counters, Id
<1>2. BackupType
  BY DEF StoresInit, NoBackup, BackupType
<1>3. BackupInv
  <2>1. writes = 0 /\ \A c \in Collection, n \in Id : store[c][n] = 0
    BY DEF StoresInit
  <2>2. StoreBelowWrites
    BY <2>1 DEF StoreBelowWrites
  <2>3. QED
    BY <2>2 DEF StoresInit, NoBackup, BackupInv
<1>4. QED
  BY <1>1, <1>2, <1>3

\* What stays from the moment a backup is asked for is in it, however requests write, add and
\* delete meanwhile (apiBackup over the maps that Snapshot returns).
THEOREM BackupComplete == StoresSpec => []BackupHoldsWhatStayed
<1> DEFINE Inv == StoreInv /\ BackupType /\ BackupInv
<1>1. Inv /\ [StoresNext]_storeVars => Inv'
  BY StoreInvStep, BackupInvStep DEF BackupStep
<1>2. Inv => BackupHoldsWhatStayed
  <2> SUFFICES ASSUME Inv, backup.at = "done", NEW r \in backup.stayed PROVE WrittenOut(r)
    BY DEF BackupHoldsWhatStayed, WrittenOut
  <2>1. r[1] \in BackedUp /\ backup.left = {} /\ backup.now = "none"
    BY DEF BackupInv
  <2>2. r[1] # "none"
    BY <2>1, CollectionNamed DEF BackedUp
  <2>3. QED
    BY <2>1, <2>2 DEF BackupInv
<1>3. QED
  BY <1>1, <1>2, StoresInitInv, PTL DEF StoresSpec

-------------------------------------------------------------------------------
\* The keys that attempts use

Labelled == [handle : Handle, provider : Provider, label : Label]

BrokerType ==
  /\ records \subseteq Labelled
  /\ attempts \in [Attempt -> [at : {"idle", "find", "put", "execute", "done"},
                               provider : Provider \cup {"none"},
                               handle : Handle \cup {NoHandle},
                               keyed : BOOLEAN]]

\* Handles are numbered without gaps, so that the next one is new.
HandlesNew ==
  /\ IsFiniteSet(records)
  /\ \A r \in records : r.handle <= Cardinality(records)

\* What an attempt holds is in the broker, and nothing else has its handle.
HandlesHeld ==
  /\ \A r, s \in records : r.handle = s.handle => r = s
  /\ \A a \in Attempt : attempts[a].handle # NoHandle => attempts[a].handle \in Given

\* An attempt that began with a key there still has one to find, and so puts no token.
KeysStay ==
  \A a \in Attempt :
    attempts[a].at # "idle" /\ attempts[a].keyed =>
      /\ \E r \in records : r.provider = attempts[a].provider /\ r.label \notin DemoLabel
      /\ attempts[a].at # "put"

BrokerInv ==
  /\ BrokerType
  /\ HandlesNew
  /\ HandlesHeld
  /\ KeysStay
  /\ OperatorKeyUsed
  /\ \A a \in Attempt : attempts[a].at \in {"idle", "find", "put"} => attempts[a].handle = NoHandle
  /\ \A a \in Attempt : attempts[a].at # "idle" => attempts[a].provider \in Provider

\* What Put does: one record more, with a handle nothing has.
LEMMA PutNew ==
  ASSUME BrokerInv, NEW p \in Provider, NEW label \in Label, NEW h \in Handle, Put(p, label, h)
  PROVE  /\ records' = records \cup {[handle |-> h, provider |-> p, label |-> label]}
         /\ records' \subseteq Labelled
         /\ HandlesNew'
         /\ \A r \in records : r.handle # h
         /\ \A r, s \in records' : r.handle = s.handle => r = s
<1> DEFINE new == [handle |-> h, provider |-> p, label |-> label]
<1>1. records' = records \cup {new} /\ h = Cardinality(records) + 1
  BY DEF Put
<1>2. new \in Labelled /\ records' \subseteq Labelled /\ new.handle = h
  BY <1>1 DEF BrokerInv, BrokerType, Labelled
<1>3. IsFiniteSet(records) /\ Cardinality(records) \in Nat
  BY FS_CardinalityType DEF BrokerInv, HandlesNew
<1>4. \A r \in records : r.handle \in Nat /\ r.handle <= Cardinality(records)
  BY DEF BrokerInv, BrokerType, HandlesNew, Labelled, Handle
<1>5. \A r \in records : r.handle # h
  BY <1>1, <1>3, <1>4
<1>6. new \notin records
  BY <1>2, <1>5
<1> HIDE DEF new
<1>7. IsFiniteSet(records') /\ Cardinality(records') = Cardinality(records) + 1
  BY <1>1, <1>3, <1>6, FS_AddElement
<1>8. HandlesNew'
  <2> SUFFICES ASSUME NEW r \in records' PROVE r.handle <= Cardinality(records')
    BY <1>7 DEF HandlesNew
  <2>1. CASE r = new
    BY <2>1, <1>1, <1>2, <1>3, <1>7
  <2>2. CASE r \in records
    BY <2>2, <1>3, <1>4, <1>7
  <2>3. QED
    BY <2>1, <2>2, <1>1
<1>9. \A r, s \in records' : r.handle = s.handle => r = s
  BY <1>1, <1>2, <1>5 DEF BrokerInv, HandlesHeld
<1>10. QED
  BY <1>1, <1>2, <1>5, <1>8, <1>9 DEF new

\* A record more changes nothing for the attempts.
LEMMA PutKeeps ==
  ASSUME BrokerInv, NEW p \in Provider, NEW label \in Label, NEW h \in Handle,
         Put(p, label, h), UNCHANGED attempts
  PROVE  BrokerInv'
<1> DEFINE new == [handle |-> h, provider |-> p, label |-> label]
<1>1. /\ records' = records \cup {new}
      /\ records' \subseteq Labelled
      /\ HandlesNew'
      /\ \A r \in records : r.handle # h
      /\ \A r, s \in records' : r.handle = s.handle => r = s
  BY PutNew
<1>2. BrokerType'
  BY <1>1 DEF BrokerInv, BrokerType
<1>3. HandlesHeld'
  BY <1>1 DEF BrokerInv, HandlesHeld, Given
<1>4. KeysStay'
  BY <1>1 DEF BrokerInv, KeysStay, OperatorKeys, OfProvider
<1>5. OperatorKeyUsed'
  <2> SUFFICES ASSUME NEW a \in Attempt, attempts[a].handle # NoHandle,
                      NEW r \in records', r.handle = attempts[a].handle
               PROVE  r.provider = attempts[a].provider
                      /\ (attempts[a].keyed => r.label \notin DemoLabel)
    BY DEF OperatorKeyUsed
  <2>1. PICK s \in records : s.handle = attempts[a].handle
    BY DEF BrokerInv, HandlesHeld, Given
  <2>2. r = s
    BY <1>1, <2>1
  <2>3. QED
    BY <2>1, <2>2 DEF BrokerInv, OperatorKeyUsed
<1>6. QED
  BY <1>1, <1>2, <1>3, <1>4, <1>5 DEF BrokerInv

\* An attempt that begins learns whether its provider has a key of an operator.
LEMMA BeginKeeps ==
  ASSUME BrokerInv, NEW a \in Attempt, BeginAttempt(a)
  PROVE  BrokerInv'
<1>1. PICK p \in Provider :
        attempts' = [attempts EXCEPT ![a] = [at |-> "find", provider |-> p, handle |-> NoHandle,
                                             keyed |-> OperatorKeys(p) # {}]]
  BY DEF BeginAttempt
<1>2. records' = records
  BY DEF BeginAttempt
<1>3. BrokerType'
  BY <1>1, <1>2 DEF BrokerInv, BrokerType
<1>4. /\ attempts'[a] = [at |-> "find", provider |-> p, handle |-> NoHandle,
                         keyed |-> OperatorKeys(p) # {}]
      /\ \A b \in Attempt : b # a => attempts'[b] = attempts[b]
  BY <1>1 DEF BrokerInv, BrokerType
<1>5. HandlesNew' /\ HandlesHeld'
  BY <1>2, <1>4 DEF BrokerInv, HandlesNew, HandlesHeld, Given
<1>6. KeysStay'
  <2> SUFFICES ASSUME NEW b \in Attempt, attempts'[b].at # "idle", attempts'[b].keyed
               PROVE  /\ \E r \in records' : r.provider = attempts'[b].provider
                                             /\ r.label \notin DemoLabel
                      /\ attempts'[b].at # "put"
    BY DEF KeysStay
  <2>1. CASE b = a
    <3>1. attempts'[a].keyed = (OperatorKeys(p) # {})
      BY <1>4
    <3>2. attempts'[a].provider = p /\ attempts'[a].at = "find"
      BY <1>4
    <3>3. OperatorKeys(p) # {}
      BY <2>1, <3>1
    <3>4. PICK r \in records : r.provider = p /\ r.label \notin DemoLabel
      BY <3>3 DEF OperatorKeys, OfProvider
    <3>5. QED
      BY <2>1, <3>2, <3>4, <1>2
  <2>2. CASE b # a
    BY <2>2, <1>2, <1>4 DEF BrokerInv, KeysStay
  <2>3. QED
    BY <2>1, <2>2
<1>7. OperatorKeyUsed'
  BY <1>2, <1>4 DEF BrokerInv, OperatorKeyUsed
<1>8. QED
  BY <1>3, <1>4, <1>5, <1>6, <1>7 DEF BrokerInv

\* An attempt takes a key of its provider, one of an operator if there is one.
LEMMA FindKeeps ==
  ASSUME BrokerInv, NEW a \in Attempt, FindByPlugin(a)
  PROVE  BrokerInv'
<1> DEFINE p == attempts[a].provider
<1>1. records' = records /\ attempts[a].at = "find"
  BY DEF FindByPlugin
<1>2. CASE Found(p) = {} /\ attempts' = [attempts EXCEPT ![a].at = "put"]
  <2>1. /\ attempts'[a] = [attempts[a] EXCEPT !.at = "put"]
        /\ \A b \in Attempt : b # a => attempts'[b] = attempts[b]
    BY <1>2 DEF BrokerInv, BrokerType
  <2>2. BrokerType'
    BY <1>1, <1>2 DEF BrokerInv, BrokerType
  <2>3. /\ attempts'[a].at = "put" /\ attempts'[a].provider = p
        /\ attempts'[a].handle = attempts[a].handle /\ attempts'[a].keyed = attempts[a].keyed
    BY <2>1 DEF BrokerInv, BrokerType
  <2>4. OperatorKeys(p) = {}
    BY <1>2 DEF Found
  <2>5. ~ attempts[a].keyed
    <3>1. attempts[a].keyed => \E r \in records : r.provider = p /\ r.label \notin DemoLabel
      BY <1>1 DEF BrokerInv, KeysStay
    <3>2. ~ \E r \in records : r.provider = p /\ r.label \notin DemoLabel
      BY <2>4 DEF OperatorKeys, OfProvider
    <3>3. attempts[a].keyed \in BOOLEAN
      BY DEF BrokerInv, BrokerType
    <3>4. QED
      BY <3>1, <3>2, <3>3
  <2>6. KeysStay'
    <3> SUFFICES ASSUME NEW b \in Attempt, attempts'[b].at # "idle" /\ attempts'[b].keyed
                 PROVE  /\ \E r \in records' : r.provider = attempts'[b].provider
                                              /\ r.label \notin DemoLabel
                        /\ attempts'[b].at # "put"
      BY DEF KeysStay
    <3>1. b # a
      BY <2>3, <2>5
    <3>2. attempts'[b] = attempts[b]
      BY <2>1, <3>1
    <3>3. QED
      BY <1>1, <3>2 DEF BrokerInv, KeysStay
  <2>7. \A b \in Attempt : /\ attempts'[b].handle = attempts[b].handle
                           /\ attempts'[b].provider = attempts[b].provider
                           /\ attempts'[b].keyed = attempts[b].keyed
    BY <2>1, <2>3
  <2>8. HandlesNew' /\ HandlesHeld' /\ OperatorKeyUsed'
    BY <1>1, <2>7 DEF BrokerInv, HandlesNew, HandlesHeld, Given, OperatorKeyUsed
  <2>9. \A b \in Attempt : attempts'[b].at \in {"idle", "find", "put"} => attempts'[b].handle = NoHandle
    BY <1>1, <2>1, <2>3 DEF BrokerInv
  <2>10. \A b \in Attempt : attempts'[b].at # "idle" => attempts'[b].provider \in Provider
    BY <1>1, <2>1, <2>3 DEF BrokerInv
  <2>11. QED
    BY <2>2, <2>6, <2>8, <2>9, <2>10 DEF BrokerInv
<1>3. ASSUME NEW r \in Found(p),
             attempts' = [attempts EXCEPT ![a].at = "execute", ![a].handle = r.handle]
      PROVE  BrokerInv'
  <2>1. r \in records /\ r.provider = p /\ (OperatorKeys(p) # {} => r \in OperatorKeys(p))
    BY DEF Found, OperatorKeys, OfProvider
  <2>2. r.handle \in Handle
    BY <2>1 DEF BrokerInv, BrokerType, Labelled
  <2>3. BrokerType'
    BY <1>1, <1>3, <2>2 DEF BrokerInv, BrokerType
  <2>4. /\ attempts'[a].at = "execute" /\ attempts'[a].handle = r.handle
        /\ attempts'[a].provider = p /\ attempts'[a].keyed = attempts[a].keyed
        /\ \A b \in Attempt : b # a => attempts'[b] = attempts[b]
    BY <1>3 DEF BrokerInv, BrokerType
  <2>5. HandlesNew' /\ HandlesHeld'
    BY <1>1, <2>1, <2>4 DEF BrokerInv, HandlesNew, HandlesHeld, Given
  <2>6. KeysStay'
    BY <1>1, <2>4 DEF BrokerInv, KeysStay, OperatorKeys, OfProvider
  <2>7. attempts[a].keyed => r.label \notin DemoLabel
    BY <1>1, <2>1 DEF BrokerInv, KeysStay, OperatorKeys, OfProvider
  <2>8. OperatorKeyUsed'
    BY <1>1, <2>1, <2>4, <2>7 DEF BrokerInv, HandlesHeld, OperatorKeyUsed
  <2>9. QED
    BY <1>1, <2>3, <2>4, <2>5, <2>6, <2>8 DEF BrokerInv
<1>4. QED
  BY <1>2, <1>3 DEF FindByPlugin

\* A token is put by an attempt that found no key when it began.
LEMMA PutTokenKeeps ==
  ASSUME BrokerInv, NEW a \in Attempt, PutToken(a)
  PROVE  BrokerInv'
<1> DEFINE p == attempts[a].provider
<1>1. attempts[a].at = "put"
  BY DEF PutToken
<1>2. PICK h \in Handle : Put(p, "mission", h)
                          /\ attempts' = [attempts EXCEPT ![a].at = "execute", ![a].handle = h]
  BY DEF PutToken
<1>3. h \in Handle /\ attempts' = [attempts EXCEPT ![a].at = "execute", ![a].handle = h]
  BY <1>2
<1>4. p \in Provider /\ attempts[a].handle = NoHandle /\ "mission" \in Label
  BY <1>1 DEF BrokerInv, Label
<1> DEFINE new == [handle |-> h, provider |-> p, label |-> "mission"]
<1>5. /\ records' = records \cup {new}
      /\ records' \subseteq Labelled
      /\ HandlesNew'
      /\ \A r \in records : r.handle # h
      /\ \A r, s \in records' : r.handle = s.handle => r = s
  BY <1>2, <1>4, PutNew
<1>6. BrokerType'
  <2>1. PICK mid : mid = [attempts EXCEPT ![a].at = "execute"]
    OBVIOUS
  <2>2. mid \in [Attempt -> [at : {"idle", "find", "put", "execute", "done"},
                             provider : Provider \cup {"none"},
                             handle : Handle \cup {NoHandle},
                             keyed : BOOLEAN]]
    BY <2>1 DEF BrokerInv, BrokerType
  <2>3. attempts' = [mid EXCEPT ![a].handle = h]
    BY <1>3, <2>1
  <2>4. h \in Handle /\ records' \subseteq Labelled
    BY <1>3, <1>5
  <2> HIDE DEF new, p
  <2>5. attempts' \in [Attempt -> [at : {"idle", "find", "put", "execute", "done"},
                                  provider : Provider \cup {"none"},
                                  handle : Handle \cup {NoHandle},
                                  keyed : BOOLEAN]]
    BY <2>2, <2>3, <2>4
  <2>6. QED
    BY <2>4, <2>5 DEF BrokerType
<1>7. /\ attempts'[a].at = "execute" /\ attempts'[a].handle = h
      /\ attempts'[a].provider = p /\ attempts'[a].keyed = attempts[a].keyed
      /\ \A b \in Attempt : b # a => attempts'[b] = attempts[b]
  BY <1>3 DEF BrokerInv, BrokerType
<1>8. new \in records' /\ new.handle = h /\ new.provider = p
  BY <1>5
<1>9. HandlesHeld'
  <2>1. h \in Given'
    BY <1>8 DEF Given
  <2>2. \A k \in Given : k \in Given'
    BY <1>5 DEF Given
  <2>3. QED
    BY <1>5, <1>7, <2>1, <2>2 DEF BrokerInv, HandlesHeld
<1>10. ~ attempts[a].keyed
  BY <1>1 DEF BrokerInv, KeysStay
<1>11. KeysStay'
  BY <1>1, <1>5, <1>7, <1>10 DEF BrokerInv, KeysStay
<1>12. OperatorKeyUsed'
  <2> SUFFICES ASSUME NEW b \in Attempt, attempts'[b].handle # NoHandle,
                      NEW r \in records', r.handle = attempts'[b].handle
               PROVE  r.provider = attempts'[b].provider
                      /\ (attempts'[b].keyed => r.label \notin DemoLabel)
    BY DEF OperatorKeyUsed
  <2>1. CASE b = a
    BY <2>1, <1>5, <1>7, <1>8, <1>10
  <2>2. CASE b # a
    <3>1. PICK s \in records : s.handle = attempts[b].handle
      BY <2>2, <1>7 DEF BrokerInv, HandlesHeld, Given
    <3>2. r = s
      BY <2>2, <3>1, <1>5, <1>7
    <3>3. QED
      BY <2>2, <3>1, <3>2, <1>7 DEF BrokerInv, OperatorKeyUsed
  <2>3. QED
    BY <2>1, <2>2
<1>13. QED
  BY <1>4, <1>5, <1>6, <1>7, <1>9, <1>11, <1>12 DEF BrokerInv

\* An attempt that executes is done with what it found.
LEMMA ExecuteKeeps ==
  ASSUME BrokerInv, NEW a \in Attempt, Execute(a)
  PROVE  BrokerInv'
<1>1. records' = records /\ attempts[a].at = "execute" /\ attempts' = [attempts EXCEPT ![a].at = "done"]
  BY DEF Execute
<1>2. BrokerType'
  BY <1>1 DEF BrokerInv, BrokerType
<1>3. /\ attempts'[a].at = "done" /\ attempts'[a].handle = attempts[a].handle
      /\ attempts'[a].provider = attempts[a].provider /\ attempts'[a].keyed = attempts[a].keyed
      /\ \A b \in Attempt : b # a => attempts'[b] = attempts[b]
  BY <1>1 DEF BrokerInv, BrokerType
<1>4. HandlesNew' /\ HandlesHeld' /\ KeysStay' /\ OperatorKeyUsed'
  BY <1>1, <1>3
  DEF BrokerInv, HandlesNew, HandlesHeld, Given, KeysStay, OperatorKeys, OfProvider, OperatorKeyUsed
<1>5. QED
  BY <1>1, <1>2, <1>3, <1>4 DEF BrokerInv

\* Every step of an attempt and every key that is put preserves the invariant of the broker.
LEMMA BrokerInvStep == BrokerInv /\ [CredentialNext]_credentialVars => BrokerInv'
<1> SUFFICES ASSUME BrokerInv, [CredentialNext]_credentialVars PROVE BrokerInv'
  OBVIOUS
<1>1. ASSUME NEW p \in Provider, LoadKey(p) \/ StoreKey(p) PROVE BrokerInv'
  BY <1>1, PutKeeps DEF LoadKey, StoreKey, Label
<1>2. ASSUME NEW a \in Attempt, BeginAttempt(a) \/ FindByPlugin(a) \/ PutToken(a) \/ Execute(a)
      PROVE  BrokerInv'
  BY <1>2, BeginKeeps, FindKeeps, PutTokenKeeps, ExecuteKeeps
<1>3. CASE UNCHANGED credentialVars
  BY <1>3
  DEF credentialVars, BrokerInv, BrokerType, HandlesNew, HandlesHeld, Given, KeysStay,
      OperatorKeys, OfProvider, OperatorKeyUsed
<1>4. QED
  BY <1>1, <1>2, <1>3 DEF CredentialNext

\* An attempt that began with a key of an operator there uses such a key, and none uses a
\* key of another provider, for any number of attempts (FindByPlugin, executeMission).
THEOREM OperatorKeySafe == CredentialSpec => []OperatorKeyUsed
<1>1. CredentialInit => BrokerInv
  <2> SUFFICES ASSUME CredentialInit PROVE BrokerInv
    OBVIOUS
  <2>1. records = {} /\ \A a \in Attempt : attempts[a] = NoAttempt
    BY DEF CredentialInit
  <2>2. BrokerType
    BY <2>1 DEF CredentialInit, BrokerType, NoAttempt
  <2>3. HandlesNew
    BY <2>1, FS_EmptySet DEF HandlesNew
  <2>4. QED
    BY <2>1, <2>2, <2>3 DEF BrokerInv, HandlesHeld, KeysStay, OperatorKeyUsed, NoAttempt
<1>2. BrokerInv => OperatorKeyUsed
  BY DEF BrokerInv
<1>3. QED
  BY <1>1, <1>2, BrokerInvStep, PTL DEF CredentialSpec

-------------------------------------------------------------------------------
\* The gates of rollouts

SessionType ==
  /\ sessions \in [Rollout -> [status : Stage, gates : BOOLEAN]]
  /\ approvals \in [Rollout -> SUBSET Stage]

GateInv == SessionType /\ GateHonoured

\* An advance that lets a session with a gate succeed carries the approval.
LEMMA AdvanceKeeps ==
  ASSUME GateInv, NEW d \in Rollout, NEW approve \in BOOLEAN, Advance(d, approve)
  PROVE  GateInv'
<1> DEFINE next == NextStage(d, approve)
<1>1. sessions[d].status \in {"pending", "running", "gated"} /\ next \in Stage
  BY DEF Advance, GateInv, SessionType, Stage, NextStage
<1>2. next = "succeeded" /\ sessions[d].gates =>
        approve /\ sessions[d].status \in {"running", "gated"}
  BY <1>1 DEF NextStage
<1>3. sessions' = [sessions EXCEPT ![d].status = next]
  BY DEF Advance
<1> HIDE DEF next
<1>4. /\ sessions'[d].status = next /\ sessions'[d].gates = sessions[d].gates
      /\ \A e \in Rollout : e # d => sessions'[e] = sessions[e]
      /\ sessions' \in [Rollout -> [status : Stage, gates : BOOLEAN]]
  BY <1>1, <1>3 DEF GateInv, SessionType
<1>5. /\ approvals' \in [Rollout -> SUBSET Stage]
      /\ approve => sessions[d].status \in approvals'[d]
      /\ \A e \in Rollout : e # d => approvals'[e] = approvals[e]
  BY <1>1 DEF Advance, GateInv, SessionType, Stage
<1>6. GateHonoured'
  <2> SUFFICES ASSUME NEW e \in Rollout, sessions'[e].status = "succeeded", sessions'[e].gates
               PROVE  approvals'[e] \cap {"running", "gated"} # {}
    BY DEF GateHonoured
  <2>1. CASE e = d
    BY <2>1, <1>2, <1>4, <1>5
  <2>2. CASE e # d
    BY <2>2, <1>4, <1>5 DEF GateInv, GateHonoured
  <2>3. QED
    BY <2>1, <2>2
<1>7. QED
  BY <1>4, <1>5, <1>6 DEF GateInv, SessionType

\* A session starts pending.
LEMMA CreateKeeps ==
  ASSUME GateInv, NEW d \in Rollout, Create(d)
  PROVE  GateInv'
<1>1. PICK gates \in BOOLEAN :
        sessions' = [sessions EXCEPT ![d] = [status |-> "pending", gates |-> gates]]
  BY DEF Create
<1>2. approvals' = approvals
  BY DEF Create
<1>3. SessionType'
  BY <1>1, <1>2 DEF GateInv, SessionType, Stage
<1>4. GateHonoured'
  BY <1>1, <1>2 DEF GateInv, SessionType, GateHonoured
<1>5. QED
  BY <1>3, <1>4 DEF GateInv

\* A session with a gate succeeds only after it has been approved under way, for any number
\* of sessions and in whatever order advances come (Advance).
THEOREM GateSafe == DeploySpec => []GateHonoured
<1>1. DeployInit => GateInv
  BY DEF DeployInit, GateInv, SessionType, GateHonoured, Stage
<1>2. GateInv /\ [DeployNext]_deployVars => GateInv'
  <2> SUFFICES ASSUME GateInv, [DeployNext]_deployVars PROVE GateInv'
    OBVIOUS
  <2>1. ASSUME NEW d \in Rollout, Create(d) PROVE GateInv'
    BY <2>1, CreateKeeps
  <2>2. ASSUME NEW d \in Rollout, NEW approve \in BOOLEAN, Advance(d, approve) PROVE GateInv'
    BY <2>2, AdvanceKeeps
  <2>3. ASSUME NEW frozen \in BOOLEAN, RunPlaybook(frozen) PROVE GateInv'
    BY <2>3 DEF RunPlaybook, GateInv, SessionType, GateHonoured
  <2>4. CASE UNCHANGED deployVars
    BY <2>4 DEF deployVars, GateInv, SessionType, GateHonoured
  <2>5. QED
    BY <2>1, <2>2, <2>3, <2>4 DEF DeployNext
<1>3. GateInv => GateHonoured
  BY DEF GateInv
<1>4. QED
  BY <1>1, <1>2, <1>3, PTL DEF DeploySpec

-------------------------------------------------------------------------------
\* The start of a host

\* Manifests that LoadTree has passed, and the plugin that stands for one in the registry.
Passed(r, f) == r < boot.root \/ (r = boot.root /\ f < boot.file)

Stands(r, f) ==
  \E p \in registry :
    /\ p.id = disk[r][f].id
    /\ p.origin = <<0, 1>> \/ p.origin[1] > r \/ (p.origin[1] = r /\ p.origin[2] >= f)

BootType ==
  /\ boot \in [at : {"load", "seed", "kernel", "openai", "kimchi", "agentloop", "done"},
               root : Nat \ {0}, file : Nat \ {0}, seedBuiltins : BOOLEAN]
  /\ disk \in Seq(Seq(Manifests))
  /\ loaded \in Nat
  /\ \A p \in registry : p.origin \in Nat \X Nat

\* How far the disk has been read.
DiskRead ==
  /\ boot.root <= Len(disk) + 1
  /\ boot.at # "load" => boot.root = Len(disk) + 1
  /\ boot.root \in DOMAIN disk => boot.file <= Len(disk[boot.root]) + 1

\* What was loaded stands in the registry; what is built in was put into an empty one.
LoadedStand ==
  \A r \in DOMAIN disk : \A f \in DOMAIN disk[r] :
    disk[r][f].good /\ Passed(r, f) => Stands(r, f) /\ loaded > 0

BuiltinAlone ==
  /\ boot.at \in {"load", "seed"} => \A p \in registry : p.origin[1] >= 1
  /\ (\E p \in registry : p.origin = <<0, 0>>) => loaded = 0

BootInv ==
  /\ BootType /\ DiskRead /\ LoadedStand /\ BuiltinAlone
  /\ boot.at = "done" => served = Adapters(registry) /\ \E p \in registry : p.id = AgentLoopId

\* Register lets what stands for a manifest stand, if the new plugin comes later.
LEMMA RegisterStands ==
  ASSUME BootType, NEW r \in Nat, NEW f \in Nat, Stands(r, f), NEW id, NEW kind, NEW make,
         NEW i \in Nat, NEW j \in Nat,
         registry' = Registered(id, kind, make, <<i, j>>), disk' = disk,
         <<i, j>> = <<0, 1>> \/ i > r \/ (i = r /\ j >= f)
  PROVE  Stands(r, f)'
<1>1. PICK p \in registry :
        /\ p.id = disk[r][f].id
        /\ p.origin = <<0, 1>> \/ p.origin[1] > r \/ (p.origin[1] = r /\ p.origin[2] >= f)
  BY DEF Stands
<1> DEFINE q == [id |-> id, kind |-> kind, make |-> make, origin |-> <<i, j>>]
<1>2. q \in registry' /\ q.id = id /\ q.origin = <<i, j>> /\ q.origin[1] = i /\ q.origin[2] = j
  BY DEF Registered
<1> HIDE DEF q
<1>3. CASE p.id = id
  BY <1>1, <1>2, <1>3 DEF Stands
<1>4. CASE p.id # id
  <2>1. p \in registry'
    BY <1>4 DEF Registered
  <2>2. QED
    BY <1>1, <2>1 DEF Stands
<1>5. QED
  BY <1>3, <1>4

\* Roots and manifests are numbered from 1.
LEMMA DiskTyped ==
  ASSUME BootType
  PROVE  /\ Len(disk) \in Nat /\ DOMAIN disk = 1..Len(disk)
         /\ \A r \in DOMAIN disk : /\ Len(disk[r]) \in Nat /\ DOMAIN disk[r] = 1..Len(disk[r])
                                   /\ \A f \in DOMAIN disk[r] : disk[r][f] \in Manifests
<1>1. \A r \in DOMAIN disk : disk[r] \in Seq(Manifests)
  BY DEF BootType
<1>2. QED
  BY <1>1 DEF BootType

\* A plugin registered with an origin of its own.
LEMMA RegisterTyped ==
  ASSUME BootType, NEW id, NEW kind, NEW make, NEW i \in Nat, NEW j \in Nat,
         registry' = Registered(id, kind, make, <<i, j>>)
  PROVE  /\ \A p \in registry' : p.origin \in Nat \X Nat
         /\ \A p \in registry' : p \in registry \/ (p.origin = <<i, j>> /\ p.origin[1] = i)
         /\ \E p \in registry' : p.id = id
<1> DEFINE q == [id |-> id, kind |-> kind, make |-> make, origin |-> <<i, j>>]
<1>1. q.id = id /\ q.origin = <<i, j>> /\ q.origin[1] = i /\ q.origin \in Nat \X Nat
  OBVIOUS
<1>2. registry' = {p \in registry : p.id # id} \cup {q}
  BY DEF Registered
<1> HIDE DEF q
<1>3. \A p \in registry' : p \in registry \/ p = q
  BY <1>2
<1>4. QED
  BY <1>1, <1>2, <1>3 DEF BootType

\* LoadTree registers a manifest or passes it over.
LEMMA LoadFileStep ==
  ASSUME BootInv, LoadFile
  PROVE  BootInv'
<1> DEFINE r0 == boot.root
           f0 == boot.file
           m == disk[r0][f0]
<1>1. /\ boot.at = "load" /\ r0 \in DOMAIN disk /\ f0 \in DOMAIN disk[r0]
      /\ r0 \in Nat \ {0} /\ f0 \in Nat \ {0}
      /\ boot' = [boot EXCEPT !.file = f0 + 1] /\ disk' = disk
  BY DEF LoadFile, AtFile, AfterFailure, BootInv, BootType
<1>2. boot'.at = "load" /\ boot'.root = r0 /\ boot'.file = f0 + 1
  BY <1>1 DEF BootInv, BootType
<1>3. \/ m.good /\ registry' = Registered(m.id, m.kind, m.make, <<r0, f0>>) /\ loaded' = loaded + 1
      \/ ~ m.good /\ registry' = registry /\ loaded' = loaded
  BY DEF LoadFile
<1>4. BootType'
  <2>1. \A p \in registry' : p.origin \in Nat \X Nat
    <3>1. CASE registry' = registry
      BY <3>1 DEF BootInv, BootType
    <3>2. CASE registry' = Registered(m.id, m.kind, m.make, <<r0, f0>>)
      <4>1. r0 \in Nat /\ f0 \in Nat
        BY <1>1
      <4> HIDE DEF m, r0, f0
      <4>2. QED
        BY <3>2, <4>1, RegisterTyped DEF BootInv
    <3>3. QED
      BY <1>3, <3>1, <3>2
  <2>2. loaded' \in Nat
    BY <1>3 DEF BootInv, BootType
  <2>3. QED
    BY <1>1, <2>1, <2>2 DEF BootInv, BootType
<1>5. DiskRead'
  <2>1. Len(disk[r0]) \in Nat /\ f0 <= Len(disk[r0])
    BY <1>1, DiskTyped DEF BootInv
  <2>2. f0 + 1 <= Len(disk[r0]) + 1
    BY <1>1, <2>1
  <2>3. QED
    BY <1>1, <1>2, <2>2 DEF BootInv, DiskRead
<1>6. LoadedStand'
  <2> SUFFICES ASSUME NEW r \in DOMAIN disk, NEW f \in DOMAIN disk[r], disk[r][f].good, Passed(r, f)'
               PROVE  Stands(r, f)' /\ loaded' > 0
    BY <1>1 DEF LoadedStand
  <2>1. r \in Nat /\ f \in Nat
    BY DiskTyped DEF BootInv
  <2>2. CASE r = r0 /\ f = f0
    <3>1. registry' = Registered(m.id, m.kind, m.make, <<r0, f0>>) /\ loaded' = loaded + 1
      BY <1>3, <2>2
    <3> DEFINE q == [id |-> m.id, kind |-> m.kind, make |-> m.make, origin |-> <<r0, f0>>]
    <3>2. q \in registry' /\ q.id = m.id /\ q.origin[1] = r0 /\ q.origin[2] = f0
      BY <3>1 DEF Registered
    <3>3. q.id = disk'[r][f].id /\ q.origin[1] = r /\ q.origin[2] >= f
      BY <1>1, <2>1, <2>2, <3>2
    <3> HIDE DEF q
    <3>4. Stands(r, f)'
      BY <3>2, <3>3 DEF Stands
    <3>5. QED
      BY <3>1, <3>4 DEF BootInv, BootType
  <2>3. CASE ~ (r = r0 /\ f = f0)
    <3>1. r < r0 \/ (r = r0 /\ f < f0)
      BY <1>1, <1>2, <2>1, <2>3 DEF Passed
    <3>2. Stands(r, f) /\ loaded > 0
      BY <3>1 DEF Passed, BootInv, LoadedStand
    <3>3. r0 > r \/ (r0 = r /\ f0 >= f)
      BY <1>1, <2>1, <3>1
    <3>4. CASE registry' = registry /\ loaded' = loaded
      BY <1>1, <3>2, <3>4 DEF Stands
    <3>5. CASE registry' = Registered(m.id, m.kind, m.make, <<r0, f0>>) /\ loaded' = loaded + 1
      <4>1. Stands(r, f)'
        BY <1>1, <2>1, <3>2, <3>3, <3>5, RegisterStands DEF BootInv
      <4>2. QED
        BY <3>2, <3>5, <4>1 DEF BootInv, BootType
    <3>6. QED
      BY <1>3, <3>4, <3>5
  <2>4. QED
    BY <2>2, <2>3
<1>7. BuiltinAlone'
  <2>1. \A p \in registry' : p.origin[1] >= 1
    <3>1. \A p \in registry : p.origin[1] >= 1
      BY <1>1 DEF BootInv, BuiltinAlone
    <3>2. QED
      BY <1>1, <1>3, <3>1, RegisterTyped DEF BootInv
  <2>2. QED
    BY <1>2, <2>1 DEF BuiltinAlone
<1>8. QED
  BY <1>2, <1>4, <1>5, <1>6, <1>7 DEF BootInv

\* A root whose manifests have all been passed is left behind.
LEMMA EndRootStep ==
  ASSUME BootInv, EndRoot
  PROVE  BootInv'
<1>1. /\ boot.at = "load" /\ ~ AtFile /\ disk' = disk /\ registry' = registry /\ loaded' = loaded
      /\ boot' = IF boot.root \in DOMAIN disk THEN [boot EXCEPT !.root = @ + 1, !.file = 1]
                 ELSE [boot EXCEPT !.at = "seed"]
  BY DEF EndRoot
<1>2. boot.root \in Nat \ {0} /\ boot.file \in Nat \ {0} /\ boot.root <= Len(disk) + 1
  BY DEF BootInv, BootType, DiskRead
<1>3. /\ Len(disk) \in Nat /\ DOMAIN disk = 1..Len(disk)
      /\ \A r \in DOMAIN disk : Len(disk[r]) \in Nat /\ DOMAIN disk[r] = 1..Len(disk[r])
  BY DiskTyped DEF BootInv
<1>4. BuiltinAlone'
  BY <1>1 DEF BootInv, BuiltinAlone, BootType
<1>5. \A r, f : Stands(r, f)' <=> Stands(r, f)
  BY <1>1 DEF Stands
<1>6. CASE boot.root \in DOMAIN disk
  <2>1. boot'.at = "load" /\ boot'.root = boot.root + 1 /\ boot'.file = 1
    BY <1>1, <1>6 DEF BootInv, BootType
  <2>2. BootType'
    <3>1. boot.root + 1 \in Nat \ {0} /\ 1 \in Nat \ {0}
      BY <1>2
    <3>2. boot' = [boot EXCEPT !.root = boot.root + 1, !.file = 1]
      BY <1>1, <1>6
    <3>3. QED
      BY <1>1, <3>1, <3>2 DEF BootInv, BootType
  <2>3. DiskRead'
    BY <1>1, <1>2, <1>3, <1>6, <2>1 DEF DiskRead
  <2>4. LoadedStand'
    <3> SUFFICES ASSUME NEW r \in DOMAIN disk, NEW f \in DOMAIN disk[r],
                        disk[r][f].good, Passed(r, f)'
                 PROVE  Stands(r, f) /\ loaded > 0
      BY <1>1, <1>5 DEF LoadedStand
    <3>1. r \in Nat /\ f \in Nat \ {0} /\ r <= boot.root
      BY <1>2, <1>3, <2>1 DEF Passed
    <3>2. r = boot.root => f < boot.file
      <4>1. r = boot.root => boot.file \notin DOMAIN disk[r]
        BY <1>1, <1>6 DEF AtFile
      <4>2. QED
        BY <1>2, <1>3, <3>1, <4>1
    <3>3. Passed(r, f)
      BY <1>2, <3>1, <3>2 DEF Passed
    <3>4. QED
      BY <3>3 DEF BootInv, LoadedStand
  <2>5. QED
    BY <1>4, <2>1, <2>2, <2>3, <2>4 DEF BootInv
<1>7. CASE boot.root \notin DOMAIN disk
  <2>1. boot'.at = "seed" /\ boot'.root = boot.root /\ boot'.file = boot.file
    BY <1>1, <1>7 DEF BootInv, BootType
  <2>2. BootType'
    BY <1>1, <1>7 DEF BootInv, BootType
  <2>3. boot.root = Len(disk) + 1
    BY <1>2, <1>3, <1>7
  <2>4. DiskRead'
    BY <1>1, <1>7, <2>1, <2>3 DEF DiskRead, BootInv
  <2>5. LoadedStand'
    BY <1>1, <1>5, <2>1 DEF BootInv, LoadedStand, Passed
  <2>6. QED
    BY <1>4, <2>1, <2>2, <2>4, <2>5 DEF BootInv
<1>8. QED
  BY <1>6, <1>7

\* Once the disk is read, nothing that is done to boot changes how far it is.
LEMMA ReadStays ==
  ASSUME BootInv, boot.at # "load", NEW next \in {"kernel", "openai", "kimchi", "agentloop", "done"},
         boot' = [boot EXCEPT !.at = next], disk' = disk
  PROVE  /\ boot'.at = next /\ DiskRead'
         /\ boot' \in [at : {"load", "seed", "kernel", "openai", "kimchi", "agentloop", "done"},
                       root : Nat \ {0}, file : Nat \ {0}, seedBuiltins : BOOLEAN]
         /\ \A r, f : Passed(r, f)' <=> Passed(r, f)
<1>1. boot'.at = next /\ boot'.root = boot.root /\ boot'.file = boot.file
  BY DEF BootInv, BootType
<1>2. QED
  BY <1>1 DEF BootInv, BootType, DiskRead, Passed

\* The built-in plugins are put where nothing was loaded.
LEMMA SeedStep ==
  ASSUME BootInv, Seed
  PROVE  BootInv'
<1>1. /\ boot.at = "seed" /\ boot' = [boot EXCEPT !.at = "kernel"]
      /\ disk' = disk /\ loaded' = loaded
  BY DEF Seed
<1>2. /\ boot'.at = "kernel" /\ DiskRead'
      /\ boot' \in [at : {"load", "seed", "kernel", "openai", "kimchi", "agentloop", "done"},
                    root : Nat \ {0}, file : Nat \ {0}, seedBuiltins : BOOLEAN]
      /\ \A r, f : Passed(r, f)' <=> Passed(r, f)
  BY <1>1, ReadStays
<1>3. CASE loaded = 0 /\ boot.seedBuiltins
  <2>1. registry' = {[id |-> b.id, kind |-> b.kind, make |-> b.make, origin |-> <<0, 0>>] :
                       b \in Builtin}
    BY <1>3 DEF Seed
  <2>2. \A p \in registry' : p.origin \in Nat \X Nat
    BY <2>1
  <2>3. LoadedStand'
    BY <1>1, <1>2, <1>3 DEF BootInv, LoadedStand
  <2>4. QED
    BY <1>1, <1>2, <1>3, <2>2, <2>3 DEF BootInv, BootType, BuiltinAlone
<1>4. CASE ~ (loaded = 0 /\ boot.seedBuiltins)
  <2>1. registry' = registry
    BY <1>4 DEF Seed
  <2>2. LoadedStand'
    <3>1. \A r, f : Stands(r, f)' <=> Stands(r, f)
      BY <1>1, <2>1 DEF Stands
    <3>2. LoadedStand
      BY DEF BootInv
    <3>3. QED
      BY <1>1, <1>2, <3>1, <3>2 DEF LoadedStand
  <2>3. BootType'
    BY <1>1, <1>2, <2>1 DEF BootInv, BootType
  <2>4. BuiltinAlone'
    BY <1>1, <1>2, <2>1 DEF BootInv, BuiltinAlone
  <2>5. boot'.at # "done"
    BY <1>2
  <2>6. QED
    BY <1>2, <2>2, <2>3, <2>4, <2>5 DEF BootInv
<1>5. QED
  BY <1>3, <1>4

\* A plugin registered over the disk stands for what had its id.
LEMMA RebindStep ==
  ASSUME BootInv, boot.at \in {"openai", "kimchi", "agentloop"},
         NEW next \in {"kimchi", "agentloop", "done"},
         boot' = [boot EXCEPT !.at = next], disk' = disk, loaded' = loaded,
         NEW id, NEW kind, NEW make,
         registry' = registry \/ registry' = Registered(id, kind, make, <<0, 1>>)
  PROVE  BootType' /\ DiskRead' /\ LoadedStand' /\ BuiltinAlone' /\ boot'.at = next
<1>1. /\ boot'.at = next /\ DiskRead'
      /\ boot' \in [at : {"load", "seed", "kernel", "openai", "kimchi", "agentloop", "done"},
                    root : Nat \ {0}, file : Nat \ {0}, seedBuiltins : BOOLEAN]
      /\ \A r, f : Passed(r, f)' <=> Passed(r, f)
  BY ReadStays
<1>2. /\ \A p \in registry' : p.origin \in Nat \X Nat
      /\ \A p \in registry' : p \in registry \/ p.origin = <<0, 1>>
  <2>1. CASE registry' = registry
    BY <2>1 DEF BootInv, BootType
  <2>2. CASE registry' = Registered(id, kind, make, <<0, 1>>)
    <3>1. 0 \in Nat /\ 1 \in Nat
      OBVIOUS
    <3>2. QED
      BY <2>2, <3>1, RegisterTyped DEF BootInv
  <2>3. QED
    BY <2>1, <2>2
<1>3. BootType'
  BY <1>1, <1>2 DEF BootInv, BootType
<1>4. BuiltinAlone'
  <2>1. boot'.at \notin {"load", "seed"}
    BY <1>1
  <2>2. ASSUME NEW p \in registry', p.origin = <<0, 0>> PROVE loaded = 0
    <3>1. <<0, 0>> # <<0, 1>>
      OBVIOUS
    <3>2. p \in registry
      BY <1>2, <2>2, <3>1
    <3>3. QED
      BY <2>2, <3>2 DEF BootInv, BuiltinAlone
  <2>3. QED
    BY <2>1, <2>2 DEF BuiltinAlone
<1>5. LoadedStand'
  <2> SUFFICES ASSUME NEW r \in DOMAIN disk, NEW f \in DOMAIN disk[r],
                      disk[r][f].good, Passed(r, f)
               PROVE  Stands(r, f)' /\ loaded > 0
    BY <1>1 DEF LoadedStand
  <2>1. r \in Nat /\ f \in Nat
    BY DiskTyped DEF BootInv
  <2>2. Stands(r, f) /\ loaded > 0
    BY DEF BootInv, LoadedStand
  <2>3. CASE registry' = registry
    BY <2>2, <2>3 DEF Stands
  <2>4. CASE registry' = Registered(id, kind, make, <<0, 1>>)
    <3>1. 0 \in Nat /\ 1 \in Nat
      OBVIOUS
    <3>2. Stands(r, f)'
      BY <2>1, <2>2, <2>4, <3>1, RegisterStands DEF BootInv
    <3>3. QED
      BY <2>2, <3>2
  <2>5. QED
    BY <2>3, <2>4
<1>6. QED
  BY <1>1, <1>3, <1>4, <1>5

\* Every step of the start preserves the invariant.
LEMMA BootInvStep == BootInv /\ [BootNext]_bootVars => BootInv'
<1> SUFFICES ASSUME BootInv, [BootNext]_bootVars PROVE BootInv'
  OBVIOUS
<1>1. CASE LoadFile
  BY <1>1, LoadFileStep
<1>2. CASE EndRoot
  BY <1>2, EndRootStep
<1>3. CASE Seed
  BY <1>3, SeedStep
<1>4. CASE NewKernel
  <2>1. /\ boot.at = "kernel" /\ boot' = [boot EXCEPT !.at = "openai"]
        /\ disk' = disk /\ loaded' = loaded /\ registry' = registry
    BY <1>4 DEF NewKernel
  <2>2. /\ boot'.at = "openai" /\ DiskRead'
        /\ boot' \in [at : {"load", "seed", "kernel", "openai", "kimchi", "agentloop", "done"},
                      root : Nat \ {0}, file : Nat \ {0}, seedBuiltins : BOOLEAN]
        /\ \A r, f : Passed(r, f)' <=> Passed(r, f)
    BY <2>1, ReadStays
  <2>3. LoadedStand'
    <3>1. \A r, f : Stands(r, f)' <=> Stands(r, f)
      BY <2>1 DEF Stands
    <3>2. LoadedStand
      BY DEF BootInv
    <3>3. QED
      BY <2>1, <2>2, <3>1, <3>2 DEF LoadedStand
  <2>4. BootType'
    BY <2>1, <2>2 DEF BootInv, BootType
  <2>5. BuiltinAlone'
    BY <2>1, <2>2 DEF BootInv, BuiltinAlone
  <2>6. boot'.at # "done"
    BY <2>2
  <2>7. QED
    BY <2>2, <2>3, <2>4, <2>5, <2>6 DEF BootInv
<1>5. CASE RebindOpenAI
  <2>1. /\ boot.at = "openai" /\ boot' = [boot EXCEPT !.at = "kimchi"]
        /\ disk' = disk /\ loaded' = loaded
        /\ registry' = registry \/ registry' = Registered(OpenAIId, "Provider", "Provider", <<0, 1>>)
    BY <1>5 DEF RebindOpenAI, Rebind
  <2>2. BootType' /\ DiskRead' /\ LoadedStand' /\ BuiltinAlone' /\ boot'.at = "kimchi"
    BY <2>1, RebindStep
  <2>3. QED
    BY <2>2 DEF BootInv
<1>6. CASE EnsureKimchi
  <2>1. /\ boot.at = "kimchi" /\ boot' = [boot EXCEPT !.at = "agentloop"]
        /\ disk' = disk /\ loaded' = loaded
        /\ registry' = registry \/ registry' = Registered(KimchiId, "Provider", "Provider", <<0, 1>>)
    BY <1>6 DEF EnsureKimchi, Rebind
  <2>2. BootType' /\ DiskRead' /\ LoadedStand' /\ BuiltinAlone' /\ boot'.at = "agentloop"
    BY <2>1, RebindStep
  <2>3. QED
    BY <2>2 DEF BootInv
<1>7. CASE EnsureAgentLoop
  <2>1. /\ boot.at = "agentloop" /\ boot' = [boot EXCEPT !.at = "done"]
        /\ disk' = disk /\ loaded' = loaded /\ served' = Adapters(registry')
        /\ registry' = IF \E p \in registry : p.id = AgentLoopId THEN registry
                       ELSE Registered(AgentLoopId, "Runtime", "AgentLoop", <<0, 1>>)
    BY <1>7 DEF EnsureAgentLoop, Refreshed
  <2>2. BootType' /\ DiskRead' /\ LoadedStand' /\ BuiltinAlone' /\ boot'.at = "done"
    BY <2>1, RebindStep
  <2>3. \E p \in registry' : p.id = AgentLoopId
    <3>1. CASE \E p \in registry : p.id = AgentLoopId
      BY <2>1, <3>1
    <3>2. CASE ~ \E p \in registry : p.id = AgentLoopId
      <4>1. 0 \in Nat /\ 1 \in Nat /\ registry' = Registered(AgentLoopId, "Runtime", "AgentLoop", <<0, 1>>)
        BY <2>1, <3>2
      <4>2. QED
        BY <4>1, RegisterTyped DEF BootInv
    <3>3. QED
      BY <3>1, <3>2
  <2>4. served' = Adapters(registry)'
    BY <2>1 DEF Adapters
  <2>5. QED
    BY <2>2, <2>3, <2>4 DEF BootInv
<1>8. CASE UNCHANGED bootVars
  <2>1. /\ boot' = boot /\ disk' = disk /\ registry' = registry /\ loaded' = loaded
        /\ served' = served
    BY <1>8 DEF bootVars
  <2>2. BootType' /\ DiskRead' /\ BuiltinAlone'
    BY <2>1 DEF BootInv, BootType, DiskRead, BuiltinAlone
  <2>3. LoadedStand'
    BY <2>1 DEF BootInv, LoadedStand, Passed, Stands
  <2>4. QED
    BY <2>1, <2>2, <2>3 DEF BootInv, Adapters
<1>9. QED
  BY <1>1, <1>2, <1>3, <1>4, <1>5, <1>6, <1>7, <1>8 DEF BootNext

\* Nothing is read before the first step.
LEMMA BootInitInv == BootInit => BootInv
<1> SUFFICES ASSUME BootInit PROVE BootInv
  OBVIOUS
<1>1. /\ boot.at = "load" /\ boot.root = 1 /\ boot.file = 1
      /\ boot \in [at : {"load"}, root : {1}, file : {1}, seedBuiltins : BOOLEAN]
      /\ disk \in Seq(Seq(Manifests))
      /\ registry = {} /\ loaded = 0
  BY DiskAssumption DEF BootInit
<1>2. BootType
  BY <1>1 DEF BootType
<1>3. DiskRead /\ \A r \in DOMAIN disk : \A f \in DOMAIN disk[r] : ~ Passed(r, f)
  <2>1. /\ Len(disk) \in Nat /\ DOMAIN disk = 1..Len(disk)
        /\ \A r \in DOMAIN disk : Len(disk[r]) \in Nat /\ DOMAIN disk[r] = 1..Len(disk[r])
    BY <1>2, DiskTyped
  <2>2. QED
    BY <1>1, <2>1 DEF DiskRead, Passed
<1>4. QED
  BY <1>1, <1>2, <1>3 DEF BootInv, LoadedStand, BuiltinAlone

\* A plugin under the id of the agent loop is one, or comes from a manifest on disk.
LoopTaken ==
  \E r \in DOMAIN disk : \E f \in DOMAIN disk[r] :
    disk[r][f].good /\ disk[r][f].id = AgentLoopId /\ ~ IsAgentLoop(disk[r][f])

LoopHeld == \A p \in registry : p.id = AgentLoopId => IsAgentLoop(p) \/ LoopTaken

LEMMA LoopHeldStep == LoopHeld /\ [BootNext]_bootVars => LoopHeld'
<1> SUFFICES ASSUME LoopHeld, [BootNext]_bootVars PROVE LoopHeld'
  OBVIOUS
<1>1. disk' = disk /\ (LoopTaken' <=> LoopTaken)
  BY DEF BootNext, LoadFile, EndRoot, Seed, NewKernel, RebindOpenAI, EnsureKimchi, Rebind,
         EnsureAgentLoop, bootVars, LoopTaken
<1>2. ASSUME NEW id, NEW kind, NEW make, NEW origin,
             registry' = Registered(id, kind, make, origin),
             id = AgentLoopId => (kind = "Runtime" /\ make = "AgentLoop") \/ LoopTaken
      PROVE  LoopHeld'
  <2> DEFINE q == [id |-> id, kind |-> kind, make |-> make, origin |-> origin]
  <2>1. q.id = id /\ q.kind = kind /\ q.make = make
    OBVIOUS
  <2>2. \A p \in registry' : p \in registry \/ p = q
    BY <1>2 DEF Registered
  <2> HIDE DEF q
  <2>3. QED
    BY <1>1, <1>2, <2>1, <2>2 DEF LoopHeld, IsAgentLoop
<1>3. CASE registry' = registry
  BY <1>1, <1>3 DEF LoopHeld
<1>4. CASE LoadFile
  <2> DEFINE m == disk[boot.root][boot.file]
  <2>1. CASE m.good
    <3>1. /\ registry' = Registered(m.id, m.kind, m.make, <<boot.root, boot.file>>)
          /\ boot.root \in DOMAIN disk /\ boot.file \in DOMAIN disk[boot.root]
      BY <1>4, <2>1 DEF LoadFile, AtFile
    <3>2. m.id = AgentLoopId => (m.kind = "Runtime" /\ m.make = "AgentLoop") \/ LoopTaken
      BY <2>1, <3>1 DEF LoopTaken, IsAgentLoop
    <3> HIDE DEF m
    <3>3. QED
      BY <1>2, <3>1, <3>2
  <2>2. CASE ~ m.good
    BY <1>3, <1>4, <2>2 DEF LoadFile
  <2>3. QED
    BY <2>1, <2>2
<1>5. CASE EndRoot \/ NewKernel \/ UNCHANGED bootVars
  BY <1>3, <1>5 DEF EndRoot, NewKernel, bootVars
<1>6. CASE Seed
  <2>1. CASE registry' = {[id |-> b.id, kind |-> b.kind, make |-> b.make, origin |-> <<0, 0>>] :
                            b \in Builtin}
    BY <2>1, BuiltinAssumption DEF LoopHeld, IsAgentLoop
  <2>2. QED
    BY <1>3, <1>6, <2>1 DEF Seed
<1>7. CASE RebindOpenAI \/ EnsureKimchi
  <2>1. OpenAIId # AgentLoopId /\ KimchiId # AgentLoopId
    BY DEF OpenAIId, KimchiId, AgentLoopId
  <2>2. \/ registry' = registry
        \/ registry' = Registered(OpenAIId, "Provider", "Provider", <<0, 1>>)
        \/ registry' = Registered(KimchiId, "Provider", "Provider", <<0, 1>>)
    BY <1>7 DEF RebindOpenAI, EnsureKimchi, Rebind
  <2>3. QED
    BY <1>2, <1>3, <2>1, <2>2
<1>8. CASE EnsureAgentLoop
  <2>1. \/ registry' = registry
        \/ registry' = Registered(AgentLoopId, "Runtime", "AgentLoop", <<0, 1>>)
    BY <1>8 DEF EnsureAgentLoop
  <2>2. QED
    BY <1>2, <1>3, <2>1
<1>9. QED
  BY <1>4, <1>5, <1>6, <1>7, <1>8 DEF BootNext

\* Whatever lies on disk, with or without built-in plugins, and whichever variables are set,
\* a host that has started serves the plugins of its registry that are what they are stated
\* to be, an agent loop among them unless its id is taken on disk, with all that could be
\* loaded in the registry (bootstrap.New, plugin.LoadTree, Kernel.refreshAdaptersLocked).
THEOREM BootSafe == BootSpec => []BootComplete
<1>1. BootInv /\ LoopHeld => BootComplete
  <2> SUFFICES ASSUME BootInv, LoopHeld, boot.at = "done" PROVE BootComplete
    BY DEF BootComplete
  <2>1. /\ Len(disk) \in Nat /\ DOMAIN disk = 1..Len(disk) /\ boot.root = Len(disk) + 1
    BY DiskTyped DEF BootInv, DiskRead
  <2>2. \A r \in 1..Len(disk) : \A f \in DOMAIN disk[r] :
          disk[r][f].good => Stands(r, f) /\ loaded > 0
    <3> SUFFICES ASSUME NEW r \in 1..Len(disk), NEW f \in DOMAIN disk[r], disk[r][f].good
                 PROVE  Stands(r, f) /\ loaded > 0
      OBVIOUS
    <3>1. Passed(r, f) /\ r \in DOMAIN disk
      BY <2>1 DEF Passed
    <3>2. QED
      BY <3>1 DEF BootInv, LoadedStand
  <2>3. \A r \in 1..Len(disk) : \A f \in DOMAIN disk[r] :
          disk[r][f].good =>
            \E p \in registry :
              /\ p.id = disk[r][f].id
              /\ \/ p.origin = <<0, 1>>
                 \/ p.origin[1] > r
                 \/ p.origin[1] = r /\ p.origin[2] >= f
    <3> TAKE r \in 1..Len(disk)
    <3> TAKE f \in DOMAIN disk[r]
    <3> HAVE disk[r][f].good
    <3>1. Stands(r, f)
      BY <2>2
    <3>2. QED
      BY <3>1 DEF Stands
  <2>4. (\E p \in registry : p.origin = <<0, 0>>) =>
          \A r \in 1..Len(disk) : \A f \in DOMAIN disk[r] : ~ disk[r][f].good
    <3>1. (\E p \in registry : p.origin = <<0, 0>>) => loaded = 0
      BY DEF BootInv, BuiltinAlone
    <3>2. QED
      BY <2>2, <3>1
  <2>5. served = Adapters(registry) /\ \E p \in registry : p.id = AgentLoopId
    BY DEF BootInv
  <2>6. \/ \E p \in served : p.id = AgentLoopId /\ IsAgentLoop(p)
        \/ \E r \in 1..Len(disk) : \E f \in DOMAIN disk[r] :
             disk[r][f].good /\ disk[r][f].id = AgentLoopId /\ ~ IsAgentLoop(disk[r][f])
    <3>1. PICK p \in registry : p.id = AgentLoopId
      BY <2>5
    <3>2. IsAgentLoop(p) \/ LoopTaken
      BY <3>1 DEF LoopHeld
    <3>3. CASE IsAgentLoop(p)
      BY <2>5, <3>1, <3>3 DEF Adapters, IsAgentLoop
    <3>4. CASE LoopTaken
      BY <2>1, <3>4 DEF LoopTaken
    <3>5. QED
      BY <3>2, <3>3, <3>4
  <2> HIDE DEF BootInv
  <2>7. QED
    BY <2>3, <2>4, <2>5, <2>6 DEF BootComplete
<1>2. BootInit => LoopHeld
  BY DEF BootInit, LoopHeld
<1>3. QED
  BY <1>1, <1>2, BootInvStep, BootInitInv, LoopHeldStep, PTL DEF BootSpec

-------------------------------------------------------------------------------
\* Requests in a window

\* The requests with key k that were let through after time c, and the hits kept of them.
Through(k, c) == {j \in DOMAIN asked[k] : asked[k][j].through /\ asked[k][j].at > c}

HitsAfter(k, c) == {i \in DOMAIN hits[k] : hits[k][i] > c}

Call == [at : Int, through : BOOLEAN]

WindowType ==
  /\ clock \in Int
  /\ hits \in [Key -> Seq(Int)]
  /\ asked \in [Key -> Seq(Call)]

\* However many hits have been dropped, those in a window that reaches back as far as the
\* limiter looks, or less far, are as many as the requests let through in it.
NoneLost ==
  \A k \in Key : \A c \in Int :
    c >= clock - Minute => Cardinality(HitsAfter(k, c)) = Cardinality(Through(k, c))

WindowInv == WindowType /\ NoneLost /\ WindowExact

\* A finite set of numbers has one element at each place of its order.
LEMMA EachPlaceTaken ==
  ASSUME NEW I \in SUBSET Int, IsFiniteSet(I)
  PROVE  LET place == [i \in I |-> Cardinality({j \in I : j <= i})]
         IN  /\ Cardinality(I) \in Nat
             /\ place \in [I -> 1..Cardinality(I)]
             /\ \A i, j \in I : place[i] = place[j] => i = j
             /\ \A n \in 1..Cardinality(I) : \E i \in I : place[i] = n
<1> DEFINE n == Cardinality(I)
           upto(i) == {j \in I : j <= i}
           size(i) == Cardinality(upto(i))
           place == [i \in I |-> size(i)]
<1>1. n \in Nat
  BY FS_CardinalityType
<1>2. ASSUME NEW i \in I
      PROVE  /\ IsFiniteSet(upto(i)) /\ size(i) \in Nat
             /\ size(i) <= n /\ size(i) # 0
  <2>1. upto(i) \in SUBSET I /\ i \in upto(i)
    OBVIOUS
  <2>2. IsFiniteSet(upto(i)) /\ size(i) <= n
    BY <2>1, FS_Subset
  <2>3. size(i) # 0
    BY <2>1, <2>2, FS_EmptySet
  <2>4. QED
    BY <2>2, <2>3, FS_CardinalityType
<1>3. ASSUME NEW i \in I, NEW j \in I, i < j
      PROVE  size(i) # size(j)
  <2>1. i \in Int /\ j \in Int /\ \A m \in I : m \in Int
    OBVIOUS
  <2>2. j <= j /\ ~ (j <= i) /\ \A m \in I : m <= i => m <= j
    BY <1>3, <2>1
  <2>3. upto(i) \in SUBSET upto(j) /\ j \in upto(j) /\ j \notin upto(i)
    BY <2>2
  <2>4. QED
    BY <1>2, <2>3, FS_Subset
<1>4. place \in [I -> 1..n]
  <2>1. \A i \in I : size(i) \in Nat /\ size(i) <= n /\ size(i) # 0
    BY <1>2
  <2> HIDE DEF size, n
  <2>2. \A i \in I : size(i) \in 1..n
    BY <1>1, <2>1
  <2>3. QED
    BY <2>2
<1>5. \A i, j \in I : place[i] = place[j] => i = j
  <2> HIDE DEF size
  <2>1. \A i, j \in I : i = j \/ i < j \/ j < i
    OBVIOUS
  <2>2. QED
    BY <1>3, <2>1
<1> HIDE DEF place
<1>6. \A m \in 1..n : \E i \in I : place[i] = m
  <2>1. place \in Injection(I, 1..n)
    BY <1>4, <1>5 DEF Injection, IsInjective
  <2>2. IsFiniteSet(1..n) /\ Cardinality(1..n) = n
    BY <1>1, FS_Interval
  <2>3. place \in Surjection(I, 1..n)
    BY <2>1, <2>2, FS_Injection
  <2>4. QED
    BY <2>3 DEF Surjection
<1>7. QED
  BY <1>1, <1>4, <1>5, <1>6 DEF place

\* What is selected from a sequence: as many elements as places, each of which counts once.
LEMMA SelectedCounts ==
  ASSUME NEW s \in Seq(Int), NEW I \in SUBSET (DOMAIN s)
  PROVE  /\ Selected(s, I) \in Seq(Int)
         /\ IsFiniteSet(I)
         /\ Len(Selected(s, I)) = Cardinality(I)
         /\ \A c \in Int : Cardinality({n \in DOMAIN Selected(s, I) : Selected(s, I)[n] > c})
                             = Cardinality({i \in I : s[i] > c})
<1> DEFINE n == Cardinality(I)
           place == [i \in I |-> Cardinality({j \in I : j <= i})]
           from(m) == CHOOSE i \in I : Cardinality({j \in I : j <= i}) = m
<1>1. I \in SUBSET Int /\ IsFiniteSet(I)
  <2>1. IsFiniteSet(1..Len(s)) /\ Len(s) \in Nat
    BY FS_Interval
  <2>2. I \in SUBSET (1..Len(s))
    OBVIOUS
  <2>3. QED
    BY <2>1, <2>2, FS_Subset
<1>2. /\ n \in Nat
      /\ place \in [I -> 1..n]
      /\ \A i, j \in I : place[i] = place[j] => i = j
      /\ \A m \in 1..n : \E i \in I : place[i] = m
  BY <1>1, EachPlaceTaken
<1>3. Selected(s, I) = [m \in 1..n |-> s[from(m)]]
  BY DEF Selected
<1>4. \A m \in 1..n : from(m) \in I /\ place[from(m)] = m
  <2> SUFFICES ASSUME NEW m \in 1..n PROVE from(m) \in I /\ place[from(m)] = m
    OBVIOUS
  <2>1. \E i \in I : Cardinality({j \in I : j <= i}) = m
    BY <1>2
  <2>2. from(m) \in I /\ Cardinality({j \in I : j <= from(m)}) = m
    BY <2>1
  <2> HIDE DEF from
  <2>3. QED
    BY <2>2
<1> HIDE DEF n, place, from
<1>5. \A i \in I : place[i] \in 1..n /\ from(place[i]) = i
  BY <1>2, <1>4
<1>6. Selected(s, I) \in [1..n -> Int]
  BY <1>3, <1>4
<1>7. Selected(s, I) \in Seq(Int) /\ Len(Selected(s, I)) = n /\ DOMAIN Selected(s, I) = 1..n
  BY <1>2, <1>6
<1>8. ASSUME NEW c \in Int
      PROVE  Cardinality({m \in 1..n : Selected(s, I)[m] > c})
               = Cardinality({i \in I : s[i] > c})
  <2> DEFINE A == {m \in 1..n : Selected(s, I)[m] > c}
             B == {i \in I : s[i] > c}
             f == [m \in A |-> from(m)]
  <2>1. A = {m \in 1..n : s[from(m)] > c}
    BY <1>3
  <2>2. f \in [A -> B]
    BY <1>4, <2>1
  <2>3. \A m, l \in A : f[m] = f[l] => m = l
    BY <1>4, <2>1
  <2>4. \A i \in B : \E m \in A : f[m] = i
    <3> SUFFICES ASSUME NEW i \in B PROVE \E m \in A : f[m] = i
      OBVIOUS
    <3>1. place[i] \in 1..n /\ from(place[i]) = i
      BY <1>5
    <3>2. place[i] \in A
      BY <2>1, <3>1
    <3>3. QED
      BY <3>1, <3>2
  <2> HIDE DEF f
  <2>5. f \in Bijection(A, B)
    BY <2>2, <2>3, <2>4 DEF Bijection, Injection, IsInjective, Surjection
  <2>6. IsFiniteSet(A)
    <3>1. IsFiniteSet(1..n) /\ A \in SUBSET (1..n)
      BY <1>2, FS_Interval
    <3>2. QED
      BY <3>1, FS_Subset
  <2>7. QED
    BY <2>5, <2>6, FS_Bijection DEF ExistsBijection
<1>9. QED
  BY <1>1, <1>7, <1>8 DEF n

\* An entry at the end of a sequence counts once if it counts.
LEMMA AppendCounts ==
  ASSUME NEW n \in Nat, NEW A \in SUBSET (1..n), NEW yes \in BOOLEAN
  PROVE  /\ IsFiniteSet(A)
         /\ Cardinality(A \cup (IF yes THEN {n + 1} ELSE {}))
              = IF yes THEN Cardinality(A) + 1 ELSE Cardinality(A)
<1>1. IsFiniteSet(A)
  <2>1. IsFiniteSet(1..n)
    BY FS_Interval
  <2>2. QED
    BY <2>1, FS_Subset
<1>2. n + 1 \notin A
  OBVIOUS
<1>3. Cardinality(A \cup {n + 1}) = Cardinality(A) + 1
  BY <1>1, <1>2, FS_AddElement
<1>4. A \cup {} = A
  OBVIOUS
<1>5. QED
  BY <1>1, <1>3, <1>4

\* A request: what is too old goes, and the request is kept and let through if fewer than
\* PerMin are left.
LEMMA AllowKeeps ==
  ASSUME WindowInv, NEW k \in Key, Allow(k)
  PROVE  WindowInv'
<1> DEFINE cut == clock - Minute
           recent == Recent(k)
           room == HasRoom(k)
           s == hits[k]
           a == asked[k]
           n == Len(a)
           e == [at |-> clock, through |-> room]
<1>1. /\ clock \in Int /\ Minute \in Int /\ cut \in Int /\ PerMin \in Int /\ Minute >= 1
      /\ s \in Seq(Int) /\ a \in Seq(Call) /\ n \in Nat
      /\ clock' = clock
  BY LimiterAssumption DEF WindowInv, WindowType, Allow
<1>2. /\ recent \in Seq(Int)
      /\ Len(recent) = Cardinality(HitsAfter(k, cut))
      /\ \A c \in Int : Cardinality({i \in DOMAIN recent : recent[i] > c})
                          = Cardinality({i \in HitsAfter(k, cut) : s[i] > c})
  <2>1. HitsAfter(k, cut) \in SUBSET (DOMAIN s)
    BY DEF HitsAfter
  <2>2. recent = Selected(s, HitsAfter(k, cut))
    BY DEF Recent, HitsAfter
  <2>3. s \in Seq(Int)
    BY <1>1
  <2> DEFINE H == HitsAfter(k, cut)
             t == Selected(s, H)
  <2> HIDE DEF s, H
  <2>4. /\ t \in Seq(Int) /\ Len(t) = Cardinality(H)
        /\ \A c \in Int : Cardinality({i \in DOMAIN t : t[i] > c})
                            = Cardinality({i \in H : s[i] > c})
    BY <2>1, <2>3, SelectedCounts DEF H
  <2> HIDE DEF t, recent
  <2>5. recent = t
    BY <2>2 DEF t, H
  <2>6. QED
    BY <2>4, <2>5 DEF H
<1>3. Len(recent) = Cardinality(Through(k, cut))
  BY <1>1, <1>2 DEF WindowInv, NoneLost
<1>4. ASSUME NEW c \in Int, c >= cut
      PROVE  Cardinality({i \in DOMAIN recent : recent[i] > c}) = Cardinality(Through(k, c))
  <2>1. {i \in HitsAfter(k, cut) : s[i] > c} = HitsAfter(k, c)
    <3>1. \A i \in DOMAIN s : s[i] \in Int
      BY <1>1
    <3>2. \A i \in DOMAIN s : s[i] > c => s[i] > cut
      BY <1>1, <1>4, <3>1
    <3>3. QED
      BY <3>2 DEF HitsAfter
  <2>2. QED
    BY <1>1, <1>2, <1>4, <2>1 DEF WindowInv, NoneLost
<1>5. room \in BOOLEAN /\ (room <=> Len(recent) < PerMin)
  BY DEF HasRoom
<1>6. /\ hits' = [hits EXCEPT ![k] = IF room THEN Append(recent, clock) ELSE recent]
      /\ asked' = [asked EXCEPT ![k] = Append(a, e)]
  BY DEF Allow, Kept
<1> HIDE DEF recent, room
<1>7. e \in Call /\ e.at = clock /\ e.through = room
  BY <1>1, <1>5 DEF Call
<1> HIDE DEF e
<1>8. /\ hits'[k] = IF room THEN Append(recent, clock) ELSE recent
      /\ asked'[k] = Append(a, e)
      /\ \A o \in Key : o # k => hits'[o] = hits[o] /\ asked'[o] = asked[o]
  BY <1>6 DEF WindowInv, WindowType
<1>9. WindowType'
  <2>1. hits'[k] \in Seq(Int) /\ asked'[k] \in Seq(Call)
    BY <1>1, <1>2, <1>7, <1>8
  <2>2. QED
    BY <1>1, <1>6, <2>1 DEF WindowInv, WindowType
<1> HIDE DEF s
<1>10. /\ DOMAIN a = 1..n /\ DOMAIN asked'[k] = 1..(n + 1)
       /\ \A j \in 1..n : asked'[k][j] = a[j]
       /\ asked'[k][n + 1] = e
  BY <1>1, <1>7, <1>8
<1> HIDE DEF a, n
<1>11. ASSUME NEW c \in Int
       PROVE  /\ IsFiniteSet(Through(k, c))
              /\ Cardinality(Through(k, c)')
                   = IF room /\ clock > c THEN Cardinality(Through(k, c)) + 1
                     ELSE Cardinality(Through(k, c))
  <2> DEFINE A == Through(k, c)
             yes == room /\ clock > c
  <2>1. A \in SUBSET (1..n) /\ \A j \in 1..n : j \in A <=> a[j].through /\ a[j].at > c
    BY <1>10 DEF Through, a
  <2>2. Through(k, c)' = {j \in 1..(n + 1) : asked'[k][j].through /\ asked'[k][j].at > c}
    BY <1>10 DEF Through
  <2>3. Through(k, c)' = A \cup (IF yes THEN {n + 1} ELSE {})
    <3>1. \A j \in 1..(n + 1) : j \in 1..n \/ j = n + 1
      BY <1>1 DEF n, a
    <3>2. n + 1 \in 1..(n + 1) /\ \A j \in 1..n : j \in 1..(n + 1) /\ j # n + 1
      BY <1>1 DEF n, a
    <3> HIDE DEF A
    <3>3. QED
      BY <1>7, <1>10, <2>1, <2>2, <3>1, <3>2
  <2>4. n \in Nat /\ yes \in BOOLEAN
    BY <1>1, <1>5 DEF n, a
  <2> HIDE DEF A, yes
  <2>5. /\ IsFiniteSet(A)
        /\ Cardinality(Through(k, c)') = IF yes THEN Cardinality(A) + 1 ELSE Cardinality(A)
    BY <2>1, <2>3, <2>4, AppendCounts
  <2>6. QED
    BY <2>5 DEF A, yes
<1>12. ASSUME NEW c \in Int, c >= cut
       PROVE  Cardinality(HitsAfter(k, c)') = Cardinality(Through(k, c)')
  <2> DEFINE l == Len(recent)
             A == {i \in 1..l : recent[i] > c}
             yes == room /\ clock > c
  <2>1. DOMAIN recent = 1..l /\ l \in Nat
    BY <1>2
  <2>2. Cardinality(A) = Cardinality(Through(k, c))
    BY <1>4, <1>12, <2>1
  <2>3. HitsAfter(k, c)' = A \cup (IF yes THEN {l + 1} ELSE {})
    <3>1. CASE room
      <4>1. /\ hits'[k] = Append(recent, clock)
            /\ DOMAIN hits'[k] = 1..(l + 1)
            /\ \A i \in 1..l : hits'[k][i] = recent[i]
            /\ hits'[k][l + 1] = clock
        BY <1>1, <1>2, <1>8, <3>1
      <4> HIDE DEF l
      <4>2. \A i \in 1..(l + 1) : i \in 1..l \/ i = l + 1
        BY <2>1
      <4>3. l + 1 \in 1..(l + 1) /\ \A i \in 1..l : i \in 1..(l + 1) /\ i # l + 1
        BY <2>1
      <4>4. QED
        BY <3>1, <4>1, <4>2, <4>3 DEF HitsAfter
    <3>2. CASE ~ room
      BY <1>8, <2>1, <3>2 DEF HitsAfter
    <3>3. QED
      BY <3>1, <3>2
  <2>4. A \in SUBSET (1..l) /\ yes \in BOOLEAN
    BY <1>5
  <2> HIDE DEF A, yes, l
  <2>5. Cardinality(HitsAfter(k, c)') = IF yes THEN Cardinality(A) + 1 ELSE Cardinality(A)
    BY <2>1, <2>3, <2>4, AppendCounts
  <2>6. QED
    BY <1>11, <2>2, <2>5 DEF yes
<1>13. NoneLost'
  <2> SUFFICES ASSUME NEW o \in Key, NEW c \in Int, c >= cut
               PROVE  Cardinality(HitsAfter(o, c)') = Cardinality(Through(o, c)')
    BY <1>1 DEF NoneLost
  <2>1. CASE o = k
    BY <1>12, <2>1
  <2>2. CASE o # k
    <3>1. HitsAfter(o, c)' = HitsAfter(o, c) /\ Through(o, c)' = Through(o, c)
      BY <1>8, <2>2 DEF HitsAfter, Through
    <3>2. QED
      BY <3>1 DEF WindowInv, NoneLost
  <2>3. QED
    BY <2>1, <2>2
<1>14. WindowExact'
  <2> DEFINE before(o, i) == {j \in 1..(i - 1) : /\ asked[o][j].through
                                                 /\ asked[o][j].at > asked[o][i].at - Minute}
             after(o, i) == {j \in 1..(i - 1) : /\ asked'[o][j].through
                                                /\ asked'[o][j].at > asked'[o][i].at - Minute}
  <2> SUFFICES ASSUME NEW o \in Key, NEW i \in DOMAIN asked'[o]
               PROVE  asked'[o][i].through <=> Cardinality(after(o, i)) < PerMin
    BY DEF WindowExact
  <2>1. \A i0 \in DOMAIN asked[o] :
          asked[o][i0].through <=> Cardinality(before(o, i0)) < PerMin
    BY DEF WindowInv, WindowExact
  <2>2. CASE o # k
    BY <1>8, <2>1, <2>2
  <2>3. CASE o = k /\ i # n + 1
    <3>1. i \in 1..n
      BY <1>1, <1>10, <2>3 DEF n, a
    <3>2. \A j \in 1..(i - 1) : j \in 1..n
      BY <1>1, <3>1 DEF n, a
    <3>3. after(o, i) = before(o, i) /\ asked'[o][i] = asked[o][i]
      BY <1>10, <2>3, <3>1, <3>2 DEF a
    <3>4. i \in DOMAIN asked[o]
      BY <1>10, <2>3, <3>1 DEF a
    <3> HIDE DEF after, before
    <3>5. QED
      BY <2>1, <3>3, <3>4
  <2>4. CASE o = k /\ i = n + 1
    <3>1. i - 1 = n
      BY <1>1, <2>4 DEF n, a
    <3>2. after(o, i) = {j \in 1..n : a[j].through /\ a[j].at > cut}
      BY <1>7, <1>10, <2>4, <3>1
    <3>3. after(o, i) = Through(k, cut)
      BY <1>10, <3>2 DEF Through, a
    <3> HIDE DEF after
    <3>4. QED
      BY <1>3, <1>5, <1>7, <1>10, <2>4, <3>3
  <2>5. QED
    BY <2>2, <2>3, <2>4
<1>15. QED
  BY <1>9, <1>13, <1>14 DEF WindowInv

\* However long the limiter runs, and whatever it has dropped: it lets a request through if
\* and only if fewer than PerMin with its key have been let through in the minute that ends
\* with it (ratelimit/limiter.go:24-44).
THEOREM LimitExact == LimiterSpec => []WindowExact
<1>1. LimiterInit => WindowInv
  <2> SUFFICES ASSUME LimiterInit PROVE WindowInv
    OBVIOUS
  <2>1. /\ clock = 0
        /\ \A k \in Key : hits[k] = <<>> /\ asked[k] = <<>>
    BY DEF LimiterInit
  <2>2. WindowType
    BY DEF LimiterInit, WindowType
  <2>3. WindowExact
    BY <2>1 DEF WindowExact
  <2>4. NoneLost
    <3>1. \A k \in Key : \A c \in Int : HitsAfter(k, c) = {} /\ Through(k, c) = {}
      BY <2>1 DEF HitsAfter, Through
    <3>2. QED
      BY <3>1 DEF NoneLost
  <2>5. QED
    BY <2>2, <2>3, <2>4 DEF WindowInv
<1>2. WindowInv /\ [LimiterNext]_limiterVars => WindowInv'
  <2> SUFFICES ASSUME WindowInv, [LimiterNext]_limiterVars PROVE WindowInv'
    OBVIOUS
  <2>1. CASE UNCHANGED <<hits, asked>> /\ clock' \in Int /\ clock' >= clock
    <3>1. WindowType'
      BY <2>1 DEF WindowInv, WindowType
    <3>2. WindowExact'
      BY <2>1 DEF WindowInv, WindowExact
    <3>3. NoneLost'
      <4> SUFFICES ASSUME NEW k \in Key, NEW c \in Int, c >= clock' - Minute
                   PROVE  Cardinality(HitsAfter(k, c)') = Cardinality(Through(k, c)')
        BY DEF NoneLost
      <4>1. c >= clock - Minute
        <5>1. Minute \in Int /\ clock \in Int
          BY LimiterAssumption DEF WindowInv, WindowType
        <5>2. clock' \in Int /\ clock' >= clock
          BY <2>1
        <5>3. \A x, y, z, w \in Int : y >= x /\ w >= y - z => w >= x - z
          OBVIOUS
        <5>4. QED
          BY <5>1, <5>2, <5>3
      <4>2. HitsAfter(k, c)' = HitsAfter(k, c) /\ Through(k, c)' = Through(k, c)
        BY <2>1 DEF HitsAfter, Through
      <4>3. QED
        BY <4>1, <4>2 DEF WindowInv, NoneLost
    <3>4. QED
      BY <3>1, <3>2, <3>3 DEF WindowInv
  <2>2. CASE PassTime
    <3>1. clock' = clock + 1 /\ clock \in Int /\ UNCHANGED <<hits, asked>>
      BY <2>2 DEF PassTime, WindowInv, WindowType
    <3>2. QED
      BY <2>1, <3>1
  <2>3. CASE \E k \in Key : Allow(k)
    BY <2>3, AllowKeeps
  <2>4. CASE UNCHANGED limiterVars
    <3>1. clock \in Int
      BY DEF WindowInv, WindowType
    <3>2. QED
      BY <2>1, <2>4, <3>1 DEF limiterVars
  <2>5. QED
    BY <2>2, <2>3, <2>4 DEF LimiterNext
<1>3. WindowInv => WindowExact
  BY DEF WindowInv
<1>4. QED
  BY <1>1, <1>2, <1>3, PTL DEF LimiterSpec

-------------------------------------------------------------------------------
\* Each part, used alone, behaves as specified by itself: what is proved of the parts holds
\* in every behaviour of Platform.
THEOREM PartsAlone == Spec => StoresSpec /\ CredentialSpec /\ LimiterSpec /\ DeploySpec /\ BootSpec
<1>1. Init => StoresInit /\ CredentialInit /\ LimiterInit /\ DeployInit /\ BootInit
  BY DEF Init
<1>2. [Next]_vars => /\ [StoresNext]_storeVars /\ [CredentialNext]_credentialVars
                     /\ [LimiterNext]_limiterVars /\ [DeployNext]_deployVars /\ [BootNext]_bootVars
  BY DEF Next, vars
<1>3. QED
  BY <1>1, <1>2, PTL DEF Spec, StoresSpec, CredentialSpec, LimiterSpec, DeploySpec, BootSpec
===============================================================================
