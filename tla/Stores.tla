-------------------------------- MODULE Stores --------------------------------
(***************************************************************************)
(* The in-memory collections of the host, each a map under the lock of its *)
(* store: the workspace (notes, todos, documents, vault, uploads, presets, *)
(* webhooks), the memory, the knowledge graph, generated documents,        *)
(* artifacts, agents and skills; and the backup, which hands the maps of   *)
(* the workspace to the JSON encoder and releases the lock.                *)
(*                                                                         *)
(* Ids are numbers: n > 0 is the n-th id of the collection's own form      *)
(* ("note_3", "mem_7"), 0 an id in a form of the caller's.  A record is    *)
(* the number of the request that wrote it.                                *)
(***************************************************************************)
EXTENDS Integers, FiniteSets

CONSTANTS
  Collection,  \* the collections that are looked at
  MaxWrites    \* bound on requests that write

VARIABLES
  store,   \* collection -> id -> the write that made its record, 0 if there is none
  seq,     \* counter -> the last number it has given
  writes,  \* requests that have written
  issued,  \* history: records put under an id made up for them that no request has named since
  backup   \* the backup request, and whether it has brought the process down

storeVars == <<store, seq, writes, issued, backup>>

\* The counter a collection takes its ids from: the workspace has one for all prefixes,
\* the graph one for nodes and edges.
Counter ==
  [c \in {"note", "todo", "doc", "vault", "upload", "preset", "webhook"} |-> "workspace"]

Shared == [c \in {"node", "edge"} |-> "graph"]

CounterOf(c) ==
  IF c \in DOMAIN Counter THEN Counter[c] ELSE IF c \in DOMAIN Shared THEN Shared[c] ELSE c

\* Collections whose records are written under the caller's id only (a digest, a plugin
\* id), and those in which every record gets a new id.
NamedOnly == {"artifact", "agent", "skill"}
IssuedOnly == {"upload", "memory", "generated"}
Deletable == {"note", "todo", "doc", "webhook"}

\* What the encoder reads through the store's own maps; all else is copied under a lock.
BackedUp == Collection \cap DOMAIN Counter

ASSUME CollectionAssumption ==
  /\ Collection \subseteq DOMAIN Counter \cup DOMAIN Shared \cup NamedOnly \cup IssuedOnly
  /\ MaxWrites \in Nat

Id == 0..MaxWrites
NoBackup ==
  [at |-> "idle", left |-> {}, now |-> "none", due |-> {}, room |-> 0, out |-> {}, stayed |-> {}]

StoresInit ==
  /\ store = [c \in Collection |-> [n \in Id |-> 0]]
  /\ seq = [k \in {CounterOf(c) : c \in Collection} |-> 0]
  /\ writes = 0
  /\ issued = {}
  /\ backup = NoBackup

Alive == backup.at # "crashed"
Present(c, n) == store[c][n] # 0

------------------------------------------------------------------------------
\* Go's runtime stops the process if it notices that a map is written while it is
\* iterated over; otherwise the iteration goes on, without the entries that are deleted.
Touch(c, gone) ==
  \/ backup' = [backup EXCEPT !.due = IF backup.now = c THEN @ \ gone ELSE @,
                              !.stayed = {r \in @ : ~ (r[1] = c /\ r[2] \in gone)}]
  \/ /\ backup.at = "encode"
     /\ backup.now = c
     /\ backup' = [backup EXCEPT !.at = "crashed"]

Write(c, n) ==
  /\ writes < MaxWrites
  /\ writes' = writes + 1
  /\ store' = [store EXCEPT ![c][n] = writes + 1]
  /\ Touch(c, {})

\* Mutant: the id is made from the number of records there are.
CountRecords(c) == Cardinality({n \in Id : Present(c, n)}) + 1

NextId(c) == seq[CounterOf(c)] + 1

\* An edge is kept only between nodes that are there.
Accepts(c) == c = "edge" => \E n \in Id : Present("node", n)

\* A record without an id is put.
Issue(c) ==
  /\ c \notin NamedOnly
  /\ Accepts(c)
  /\ NextId(c) \in Id
  /\ Write(c, NextId(c))
  /\ seq' = [seq EXCEPT ![CounterOf(c)] = NextId(c)]
  /\ issued' = issued \cup {<<c, NextId(c), writes + 1>>}

Unnamed(c, n) == {r \in issued : r[1] # c \/ r[2] # n}

\* A record is put under the id the request names, whatever is there: an update, a record
\* of the caller's own, or one whose id the store has yet to make up.
Name(c, n) ==
  /\ c \notin IssuedOnly
  /\ Accepts(c)
  /\ Write(c, n)
  /\ issued' = Unnamed(c, n)
  /\ UNCHANGED seq

Delete(c, n) ==
  /\ c \in Deletable
  /\ Present(c, n)
  /\ store' = [store EXCEPT ![c][n] = 0]
  /\ issued' = Unnamed(c, n)
  /\ Touch(c, {n})
  /\ UNCHANGED <<seq, writes>>

\* The file of an upload cannot be written: its id is used up.
FailUpload ==
  /\ "upload" \in Collection
  /\ NextId("upload") \in Id
  /\ seq' = [seq EXCEPT !["workspace"] = NextId("upload")]
  /\ UNCHANGED <<store, writes, issued, backup>>

------------------------------------------------------------------------------
\* Mutant: a collection is left out.
WithoutUploads == BackedUp \ {"upload"}

SnapshotMaps == BackedUp

\* Snapshot returns the maps themselves.
Snapshot ==
  /\ backup.at = "idle"
  /\ backup' = [backup EXCEPT
       !.at = "encode", !.left = SnapshotMaps,
       !.stayed = {r \in BackedUp \X Id \X (1..MaxWrites) : store[r[1]][r[2]] = r[3]}]
  /\ UNCHANGED <<store, seq, writes, issued>>

\* The encoder takes up the next collection and makes room for its records.
EncodeCollection(c) ==
  /\ backup.at = "encode"
  /\ backup.now = "none"
  /\ c \in backup.left
  /\ LET records == {n \in Id : Present(c, n)} IN
       backup' = [backup EXCEPT !.now = c, !.left = @ \ {c}, !.due = records,
                                !.room = Cardinality(records)]
  /\ UNCHANGED <<store, seq, writes, issued>>

\* The iteration comes to a record: to each that was there from its start, and it may come to
\* one that has been added since.  If there is no room left for it the request is aborted.
EncodeRecord(n) ==
  LET c == backup.now IN
  /\ backup.at = "encode"
  /\ c # "none"
  /\ Present(c, n)
  /\ \A s \in 1..MaxWrites : <<c, n, s>> \notin backup.out
  /\ backup' = IF backup.room = 0
               THEN [backup EXCEPT !.at = "aborted"]
               ELSE [backup EXCEPT !.due = @ \ {n}, !.room = @ - 1,
                                   !.out = @ \cup {<<c, n, store[c][n]>>}]
  /\ UNCHANGED <<store, seq, writes, issued>>

EndCollection ==
  /\ backup.at = "encode"
  /\ backup.now # "none"
  /\ backup.due = {}
  /\ backup' = [backup EXCEPT !.now = "none"]
  /\ UNCHANGED <<store, seq, writes, issued>>

EndBackup ==
  /\ backup.at = "encode"
  /\ backup.now = "none"
  /\ backup.left = {}
  /\ backup' = [backup EXCEPT !.at = "done"]
  /\ UNCHANGED <<store, seq, writes, issued>>

------------------------------------------------------------------------------
\* Requests to the host API write to every collection but the memory.
ApiRequest ==
  \/ \E c \in Collection \ {"memory"} :
       \/ Issue(c)
       \/ \E n \in Id : Name(c, n) \/ Delete(c, n)
  \/ FailUpload

\* The tools of agents write some, and take no id for the vault and the memory.
ToolCall ==
  \E c \in Collection \cap {"note", "todo", "doc", "vault", "memory"} :
    \/ Issue(c)
    \/ c \notin {"vault", "memory"} /\ \E n \in Id : Name(c, n)

Backup ==
  \/ Snapshot
  \/ \E c \in Collection : EncodeCollection(c)
  \/ \E n \in Id : EncodeRecord(n)
  \/ EndCollection
  \/ EndBackup

StoresNext == Alive /\ (ApiRequest \/ ToolCall \/ Backup)

StoresSpec == StoresInit /\ [][StoresNext]_storeVars
------------------------------------------------------------------------------
StoresTypeOK ==
  /\ store \in [Collection -> [Id -> 0..MaxWrites]]
  /\ seq \in [{CounterOf(c) : c \in Collection} -> Id]
  /\ writes \in 0..MaxWrites
  /\ issued \subseteq Collection \X Id \X (1..MaxWrites)
  /\ backup \in [at : {"idle", "encode", "done", "aborted", "crashed"}, left : SUBSET Collection,
                 now : Collection \cup {"none"}, due : SUBSET Id,
                 room : Nat, out : SUBSET (Collection \X Id \X (1..MaxWrites)),
                 stayed : SUBSET (Collection \X Id \X (1..MaxWrites))]

\* A record whose id was made up for it is there, as it was written, until a request names
\* it: nothing that is put without an id replaces it, whatever is deleted, refused or put
\* into the other collections of the same counter (nextID and the Put functions).
IssuedRecordsStay ==
  \A r \in issued : store[r[1]][r[2]] = r[3]

\* A record that is there from the moment a backup is asked for until it has been written
\* out is in it, as it was then or as it was updated since (apiBackup over Snapshot).
BackupHoldsWhatStayed ==
  backup.at = "done" =>
    \A r \in backup.stayed : \E w \in backup.out : w[1] = r[1] /\ w[2] = r[2] /\ w[3] >= r[3]
================================================================================
