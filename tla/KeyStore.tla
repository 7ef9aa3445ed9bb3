------------------------------ MODULE KeyStore ------------------------------
(***************************************************************************)
(* The key operations of src/src/idb_helpers.c as one process runs them,   *)
(* on the default attribute ".value" kept in a file of the key's           *)
(* directory (STORE_IN_FILE).  Every call is one step.                     *)
(***************************************************************************)
EXTENDS KeyTree

CONSTANTS
  Keys,           \* the key paths the program uses
  Values,         \* the values it puts
  ValuesOf,       \* those it puts to each key
  NoFile,         \* a directory without a value file
  PageCounts,     \* the settings of IDBMaxPageCount
  FullProcesses   \* the settings of IDBPartitionFullProcess

ASSUME KeysAssumption    == Keys \subseteq KeyPaths
ASSUME ValuesAssumption  == /\ NoFile \notin Values
                            /\ ValuesOf \in [Keys -> SUBSET Values]
ASSUME OptionsAssumption == /\ PageCounts \subseteq Int
                            /\ FullProcesses \subseteq TIDBProcesses

VARIABLES
  fs,                       \* the directories, each with its value or NoFile
  IDBMaxPageCount,          \* global option: keys per directory, <= 0: no limit
  IDBPartitionFullProcess,  \* global option: what a put does without room
  last                      \* the last call and its result

options == <<IDBMaxPageCount, IDBPartitionFullProcess>>
vars    == <<fs, options, last>>

IDB_OK            == 0
IDB_ERR_PART_FULL == -100

Dirs == DOMAIN fs
Paged == IDBMaxPageCount > 0

----------------------------------------------------------------------------
(* What the read operations return.                                        *)

\* Mutant: an empty value instead of NULL.
GetDirValueEmpty(d) == IF d \in Dirs THEN fs[d] ELSE <<>>

GetDirValue(d) == IF d \in Dirs THEN fs[d] ELSE NoFile

\* The key's directory in the partitions.
Partitioned(K) == iIsKeyDirExists(Dirs, Front(K), Last(K))

\* Mutant: a plain directory hides the partitions even without a value.
iGetHidden(K) ==
  IF Plain(K) \in Dirs \/ ~Paged
    THEN GetDirValue(Plain(K))
    ELSE GetDirValue(Partitioned(K))

\* Its value: the unpartitioned directory first, then the partitions.
iGet(K) ==
  IF GetDirValue(Plain(K)) # NoFile \/ ~Paged
    THEN GetDirValue(Plain(K))
    ELSE GetDirValue(Partitioned(K))

iIsExists(K) ==
  \/ GetDirValue(Plain(K)) # NoFile
  \/ Paged /\ GetDirValue(Partitioned(K)) # NoFile

iKeyIsExists(K) == Plain(K) \in Dirs \/ (Paged /\ Partitioned(K) \in Dirs)

\* Mutant: the partitions are never consulted.
DeletePlacePlain(K) == Plain(K)

\* The directory a delete works on: once the unpartitioned directory is
\* there, the partitions are not consulted.
DeletePlace(K) ==
  IF Plain(K) \notin Dirs /\ Paged THEN Partitioned(K) ELSE Plain(K)

----------------------------------------------------------------------------
(* The state after a write.                                                *)

\* ForceDirectories, then SetDirValue.
PutAt(d, v) ==
  [x \in ForceDirectories(Dirs, d) |->
     IF x = d THEN v ELSE GetDirValue(x)]

PutPlace(K) ==
  IF Paged
    THEN iFindKeyDirToPut(Dirs, Front(K), Last(K),
                          IDBMaxPageCount, IDBPartitionFullProcess)
    ELSE Plain(K)

----------------------------------------------------------------------------
(* The operations.                                                         *)

iPut(K, v) ==
  LET d == PutPlace(K) IN
  /\ \/ /\ d = NoDir
        /\ last' = [op |-> "iPut", key |-> K, val |-> v,
                    ret |-> IDB_ERR_PART_FULL]
        /\ UNCHANGED fs
     \/ /\ d # NoDir
        /\ fs' = PutAt(d, v)
        /\ last' = [op |-> "iPut", key |-> K, val |-> v, ret |-> IDB_OK]
  /\ UNCHANGED options

\* iDelete removes the value file, of whichever directory it settles on.
iDelete(K) ==
  LET d == DeletePlace(K) IN
  /\ fs' = [x \in Dirs |-> IF x = d THEN NoFile ELSE fs[x]]
  /\ last' = [op |-> "iDelete", key |-> K, ret |-> GetDirValue(d) # NoFile]
  /\ UNCHANGED options

iKeyDelete(K) ==
  LET d == DeletePlace(K) IN
  /\ fs' = IF d \in Dirs THEN [x \in DeleteDir(Dirs, d) |-> fs[x]] ELSE fs
  /\ last' = [op |-> "iKeyDelete", key |-> K, ret |-> d \in Dirs]
  /\ UNCHANGED options

Reads(K) ==
  /\ \/ last' = [op |-> "iGet", key |-> K, ret |-> iGet(K)]
     \/ last' = [op |-> "iIsExists", key |-> K, ret |-> iIsExists(K)]
     \/ last' = [op |-> "iKeyIsExists", key |-> K, ret |-> iKeyIsExists(K)]
  /\ UNCHANGED <<fs, options>>

\* The host program assigns the global options at any time.
SetOptions(n, p) ==
  /\ <<n, p>> # options
  /\ IDBMaxPageCount' = n
  /\ IDBPartitionFullProcess' = p
  /\ last' = [op |-> "SetOptions"]
  /\ UNCHANGED fs

Init ==
  /\ fs \in {[d \in {} |-> NoFile], [d \in {Root} |-> NoFile]}
  /\ IDBMaxPageCount \in PageCounts
  /\ IDBPartitionFullProcess \in FullProcesses
  /\ last = [op |-> "none"]

Put     == \E K \in Keys : \E v \in ValuesOf[K] : iPut(K, v)
Read    == \E K \in Keys : Reads(K)
Delete  == \E K \in Keys : iDelete(K)
KeyDel  == \E K \in Keys : iKeyDelete(K)
Options == \E n \in PageCounts, p \in FullProcesses : SetOptions(n, p)

Next == Put \/ Read \/ Delete \/ KeyDel \/ Options
Spec == Init /\ [][Next]_vars

----------------------------------------------------------------------------
(* Properties.                                                             *)

\* Every variable holds a value of its type: directories are well formed,
\* values are put values, the options are settings of the program.
TypeOK ==
  /\ Dirs \subseteq DirIds
  /\ \A d \in Dirs : fs[d] \in Values \cup {NoFile}
  /\ IDBMaxPageCount \in PageCounts
  /\ IDBPartitionFullProcess \in FullProcesses

\* A directory never outlives the directories it is in: no sequence of puts
\* (mkdir -p) and key deletes (rm -r) leaves a partition level or a subkey
\* without its parents.
TreeClosed == \A d \in Dirs : Ancestors(d) \subseteq Dirs

SoundFullProcess == IDBPartitionFullProcess \in {dkIgnored, dkStopped}

\* The last call was a put that succeeded, and a get returns its value.
PutIsRead ==
  (last.op = "iPut" /\ last.ret = IDB_OK /\ SoundFullProcess)
    => iGet(last.key) = last.val

\* A get right after a successful put returns the value put, wherever the
\* put walk placed the key and however full the levels on its way are: the
\* lookup walk, which knows nothing of fullness, stops at the same place.
ReadYourWrites == [][PutIsRead']_vars

\* No key ever shows a value that was only put to another key: partition
\* levels, forced placements, old copies and changed options never alias
\* two keys.
NoForeignValue == \A K \in Keys : iGet(K) \in ValuesOf[K] \cup {NoFile}

\* A put leaves the value of every other key alone, although it may add
\* partition levels that lookups of the other keys then walk through.
PutFrame ==
  [][last'.op = "iPut" =>
       \A J \in Keys \ {last'.key} : iGet(J)' = iGet(J)]_vars

\* No key with the same parent has a longer name that begins like K's.
Unambiguous(K) ==
  ~\E J \in Keys : /\ Len(J) >= Len(K)
                   /\ SubSeq(J, 1, Len(K) - 1) = Front(K)
                   /\ IsStrictPrefix(Last(K), J[Len(K)])

DeletesBelow(K) == \A J \in Keys : ~IsPrefix(K, J) => iGet(J)' = iGet(J)

\* Deleting a key, or its value, leaves every other key but its subkeys
\* alone, if its name cannot be taken for a partition level.
DeleteFrame ==
  [][(last'.op \in {"iDelete", "iKeyDelete"} /\ Unambiguous(last'.key))
       => DeletesBelow(last'.key)]_vars

\* The same for every key: a delete takes the key and its subkeys only.
DeleteOnlySubkeys ==
  [][last'.op \in {"iDelete", "iKeyDelete"} => DeletesBelow(last'.key)]_vars

\* No directory is made in one that already holds IDBMaxPageCount keys, but
\* for two: a name of one character that is forced into a full level, and the
\* missing parents of a subkey, which are made without counting.
PageBound ==
  [][LET key == last'.key IN
     last'.op = "iPut" /\ Paged =>
       \A d \in {e \in Dirs' \ Dirs : e.name # <<>>} :
         \/ Cardinality(Page(Dirs', d.at, d.part)) <= IDBMaxPageCount
         \/ IDBPartitionFullProcess = dkIgnored /\ d = PutPlace(key) /\ Len(d.name) = 1
         \/ d.part = <<>> /\ IsStrictPrefix(Append(d.at, d.name), key)]_vars

Leaf(K) == ~\E S \in Keys : IsStrictPrefix(K, S)

\* A key without subkeys has at most one directory, partitioned or not.
NoDuplicateKey ==
  \A K \in {J \in Keys : Leaf(J)} :
  \A i, j \in 0..(Len(Last(K)) - 1) :
    {Place(Front(K), Last(K), i), Place(Front(K), Last(K), j)} \subseteq Dirs
      => i = j

\* After a delete that succeeded the key, or its value, does not exist, also
\* if its name cannot be taken for a partition level.
DeletedIsGone ==
  (last.op \in {"iDelete", "iKeyDelete"} /\ last.ret /\ Unambiguous(last.key))
    => /\ ~iIsExists(last.key)
       /\ last.op = "iKeyDelete" => ~iKeyIsExists(last.key)

----------------------------------------------------------------------------
(* Programs for which the store is what it looks like.                     *)

\* The options stay as they are, and no key is deleted from partitions.
SteadyNext == Put \/ Read \/ Delete \/ (~Paged /\ KeyDel)
SteadySpec == Init /\ [][SteadyNext]_vars

\* With partitions, no name can be taken for a partition level.
Clean == Paged => SoundFullProcess /\ \A K \in Keys : Unambiguous(K)

\* Besides, no value is deleted from a key with subkeys that may be in a
\* partition.
CarefulDelete(K) == (Paged => Leaf(K)) /\ iDelete(K)

CarefulInit == Init /\ Clean
CarefulNext ==
  Put \/ Read \/ (\E K \in Keys : CarefulDelete(K)) \/ (~Paged /\ KeyDel)
CarefulSpec == CarefulInit /\ [][CarefulNext]_vars

----------------------------------------------------------------------------
(* The promise of KVStore, read off the directories.                       *)

Promise == INSTANCE KVStore WITH
             keys <- {K \in Keys : iKeyIsExists(K)},
             kv   <- [K \in Keys |-> iGet(K)]

ImplementsKVStore == Promise!Spec
=============================================================================
