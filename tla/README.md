# iDB in TLA+

This directory models iDB (`src/src`), a hierarchical key/value store that
keeps every key as a directory of the file system. TLC checks the models on
small instances; TLAPS proves theorems about them for every value of the
constants. The modules follow the C sources; each definition is tied to the
lines it stands for in `PROJECT.json` ("map").

## How iDB works

A key `a/b/c` is the directory `a/b/c`, its value the file `.value` in it, any
other attribute another dot file (or an extended attribute). There is no index
and no lock: the directory tree is the whole state, and "use processes only"
(`todo.md:583-584`) is the way to run concurrently.

A directory with many entries is slow, so a store may set `IDBMaxPageCount`.
When a parent already holds that many keys, a put moves on into a *partition
level* named by the first character of the key, `.c` for `cygo1`, then `.c/.y`
and so on, and the rest of the name (`go1`) becomes the directory. Where a key
lives therefore depends on how full each directory was when the key was put.
Lookups know nothing of fullness; they walk down the partition levels until
they meet the rest of the name. Everything hard in this code follows from
these two walks having to agree.

## Components

| Component | State it keeps | Operations | What makes it correct |
|---|---|---|---|
| Key tree: placement and lookup walks (`idb_helpers.c:266-425`, `isdk_utils.c`) | the directories | `iFindKeyDirToPut`, `iIsKeyDirExists`, `iSubkeyCount`, `ForceDirectories`, `DeleteDir` | the lookup ends where the put went; distinct keys never share a directory; parents exist |
| Key operations (`idb_helpers.c:457-729`) | value files; the global options `IDBMaxPageCount`, `IDBPartitionFullProcess` | `iPut`, `iGet`, `iIsExists`, `iKeyIsExists`, `iDelete`, `iKeyDelete` | a put is read back; a call touches its own key (a delete: and the subkeys); the page limit holds; deleted means gone |
| Concurrent processes | the same tree, seen through system calls | the same, interleaved, with crashes; recursive deletes entry by entry | reads show only bytes put to the key; what nobody disturbs works; acknowledged puts stay readable; overshoot of a page is bounded; calls return |
| Subkey listing (`idb_helpers.c:820-1020`) | walk record: counts, skip, prefix | `iSubkeyWalk`, `iSubkeys`, `iSubkeyTotal` | each key listed once with its full name; pages are disjoint and cover the list |
| Counters (`idb_helpers.c:126-155, 510-580`) | number as text in a file; `errno` | `iGetInt`, `iPutInt`, `iIncrBy`, `IncrByDirValue`, `iIncrByInFile` | read gives the number put; increments may get lost, but a counter never runs ahead |
| Two-store attributes (`idb_helpers.c:157-265`, `isdk_xattr.c`) | file and extended attribute | `_iPut`, `_iGet`, `_AttrIsExists`, `_DeleleAttr` | an undisturbed call answers by what was written last, on every platform; a racing read returns what somebody put |
| Database handle (`idb.c`) | `opened`, `path`; the working directory of the process | `iDB_New/Open/SetOpened/Close/Free`, string calls | an open handle answers from the store opened last; closed handles refuse |
| Aliases (`idb_helpers.c:740-800`) | symbolic links | `iKeyAlias`, `GetRelativePath` | the link resolves to its key |
| Directory utilities (`isdk_utils.c`) | the file tree, with links | `ForceDirectories`, `DeleteDir`, `MoveDir`, `WalkDir`, `CountDir`, `ListDir`, `FTSWalkDir`, ... | all of them tell the same of one tree; a delete stays below its path |
| URL coding, texts (`isdk_utils.c`, `isdk_string.c`) | a buffer | `UrlEncode`, `UrlDecode`, comparing, trimming, replacing | decode inverts encode; comparisons agree with each other |
| Dynamic strings and arrays, index file header, powers, benchmark, bundled libraries | none of their own | | not modelled, see the end |

They interact by plain calls inside a process, and through the directory tree
between processes. The listing calls back into its caller for every key, and
the options are global variables that the host program may assign at any time.

Hard behaviours, with their lines, are listed under "hazards" in
`PROJECT.json`: two walks over a tree that filled and emptied in between,
copies of one key at several levels, names that are leading parts of other
names, options changed between calls, count-then-create without a lock, the
truncating open before the write, crashes between system calls, an `errno`
that an earlier call has left, two halves of an attribute of which one fails,
links that lead nowhere or back.

## Modules

| Module | Models | Checked by | 
|---|---|---|
| `KeyTree` | the tree as a set of directories, the two walks, `mkdir -p`, `rm -r`, as operators without state | through the modules below |
| `KVStore` | abstract: what a key/value store with subkeys promises; no directories | as the property `ImplementsKVStore` |
| `KeyStore` | every key operation as one atomic step of one process | `MCKeyStore` |
| `StoreProcs` | several processes, one system call per step, crashes | `MCStoreProcs` |
| `SubkeyList` | listing and counting subkeys, on the trees `KeyStore` makes | `MCSubkeyList` |
| `AttrProcs` | the attributes of one key, in files, extended attributes or both, and counters; several processes, one system call per step, `errno` | `MCAttrProcs` |
| `FileTree` | the file system with links, and the functions that make, remove, list and name parts of it, as operators | through `Library` |
| `Texts` | the text functions and URL coding, as operators | through `Library` |
| `Library` | one process that uses all of these, and the database handles | `MCLibrary` |
| `KeyTree_proofs` | theorems about the two walks and `mkdir -p` | `tlapm` |
| `KeyStore_proofs`, `KeyPrograms_proofs` | theorems about `KeyStore`; the refinement of `KVStore` | `tlapm` |
| `StoreProcs_proofs`, `StoreAnswers_proofs` | theorems about `StoreProcs` | `tlapm` |
| `AttrProcs_proofs`, `AttrAnswers_proofs`, `AttrCounts_proofs` | theorems about `AttrProcs` | `tlapm` |

**KeyTree.** A directory is a record: `at`, the key path of the parent key;
`part`, the characters of the partition levels below it; `name`, the rest of
the name (empty: the directory is a partition level). `.c/.y/go1` below `a/b`
is `[at |-> <<"a","b">>, part |-> <<"c","y">>, name |-> <<"g","o","1">>]`. A
tree is a set of these. Each walk is a loop over the characters of the name
that leaves at the first position with some property; it is written as the
set of positions where it would leave (`PutLevels`, `LookupEnds`) and the
minimum of that set. Subkeys are created below the unpartitioned path of
their parent (`sdsJoinPathLen`), so `at` is a plain key path. Left out: names
that begin with a dot and names that are not UTF-8 (the walks return NULL).

**KeyStore.** `fs` maps each directory to its value or `NoFile`; `last` is the
last call with its result. `iPut`, `iDelete`,
`iKeyDelete` and `Reads` (three read calls) are the operations;
`SetOptions` is the host program assigning the global options. The module has
the default attribute in a file (`STORE_IN_FILE`).

**SubkeyList.** The recursive walk of `_iSubkeyWalk`, with the record it passes
along: the list, the keys still to skip, the count still wanted (an unsigned
number of `SizeBits` bits that wraps when there is no limit), and the tree,
which the walk itself changes when it removes a duplicate. `readdir` may return
entries in any order; the order is an argument. Entries were read when the
directory was opened (one `getdents` for a directory of this size), so a loop
goes on after its directory was deleted. The actions are those of `KeyStore`
that make or remove directories, the listings, and the assignment of
`IDBDuplicationKeyProcess`. `RECURSIVE` operators keep this module out of
TLAPS' reach; it is model-checked only.

**StoreProcs.** Each process is idle or inside a call; `pc` names the next
system call. Files have inodes, so a reader that has a file open keeps reading
the old one after an unlink. The value is truncated by `open` and written by
`write`; a get asks for the size with `lseek` and reads later. `iKeyDelete`
reads a directory, in any order, and then deals with what it has seen; `mkdir`
fails where a parent is gone again, `rmdir` where something has come. A
process may die between any two calls (`Crash`). No name is a leading part of
another below the same parent (KeyStore has that case). Two atomicity
assumptions: counting a directory (opendir, readdir, closedir) is one step,
and so is the stat-and-mkdir pair of `do_mkdir`, where EEXIST counts as
success. Before it counts the parent a put asks whether that is there
(`StatParent`); a directory that has gone by the time it is counted is full,
for the -1 of the count is handed on as a `size_t` (`HasRoom`). Left out: `fts` may take a directory that has just been made for a
file, by the link count of its parent; the delete then fails as it does when
`rmdir` is refused. Two bounds: the calls of a program, and `MaxInodes` (a file
is made only while an inode is left, `FreshLeft`). A program (`Programs`) says which process makes which
calls on which keys; TLC starts from every program of the set. What calls
overlap is history: `alone` and `kept` of a call, `acked` of a key.

**AttrProcs.** One key, its directory at a fixed place that a walk finds or a
put makes, and its attributes: objects of a file or an extended attribute
(`Stored`), each with an inode. The four platforms differ in what an extended
attribute is: replaced and read in one call each on Linux and Mac OS (a value
that has grown since its size was asked for is an error), cut to the size on
FreeBSD, a file that is truncated and written on Solaris. A call names the
stores it works on; the variants `...InFile` and `...InXattr` are the general
call with one store, and differ in what they do to `errno`, which every process
keeps from call to call. `Write` and `SetXattr` may fail (`faults`). A row of
`stat` calls is one step, as directories are only made in this module. A new
file or attribute takes a free inode of 1..`MaxInodes`; that one is left
(`FreshLeft`) is the bound of the actions that make one.
Texts are short sequences of characters, and `Strtoll` and `Decimal`
convert them as the C library does, digit by digit (recursive functions, so that
the proofs can reason about them) and up to the nineteen digits of a `long
long`. Numbers are integers: that a sum overflows 64 bits, which C leaves
undefined, is not modelled.

**FileTree, Texts, Library.** A file tree maps paths to directories, files
with their content, and links with their text; `Resolve` is the operating
system's way along a path. Everything the library does to a tree is an operator
that returns the new tree and the result, written over `stat`, `lstat` and
`Resolve`. `DeleteDir` and `FTSWalkDir` go, node by node, through what
`fts_read` returns (`Visit`), up to the first failure. Permissions, times and
the sort order of listings are left out, and `readdir` gives entries in one
order (in `SubkeyList` it is free). `FTSWalkDir` looks at `errno` when its loop
has ended: a complete walk has made it 0, a walk that was stopped before its end
leaves what was there before, an argument of the operator. Numbers with units
are scaled: `UnitBits` (4) stands for the ten bits from one unit to the next and
`IntBits` (27) for the 63 of an `int64_t`, so that the limits are where they
are in the code, at 8E.

In `Library`
one process makes the calls of a program: it changes the tree, opens and uses
handles, which all share the working directory `cwd`, and works on a
`buffer`. Partitions are off here. `iDB_New` leaves `partitionFullProcess` as
`malloc` gave it, and `iDB_Subkeys` passes it on as the way to process
duplicates: the model chooses, once per handle, whether it is a value of the
enumeration, and lists nothing if not. An increment on an open handle takes the
length of a path that is `NULL`, and an alias with a separator at its end can
make `GetRelativePath` count below zero: `alive` records both. `RECURSIVE`
operators keep these modules out of TLAPS' reach.

## Runs

| Run | Shows | Bounds |
|---|---|---|
| `store_any` | Every call in every order, options changing in between: `ReadYourWrites`, `NoForeignValue`, `PutFrame`, `DeleteFrame` (names that are not leading parts), `TreeClosed`, `PageBound` (every directory a put makes, but for the two kinds the code makes without counting: missing parents, and names of one character that `dkIgnored` forces into a full level) | names of 1-3 characters that are leading parts of each other, one with a subkey; page counts 0, 1, 2; `dkIgnored`, `dkStopped`; two values |
| `store_programs` | Careful programs (`CarefulSpec`): the options stay, and with partitions no name is a leading part of another, no key directory is deleted and no value of a key with subkeys. The tree implements `KVStore` for them (`ImplementsKVStore`), and a key has one directory (`NoDuplicateKey`) | four keys, two of them with a common first character, one a subkey; page count 0, 1, 2 |
| `list_any` | Listings of every tree that puts and deletes leave: what is listed is what lookups find (`ListAgreesWithLookup`), copies are found and counted (`StoppedFindsDuplicates`, `TotalCountsCopies`, where no level of the pattern is missing), pages are slices while there are no levels, removal of duplicates leaves no orphans | five keys, one of them a subkey; six argument tuples; two orders |
| `procs_safe` | Seven programs under all interleavings: two processes doing everything to one key beside another; writers competing for one level; a private key in shared levels; acknowledged puts; a reader beside a writer; a key deleted with its subkeys while others put and get these; a key that gets a subkey while it lives in a level | 2-3 processes, 2-3 calls each, at most one crash, one key per page |
| `procs_live` | Each call returns | two processes, two calls each of every kind on two keys of one level, one crash; two that put below a key and delete it |
| `attr_any` | Ten programs: undisturbed calls answer by the last write on every platform (`QuietAnswers`), a racing read of an extended attribute returns what somebody put (`XattrProvenance`), a counter never runs ahead of its increments, and an increment counts where the write before it has cleared `errno` (`RewrittenCounterCounts`) | one or two processes, 2-4 calls, at most one crash or failed write; Linux, FreeBSD, Solaris, Mac OS; the directory in its parent or 1-2 levels down, partitions on and off; six inodes |
| `library_any` | Four programs. Trees: all listing functions tell the same of every tree (`ListAgrees`; `FtsAgrees`: a logical walk fails exactly when links lead back), `ForceMakes`, `DeleteStaysBelow`. Aliases: `AliasReachesKey`, `AliasReturns` (which aliases do not come back). Handles: `AnswersFromLastOpened`. Texts: `UrlRoundTrip`, `CodingBounds`, `ComparisonsAgree` | three calls on trees of two names and links, five option sets, pages of 0-2; two aliases of every shape in a tree three deep; eight calls on two handles and three paths; all texts of two of seven bytes |
| `store_wipe` | *violated*: a delete takes only the key and its subkeys | |
| `store_again` | *violated*: what was deleted does not exist | |
| `list_fixed` | *violated*: a listing makes no key disappear | |
| `procs_hidden` | *violated*: an acknowledged put stays readable | names of three characters |
| `attr_counter` | *violated*: a number that was put is read | one process, four calls |

The bounds reach the interesting cases. With one key per page the second key
already goes to a partition level and a third one to the level below; names of
three characters have two levels, so a walk can stop too early, too late, or
at the last character, which is never a level of its own. `a`, `ac`, `abc`
put a name where another one has its level. Two values tell an old copy from a
new one. Three processes are needed for a count to be overtaken by a writer of
another key while a third one, or the same key's second writer, walks.

`store_any`, `store_programs`, and the runs of `SubkeyList` and `Library` but
`list_fixed` use a view without `last`: every property of these runs reads `last'` in the step that sets it, or
at an end, so states that differ only in it have the same future. The view
of `procs_safe` keeps `last` for the calls the properties ask about, and leaves
out what an unlinked and closed file held. The values of a run are
marked with the key they are put to (`ValuesOf`), which shows a value under
another key without a history variable; the code never looks into a value.
Deadlock is not checked where
programs stop after their calls: in the runs of `StoreProcs`, `AttrProcs` and
`Library`.

Fairness (`FairSpec`) is weak fairness of `Step(p)`: the operating system
schedules a process that is inside a call again. Nothing is assumed of
`Start` (a program need not call) or of `Crash`.

## What the violated properties say

- *A partition level passes for a key.* After the last character of a name
  the rest is empty and `<level>/` is the level itself, so `iIsKeyDirExists`
  returns a level made for longer names. With one key per page, after putting
  `b` and `ac`, `iKeyIsExists("a")` is 1, and `iKeyDelete("a")` removes `ac`.
- *Deleted but not gone.* A put stops at the first level with room before it
  looks deeper, and a subkey makes an unpartitioned copy of its parent. A
  delete works on one directory; the reads find the other.
- *Removing a duplicate removes its neighbours.* `_iSubkeysWalker` deletes the
  directory being walked instead of the duplicate in it. With one key per page,
  `b`, `ac`, `ad` and `ac/s` put, a listing with `dkFixed` removes `.a`, and `ad`
  with it.
- *A hidden value.* A writer that chose a level before another process filled
  it makes its directory above the one where a second writer of the same key
  has meanwhile stored the value; lookups stop at the empty one.
- *A number that reads as 0.* `iGetInt` throws the number away when `errno` is
  not 0, and `iGet` clears `errno` only on its way through the partitions. The
  first `iPutInt` of a key leaves ENOENT, so the next `iGetInt` of the process
  returns 0, and `iIncr` starts the counter again.

All but *a hidden value* are sequences of ordinary calls of one process, and
each of those was also reproduced with the C code. The passing properties next
to them say how far the promise does hold: `DeleteFrame` for keys whose name is
not a leading part of another, `NoDuplicateKey` and `ImplementsKVStore` for the
programs above, `AckedStaysReadable` for names of two characters or a single
writer, `QuietGets` and `QuietDeletes` for calls that nobody disturbs,
`RewrittenCounterCounts` for increments after a write that has cleared `errno`.

Four more places do less than the headers promise. The model has them as the
code does, and the properties leave them out or say where they are, without a
run that shows the promise broken; the first two and the last were seen with
the C code as they are, the third by setting the field by hand.

- *A total with an error in it* (`idb_helpers.c:907`; `idb_helpers.h:156` "all
  keys count(include partition)"). The walk of the pattern `a*` goes to the level
  `.a` whether it exists or not, and the -1 of the directory that cannot be
  opened is added to the keys counted before: with `ad` in an empty store,
  `iSubkeyTotal` is 0. `TotalCountsCopies` is about patterns whose levels exist.
- *An alias without end* (`idb_helpers.c:776`; `idb_helpers.h:141` "a zero value
  is returned. else the error code"). `GetRelativePath` takes one off the
  separators left of an alias that ends in one. If key and alias have all parts
  of the alias in common, none is left, and the loop counts down from -1.
  `AliasReturns` says that these are all such aliases.
- *A handle that lists nothing* (`idb.c:235`; `idb_helpers.h:150` "aPattern = NULL
  means match all subkeys"). `iDB_New` leaves `partitionFullProcess` unset, and
  `_iSubkeysWalker` has no case for a value outside the enumeration: it appends
  no name. `AnswersFromLastOpened` asks for all subkeys only where the field is
  of the enumeration.
- *Pages that are the whole* (`idb.c:234`; the page parameters at `idb.h:131`).
  `maxPageSize` is 0 from `iDB_New` on, `iDB_Subkeys` cuts every page size to it,
  and a size of 0 means all. `AnswersFromLastOpened` says only that a page has
  subkeys of the store.

`QuietAnswers` has the digits of `IncrByDirValue` appended to the old ones, which is
what `idb_helpers.c` does and hardly what a caller wants.

## Proofs

TLC checks a few keys and processes; the theorems hold for every set of
characters, keys, values and processes, and for trees of any size. The lemmas
are in the modules of the theorems, each with a comment on what it says.

### What is assumed of the constants

Every assumption is an `ASSUME` of the modelling module, which TLC evaluates on
every run, or a hypothesis of the theorem:

- Keys are non-empty sequences of non-empty names (`KeysAssumption`); `NoFile`
  is not a value, `NoDir` not a directory; page counts are integers,
  full-processing settings one of the four.
- `SoundSettings` (a hypothesis of two theorems): only `dkIgnored` and
  `dkStopped` are assigned. With the other two a put into a full tree stores the
  value in a partition level, and the theorems are false.
- `StoreProcs`: finitely many processes; values are sequences of bytes; the
  parent of a key is a key; no name is a leading part of another below the same
  parent (`NamesAssumption`); a page holds at least one key; `NULL` and the
  marks of the history (`Several`, `Unknown`) are different and no values
  (`MarksAssumption`). The number of inodes is finite and arbitrary.
- `AttrProcs`: programs are well formed (`ProgramsAssumption`: calls of the ten
  kinds with an argument of the kind's type, platforms of the four, no stored
  attribute without the directory, partition levels only with paging, first
  texts that fit the inodes); the number
  of inodes is a natural number (`InodesAssumption`). Processes, names, texts,
  levels and bounds are arbitrary.
- `OneStore` (a hypothesis of `OneStoreAnswers` and `IncrementsCount`): every call of a program works on
  files or on extended attributes, not on both and not on none. `NoTexts` (the same): `NULL`
  and `Unknown` are different and neither is a text, as the model values of the
  runs are.
- `GoodNames` (a hypothesis of `IncrementsCount`): no attribute has an empty
  name among the extended attributes. Linux refuses such a name, and the error
  it leaves in `errno` is what the next increment would read.
- `CountingOnly` (the hypothesis of `CountersNeverAhead`): a program marked
  `counts` only reads, checks, deletes and increments extended attributes, the
  increments are natural numbers, and the attributes start with numbers up to
  `start`. The counting program of `attrs_any` is one. `counts` is a mark of
  the model that says where the property speaks; a put of any number, or a
  decrement that another process misses, makes a counter larger than that sum
  without any fault in the code.

### One process (`KeyTree_proofs`, `KeyStore_proofs`)

- `TypeCorrect` (`Spec => []TypeOK`). The invariant is inductive as it stands.
  The put is the hard case: `PutPlace` must be a directory (`PutPlaceType`),
  which needs that the minimum of `PutLevels` is a position in the name
  (`MinOfNats`), and `mkdir -p` adds well-formed directories only.
- `LookupFindsPut`. If the put walk stopped at position `i` and no copy of the
  key lies before `i`, then in the tree that `mkdir -p` leaves, the lookup
  stops at `i` too. Every level before `i` is an ancestor of the new directory,
  so the lookup cannot end early for a missing level; no new directory is a
  copy of the key before `i` (`NoNewCopyBefore`); and at `i` the directory is there.
- `ReadsOwnWrites` (`Spec => ReadYourWrites`). One step per action; only the
  put needs more than its definition. There `FindKeyDirToPut` gives the
  position with the hypothesis of `LookupFindsPut`, for `dkIgnored` and
  `dkStopped`; with `dkFixed` and `dkReserved` the code falls through to the
  level itself, and the property excludes them (`SoundFullProcess`).
- `ParentsExist` (`Spec => []TreeClosed`). The invariant is `TreeInv`: besides
  the types, the tree is closed and finite, and every directory is a place of
  some key or above one (`DirsMade`); the proofs about counting and about
  careful programs need the last two parts. A delete keeps the tree closed because what
  is below something below the deleted directory is below it too.
- `ValuesStayHome` (`Spec => []NoForeignValue`), `PutsKeepOthers` (`Spec =>
  PutFrame`), both with `SoundSettings`. `NoForeignValue` speaks of what lookups
  find and is not inductive; `ValuesOwned` speaks of every directory, reachable
  by a lookup or not: what it holds was put to the key that the directory
  spells when its levels and its name are joined (`Owner`). Every place of a
  key, also the level a lookup may end at, spells that key and no other.
- `DeletesKeepOthers` (`Spec => DeleteFrame`). For a name that cannot be taken
  for a level, everything removed is the key's directory or below it, and the
  lookup of any other key ends where it did before.
- `PagesBounded` (`Spec => PageBound`). A new directory of the key is where the
  walk has counted room, or one of the two excepted kinds; the page then grows
  by this directory alone.

### Careful programs (`KeyPrograms_proofs`)

- `OneDirectory` (`SteadySpec => []NoDuplicateKey`). `SteadyInv` adds
  `LevelsFull` to `TreeInv`: while no directory is removed, whatever lies inside
  a partition level proves that the levels before it are full, so that no later
  put of the key stops earlier. `NoDuplicateKey` alone is not inductive, for
  it does not say why the second put walks as far as the first.
- `StoreImplementsKVStore` (`CarefulSpec => ImplementsKVStore`). The mapping
  reads the keys and values off the directories, as lookups see them. The
  invariant is `CarefulInv`, which is `SteadyInv` and that the options are those
  of a careful program; then one lemma per operation: a put changes what
  lookups see of its key and of the parents it makes, a delete what they see of
  its key (and the keys below), a read nothing.

### Many processes (`StoreProcs_proofs`, `StoreAnswers_proofs`)

- `ProcsTypeCorrect` (`Spec => []TypeOK`). The invariant `Typed` says of every
  process what its next system call tells about it (`CallOK`): which operation it
  is in, how far its walk can be, that `place` is the place of its key at that
  level, whether it has a file open, that its value was recorded as tried. Of
  the tree it says that a partition level is shorter than the name of some key that goes
  through it; that is what makes the parents of a `mkdir` directories of the
  tree and not names of other keys. It is proved with one lemma per action.
- `ReadsOwnBytes` (`Spec => []ReadProvenance`). `Provenance`: an inode belongs to
  one key only (`OneHolder`), counting the directories that name it and the
  calls that have it open, and its bytes come from values put to that key,
  each at its position (`Contents`). Unlinking and reusing an inode are the
  cases to look at: a reader that still has the file open keeps the inode from
  being used for another key.
- `SingleWriterReads` (`Spec => []ReadsPrefix`). `WholeValues`: the files of a key
  with one writer hold nothing or a whole value, and nothing while that writer
  is between `open` and `write`. A read that is shorter than the value (the size
  was asked for before) is a prefix of it.
- `ProcsBoundPages` (`Spec => []PageBound`). The pages alone are not inductive:
  between counting and `mkdir`, room that was seen is no longer there. `PagesOK`
  counts a page together with the places that puts have chosen and not made yet
  (`Reserved`); at most one per writer, so that the last writer to count, which sees
  room, brings the sum to the limit plus the other writers. A name of one
  character with `dkIgnored` and the parents of subkeys are excepted as in the
  property. A level that was removed before it is counted is taken for full: a
  place is chosen only in a directory that is there when it is counted.
- `UndisturbedGetsAnswer` (`Spec => []QuietGets`), `UndisturbedDeletesSucceed`
  (`Spec => []QuietDeletes`) and `AckedStays` (`Spec => []AckedStaysReadable`) rest on
  one invariant, `Whole`. The properties speak of the end of a call; `Whole` says
  what holds in the middle of each. It has three parts:
  - `Provenanced`, from the theorems above: types, closed tree, one key per inode.
  - `Promises`: a call that is still `alone` shares its key with no call that changes
    it (`Heard`); a key under a delete is `Unknown` (`Removed`); where a
    value is known, every put under way will not be undone (`AllKept`); the only
    writer of a key is disturbed by deletes only (`SoleAlone`).
  - `Known`: for a key, `KeyKnows` says that the value the last put left is where a
    lookup ends (`Written`), unless a put is between `mkdir` and its end; and
    that after a success there is a file at some level, whatever else happens.
    `Written` is `Passed` at the level: no value at level 0 and no directory of the
    key at the levels before. For a call, `PutKnows` says that the walk has passed
    no directory of the key and that the opened file is empty until it
    is written; `GetKnows` that the value is further on or open;
    `DeleteKnows` that the directory is further on or that all left on the list
    can be done (`Agenda`: everything on it is there, nothing comes twice, and each
    `rmdir` comes after all that is in its directory).
  None is inductive alone: a get relies on what the finished put has left
  (`KeyKnows`), that on what the put knew of its walk (`PutKnows`), and both on
  what other calls cannot do. The last is the long part. A recursive delete
  elsewhere removes only what is below its own key, a `mkdir` on the way to
  another key makes no directory of this one, and a level on the way to a
  directory that is there cannot go, for it is not empty (`LevelsOfSpot`). Below
  a key whose delete nobody disturbs nothing comes, though directories above it
  may. While several put a longer name at once, one that chose its level
  early may make a directory of the key before the one with the value, and lookups
  stop there (`procs_hidden`); hence the only writer or a short name in
  the property.

### Attributes (`AttrProcs_proofs`, `AttrAnswers_proofs`, `AttrCounts_proofs`)

- `AttrsTypeCorrect` (`Spec => []TypeOK`) and `XattrsReadWhole` (`Spec =>
  []XattrProvenance`), from one invariant `Inv`. The property speaks of the call
  that has returned only, and a get takes its text after the size, so `Inv` says
  what an extended attribute holds at every moment (`TextsOK`): where it is set
  in one call, a text that was recorded as tried. That is kept because no call
  has the inode of an extended attribute open there (`FdsOK`: a write to a file
  cannot reach it, even where an inode is used again), because stored
  attributes have distinct inodes (`StateOK`), and because a put records its
  text before it sets it (`Fits`, which says of every call what its next system
  call tells about it). On Solaris an attribute is truncated and written through
  an open file, `TextsOK` is false, and the property excludes it.
- The proof has one lemma per action. What a call does when it comes to an end
  or goes on to another store is the same in most of them, and is proved once
  (`Ends`, `EndsWell`, `EndsClosed`).
- `OneStoreAnswers` (`Spec => []QuietAnswers`, for programs with one store per
  call). `QInv` has five parts. `SlotsOK`: what the last write has left (`acked`)
  is what the attribute holds (`Holds`), except while a writer is between making
  it empty and writing it, or overlaps another one; then `acked` is `Unknown` when
  they are done. `AloneOK`: a call that is still alone shares its attribute with no
  writer. `Facts` says, for each system call a call can be at, what a call that is
  alone knows: that the open file is the attribute's own and (writers) empty, that
  the length asked for is the length of the text, that the directory
  at home is the only place left. `Shape`: a call of one store stays with its system
  calls. With `Inv`, whose distinct inodes say that writing one attribute leaves
  the others, this is inductive; `OthersKeep` and `FrameKeeps` prove once that a
  step on one attribute keeps what all other calls know, and `EndsKeepQ` that it
  is enough to look at how a step ends. An increment in place (`WriteRWQ`) and the
  writes at the end and at the start of a file are the cases with arithmetic
  (`WriteAtEnd`, `WriteAtStart`).
- `IncrementsCount` (`Spec => []RewrittenCounterCounts`, for the same programs). An
  increment reads the number and ignores it if `errno` is set, which nobody has
  cleared for it. `CInv` follows `errno` from call to call: a put that has found
  its directory has it clean until it returns (`CallC`), between two calls of a
  process nothing touches it (`CleanC`), and the increment that comes next reads
  with it clean, in the key's directory at once or after a walk that clears it. From
  the read on it carries the sum (`Counted`). What it reads is the number of the last
  write by `QInv`; that no other writer changes the number before it returns is
  `AloneOK`. The value of a text is never computed: both sides of the property
  convert the same text.
- `CountersNeverAhead` (`Spec => []CounterNeverAhead`, for programs that count
  only). The property bounds what is stored, and is not inductive: an increment
  reads long before it stores, and in between other processes store, delete and
  die. `NInv` finds room for all of them: there is a number `n` that every stored
  number and every sum a process is about to store stays within (`Below`), and `n`
  plus what the processes have still to add is the start plus all
  increments begun (`Ledger`). A process that has read takes its addend out of
  the ledger and raises `n` by it; one that dies, or loses its increment, does the
  same and stores nothing. The ledger is a sum over the set of processes, known only
  by what one process more adds to it (`Adds`); `LedgerMoves` says that a step of
  one process changes it by what that process has to add before and after.
  What a process reads may be shorter than what is stored (it asked for the
  size before): `NumberReadsNoMore` proves that the beginning of a number's text
  reads as no more than the number. That is arithmetic digit by digit over the two
  recursive functions; their values exist (`RestExists`, `NumberExists`) because a
  least number without one (`LeastOfNats`) would have a predecessor with one, which
  takes no rule with an operator as a parameter.

### What stays with TLC, and why

- `EveryCallReturns` is liveness under fairness.
- `SubkeyList`, `Library`, `FileTree` and `Texts` use `RECURSIVE` operators, or are
  reached through them.
- `QuietAnswers` for calls that use both stores: there a call has two writes, of
  which one may fail, and the run checks it.
- The violated properties have counterexamples.

## Plan

Every component with a state of its own is modelled, and every safety invariant
of `KeyStore`, `StoreProcs` and `AttrProcs` that a run passes is a theorem
(`QuietAnswers`, `RewrittenCounterCounts` and `CounterNeverAhead` for the programs named above).
What is left:

1. `QuietAnswers` for calls with both stores.
2. What a listing does to the tree (`SubkeyList`). Its properties compare a walk
   with all keys below a directory, so a proof goes by induction over the tree and
   not only by replacing `RECURSIVE`.

## Not modelled

- The memory plumbing of dynamic strings and arrays (`isdk_sds.c`,
  `deps/darray.h`) appears as sequence operations.
- `tcatof`, and fractions of more than a digit or two that `strToInt64x` parses
  in floating point (`long double`).
- `ListXattr`, which the store never calls, and `_iDBAttr_PutString`, a static
  function without a caller.
- `isdk_indexfile` declares a file format without operations; `isdk_math` is a
  power function. Neither keeps a state of the store.
- `benchmark.c` puts the names 1 to n and gets them back, as the programs of
  `KeyStore` do, and measures the time.
- `deps/` is third-party code.
- Relative paths of handles are modelled as `chdir` follows them, but the
  property of handles speaks of absolute ones. Handles are modelled without
  partitions.
- `UrlEncode` of a byte above 127 where `char` is signed is modelled (three bytes
  of its eight digits), but no property says what becomes of such a text: two of
  them may get one code.
- `IncrByDirValue` may return a number with digits of the path behind it; the
  model does it (`ReadRW`), and no promise of the code about it is left to state.
