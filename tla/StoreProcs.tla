----------------------------- MODULE StoreProcs -----------------------------
(***************************************************************************)
(* Several processes that use one store at the same time.  Nothing is      *)
(* locked: a put is a row of stat, opendir, mkdir, open and write calls    *)
(* (src/src/idb_helpers.c), and the processes interleave between any two.  *)
(* A process may die between two calls; what it did so far stays.          *)
(*                                                                         *)
(* The store's root exists and is never removed.  No name is a leading     *)
(* part of another below the same parent, so a lookup never takes a        *)
(* partition level for a key (KeyStore has that case); partition levels    *)
(* go only when the key they are below is deleted.                         *)
(* One system call is one step; counting a directory (opendir, readdir,    *)
(* closedir) is taken as one.  The stat and the mkdir of do_mkdir are one  *)
(* step: EEXIST counts as success, so no outcome is lost.                  *)
(***************************************************************************)
EXTENDS KeyTree

CONSTANTS
  Procs,            \* the processes
  Keys,             \* the keys they use, and the parents of these
  Values,           \* the values they put: sequences of bytes
  NoValue,          \* iGet's NULL
  Several,          \* what puts that overlapped have left
  Unknown,          \* what deletes and puts cut off by a crash have left
  IDBMaxPageCount,  \* keys per directory before partitioning
  Programs,         \* what the processes may be up to, see Program
  MaxInodes         \* bound: files in use at a time

\* A program: the operations of each process with their keys, the values put
\* to each key, the setting of IDBPartitionFullProcess, and two bounds: the calls each
\* process makes and the number of processes that die.
Program ==
  [ops     : [Procs -> SUBSET [op  : {"iPut", "iGet", "iDelete", "iKeyDelete"},
                               key : Keys]],
   values  : [Keys -> SUBSET Values],
   full    : {dkIgnored, dkStopped},
   calls   : Nat,
   crashes : Nat]

ASSUME ProcsAssumption == IsFiniteSet(Procs)
ASSUME NamesAssumption ==
  /\ Keys \subseteq KeyPaths
  /\ \A k \in Keys : Len(k) > 1 => Front(k) \in Keys
  /\ \A j, k \in Keys : Front(j) = Front(k) /\ IsPrefix(Last(j), Last(k)) => j = k
ASSUME ValuesAssumption   == \A v \in Values : v \in Seq(0..255)
ASSUME MarksAssumption ==
  /\ {NoValue, Several, Unknown} \cap Values = {}
  /\ NoValue # Several /\ NoValue # Unknown /\ Several # Unknown
ASSUME OptionAssumption   == IDBMaxPageCount \in Nat \ {0}
ASSUME ProgramsAssumption == Programs \subseteq Program
ASSUME InodesAssumption   == MaxInodes \in Nat

VARIABLES
  program,  \* the program that runs
  dirs,     \* the directories below the root
  file,     \* the value files: the inode each directory's ".value" names
  data,     \* the bytes of every inode
  proc,     \* what each process is doing
  last,     \* the last call completed by any process, with its result
  calls,    \* how many calls each process has begun
  crashes,  \* how many processes have died
  tried,    \* history: the values every key has been put with
  acked     \* history: what the completed writes have left at every key

fsys    == <<dirs, file, data>>
history == <<tried, acked>>
vars    == <<program, fsys, proc, last, calls, crashes, history>>

IDB_OK            == 0
IDB_ERR_PART_FULL == -100

IDBPartitionFullProcess == program.full

\* No two files in use share an inode; an unlinked file lives while it is
\* open.
Inodes == 1..MaxInodes
InUse  == {file[d] : d \in DOMAIN file} \cup {proc[p].fd : p \in Procs}
Fresh  == CHOOSE n \in Inodes : n \notin InUse

\* Bound: a file is only made while an inode is left for it.
FreshLeft == \E n \in Inodes : n \notin InUse

\* A process between calls, and inside one: the next system call, the call
\* itself, the partition level its walk has reached, the directory it works
\* on, the directories made on the way to it, the inode open and what lseek
\* said, and what a recursive delete has still to do.  The rest is history:
\* what a get or a recursive delete could find when it began, and whether other calls
\* could disturb this one, or delete its key, since.
Idle == [pc |-> "idle", fd |-> 0]
Call(op, k, v, l) ==
  [pc |-> l, op |-> op, key |-> k, val |-> v,
   lvl |-> 0, place |-> Root, made |-> 0, fd |-> 0, size |-> 0, todo |-> <<>>,
   was |-> IF op \in {"iGet", "iKeyDelete"} THEN acked[k] ELSE NoValue, alone |-> TRUE, kept |-> TRUE]

At(p, i)      == Place(Front(proc[p].key), Last(proc[p].key), i)
LevelOf(p, i) == Level(Front(proc[p].key), Last(proc[p].key), i)

\* Mutant: a full level has room for one more.
HasRoomLate(p) ==
  /\ LevelOf(p, proc[p].lvl) \in dirs \cup {Root}
  /\ iSubkeyCount(dirs, Front(proc[p].key), SubSeq(Last(proc[p].key), 1, proc[p].lvl))
       <= IDBMaxPageCount

\* The size_t that iSubkeyCount makes of the -1 for a directory that is gone
\* again is no room.
HasRoom(p) ==
  /\ LevelOf(p, proc[p].lvl) \in dirs \cup {Root}
  /\ iSubkeyCount(dirs, Front(proc[p].key), SubSeq(Last(proc[p].key), 1, proc[p].lvl))
       < IDBMaxPageCount

\* The directory that holds d, and what d holds.
Up(d)       == Level(d.at, d.part, IF d.name = <<>> THEN Len(d.part) - 1 ELSE Len(d.part))
Children(d) == {x \in dirs : Up(x) = d}

----------------------------------------------------------------------------
(* Moving a process on.                                                    *)

Goto(p, l) == /\ proc' = [proc EXCEPT ![p].pc = l]
              /\ UNCHANGED <<last, acked>>

GoDeeper(p, l) == /\ proc' = [proc EXCEPT ![p].pc = l, ![p].lvl = @ + 1]
                  /\ UNCHANGED <<last, acked>>

Opened(p, n, l) == /\ proc' = [proc EXCEPT ![p].pc = l, ![p].fd = n]
                   /\ UNCHANGED <<last, acked>>

\* The directory is found; every operation goes on in its own way.
Found(p, d) ==
  /\ proc' = [proc EXCEPT
       ![p].place = d,
       ![p].pc = CASE proc[p].op = "iPut"       -> "statPlace"
                   [] proc[p].op = "iGet"       -> "openPlace"
                   [] proc[p].op = "iDelete"    -> "unlink"
                   [] proc[p].op = "iKeyDelete" -> "readDir"]
  /\ UNCHANGED <<last, acked>>

\* The call is over; its files are closed.
Return(p, r) ==
  LET c == proc[p] IN
  /\ proc' = [proc EXCEPT ![p] = Idle]
  /\ last' = [by |-> p, op |-> c.op, key |-> c.key, ret |-> r, was |-> c.was, alone |-> c.alone]
  /\ acked' = [acked EXCEPT ![c.key] =
                 IF c.op # "iPut" \/ r # IDB_OK THEN @
                 ELSE IF ~c.kept THEN Unknown ELSE IF c.alone THEN c.val ELSE Several]

\* Whether a call op on key j can change what is stored at k, and whether it
\* can remove it.
Removes(op, j, k) == \/ op = "iDelete" /\ j = k
                     \/ op = "iKeyDelete" /\ IsPrefix(j, k)
Changes(op, j, k) == (op = "iPut" /\ j = k) \/ Removes(op, j, k)

\* A delete of a key with its subkeys is disturbed by what is done below.
Disturbs(op, j, c) ==
  \/ c.op # "iDelete" /\ Changes(op, j, c.key)
  \/ c.op = "iKeyDelete" /\ op # "iGet" /\ IsPrefix(c.key, j)

\* What a put has stored may be gone when it returns.
Undoes(op, j, c) == c.op = "iPut" /\ Removes(op, j, c.key)

Begin(p, op, k, v) ==
  LET busy == {q \in Procs : proc[q] # Idle}
      call == Call(op, k, v, IF op = "iGet" THEN "openDirect" ELSE "statDirect")
      new  == [call EXCEPT
                 !.alone = \A q \in busy : ~Disturbs(proc[q].op, proc[q].key, call),
                 !.kept  = \A q \in busy : ~Undoes(proc[q].op, proc[q].key, call)]
      seen(c) == [c EXCEPT !.alone = @ /\ ~Disturbs(op, k, c), !.kept = @ /\ ~Undoes(op, k, c)]
  IN
  /\ proc[p] = Idle
  /\ calls[p] < program.calls
  /\ proc' = [q \in Procs |-> IF q = p THEN new ELSE IF q \in busy THEN seen(proc[q]) ELSE proc[q]]
  /\ calls' = [calls EXCEPT ![p] = @ + 1]
  /\ tried' = [tried EXCEPT ![k] = @ \cup (IF op = "iPut" THEN {v} ELSE {})]
  /\ acked' = [j \in Keys |-> IF Removes(op, k, j) THEN Unknown ELSE acked[j]]
  /\ UNCHANGED <<program, fsys, last, crashes>>

----------------------------------------------------------------------------
(* iFindKeyDirToPut; its first stat is also that of the deletes.           *)

\* Mutant: a put does not look whether the key is there.
StatDirectBlind(p) ==
  /\ proc[p].pc = "statDirect"
  /\ IF proc[p].op = "iPut" THEN Goto(p, "statParent")
     ELSE IF At(p, 0) \in dirs THEN Found(p, At(p, 0))
     ELSE GoDeeper(p, "lookLevel")
  /\ UNCHANGED fsys

StatDirect(p) ==
  /\ proc[p].pc = "statDirect"
  /\ IF At(p, 0) \in dirs THEN Found(p, At(p, 0))
     ELSE IF proc[p].op = "iPut" THEN Goto(p, "statParent")
     ELSE GoDeeper(p, "lookLevel")
  /\ UNCHANGED fsys

\* Below a parent that is not there yet nothing is counted.
StatParent(p) ==
  /\ proc[p].pc = "statParent"
  /\ IF LevelOf(p, 0) \in dirs \cup {Root}
       THEN Goto(p, "count")
       ELSE Found(p, At(p, 0))
  /\ UNCHANGED fsys

\* iSubkeyCount of the directory whose stat has just found it; a full one, or
\* one that is gone again, sends the walk a character deeper, and before the
\* last character the partition is full.
CountLevel(p) ==
  /\ proc[p].pc = "count"
  /\ LET i == proc[p].lvl IN
     IF HasRoom(p) THEN Found(p, At(p, i))
     ELSE IF i + 1 < Len(Last(proc[p].key)) THEN GoDeeper(p, "statLevel")
     ELSE IF IDBPartitionFullProcess = dkIgnored THEN Found(p, At(p, i))
     ELSE Return(p, IDB_ERR_PART_FULL)
  /\ UNCHANGED fsys

\* Mutant: the rest of the name is forgotten.
StatLevelItself(p) ==
  /\ proc[p].pc = "statLevel"
  /\ IF LevelOf(p, proc[p].lvl) \in dirs
       THEN Goto(p, "statRest")
       ELSE Found(p, LevelOf(p, proc[p].lvl))
  /\ UNCHANGED fsys

StatLevel(p) ==
  /\ proc[p].pc = "statLevel"
  /\ IF LevelOf(p, proc[p].lvl) \in dirs
       THEN Goto(p, "statRest")
       ELSE Found(p, At(p, proc[p].lvl))
  /\ UNCHANGED fsys

StatRest(p) ==
  /\ proc[p].pc = "statRest"
  /\ IF At(p, proc[p].lvl) \in dirs
       THEN Found(p, At(p, proc[p].lvl))
       ELSE Goto(p, "count")
  /\ UNCHANGED fsys

----------------------------------------------------------------------------
(* The rest of iPut: ForceDirectories and SetDirValue.                     *)

StatPlace(p) ==
  /\ proc[p].pc = "statPlace"
  /\ Goto(p, IF proc[p].place \in dirs THEN "openWrite" ELSE "mkdir")
  /\ UNCHANGED fsys

\* The directory do_mkdir is at: the parents of the key, the levels, its own.
Target(p) ==
  LET P == Front(proc[p].key)
      n == proc[p].made + 1 - Len(P)
  IN  IF n <= 0 THEN Plain(SubSeq(P, 1, proc[p].made + 1))
      ELSE IF n <= proc[p].lvl THEN LevelOf(p, n) ELSE proc[p].place

\* mkdir fails where a directory above is gone again; ForceDirectories stops
\* there, and iPut goes on.
Mkdir(p) ==
  LET d == Target(p)
      ok == Up(d) \in dirs \cup {Root}
  IN
  /\ proc[p].pc = "mkdir"
  /\ dirs' = IF ok THEN dirs \cup {d} ELSE dirs
  /\ proc' = [proc EXCEPT
       ![p].made = @ + 1,
       ![p].pc = IF ok /\ d # proc[p].place THEN "mkdir" ELSE "openWrite"]
  /\ UNCHANGED <<file, data, last, acked>>

\* Mutant: no O_TRUNC.
OpenWriteKeep(p) ==
  /\ proc[p].pc = "openWrite"
  /\ LET d == proc[p].place
         n == IF d \in DOMAIN file THEN file[d] ELSE Fresh
     IN  /\ d \in dirs
         /\ d \in DOMAIN file \/ FreshLeft
         /\ file' = [x \in DOMAIN file \cup {d} |-> IF x = d THEN n ELSE file[x]]
         /\ data' = IF d \in DOMAIN file THEN data ELSE [data EXCEPT ![n] = <<>>]
         /\ Opened(p, n, "write")
  /\ UNCHANGED dirs

\* open(O_WRONLY|O_TRUNC|O_CREAT) fails if the directory is gone again.
OpenWrite(p) ==
  /\ proc[p].pc = "openWrite"
  /\ LET d == proc[p].place
         n == IF d \in DOMAIN file THEN file[d] ELSE Fresh
     IN
     \/ /\ d \in dirs
        /\ d \in DOMAIN file \/ FreshLeft
        /\ file' = [x \in DOMAIN file \cup {d} |-> IF x = d THEN n ELSE file[x]]
        /\ data' = [data EXCEPT ![n] = <<>>]
        /\ Opened(p, n, "write")
     \/ /\ d \notin dirs
        /\ Return(p, 1)
        /\ UNCHANGED <<file, data>>
  /\ UNCHANGED dirs

\* Mutant: O_APPEND.
OverlayAppended(s, v) == s \o v

\* The bytes of v over the beginning of s.
Overlay(s, v) == v \o SubSeq(s, Len(v) + 1, Len(s))

\* write at offset 0 of whatever the inode holds by now, then close.
Write(p) ==
  /\ proc[p].pc = "write"
  /\ data' = [data EXCEPT ![proc[p].fd] = Overlay(@, proc[p].val)]
  /\ Return(p, IDB_OK)
  /\ UNCHANGED <<dirs, file>>

----------------------------------------------------------------------------
(* iGet, and iIsKeyDirExists for the gets and the deletes.                 *)

OpenDirect(p) ==
  /\ proc[p].pc = "openDirect"
  /\ IF At(p, 0) \in DOMAIN file
       THEN Opened(p, file[At(p, 0)], "lseek")
       ELSE GoDeeper(p, "lookLevel")
  /\ UNCHANGED fsys

\* A missing level ends the lookup: NULL for a get, false for a delete.
LookLevel(p) ==
  /\ proc[p].pc = "lookLevel"
  /\ IF LevelOf(p, proc[p].lvl) \in dirs
       THEN Goto(p, "lookRest")
       ELSE Return(p, IF proc[p].op = "iGet" THEN NoValue ELSE FALSE)
  /\ UNCHANGED fsys

\* Mutant: the lookup does not move on to the next character.
LookRestStuck(p) ==
  /\ proc[p].pc = "lookRest"
  /\ IF At(p, proc[p].lvl) \in dirs
       THEN Found(p, At(p, proc[p].lvl))
       ELSE Goto(p, "lookLevel")
  /\ UNCHANGED fsys

LookRest(p) ==
  /\ proc[p].pc = "lookRest"
  /\ IF At(p, proc[p].lvl) \in dirs
       THEN Found(p, At(p, proc[p].lvl))
       ELSE GoDeeper(p, "lookLevel")
  /\ UNCHANGED fsys

OpenPlace(p) ==
  /\ proc[p].pc = "openPlace"
  /\ IF proc[p].place \in DOMAIN file
       THEN Opened(p, file[proc[p].place], "lseek")
       ELSE Return(p, NoValue)
  /\ UNCHANGED fsys

\* lseek(SEEK_END) first, the read of that many bytes later.
Lseek(p) ==
  /\ proc[p].pc = "lseek"
  /\ proc' = [proc EXCEPT ![p].size = Len(data[proc[p].fd]), ![p].pc = "read"]
  /\ UNCHANGED <<fsys, last, acked>>

ReadFile(p) ==
  /\ proc[p].pc = "read"
  /\ LET s == data[proc[p].fd]
     IN  Return(p, SubSeq(s, 1, Min({proc[p].size, Len(s)})))
  /\ UNCHANGED fsys

----------------------------------------------------------------------------
(* iDelete, and DeleteDir of a key's directory for iKeyDelete.             *)

DropFile(d) == file' = [x \in DOMAIN file \ {d} |-> file[x]]

Unlink(p) ==
  /\ proc[p].pc = "unlink"
  /\ DropFile(proc[p].place)
  /\ Return(p, proc[p].place \in DOMAIN file)
  /\ UNCHANGED <<dirs, data>>

\* The next thing on the list of a recursive delete.
GoOn(p, todo) ==
  IF todo = <<>> THEN Return(p, TRUE)
  ELSE /\ proc' = [proc EXCEPT ![p].pc = todo[1].pc, ![p].place = todo[1].dir,
                               ![p].todo = Tail(todo)]
       /\ UNCHANGED <<last, acked>>

\* Mutant: what fts did not stat is left alone.
EntriesDirs(d) == {[pc |-> "readDir", dir |-> x] : x \in Children(d)}

\* What has to go before a directory can.
Entries(d) ==
  {[pc |-> "readDir", dir |-> x] : x \in Children(d)}
    \cup IF d \in DOMAIN file THEN {[pc |-> "unlinkDir", dir |-> d]} ELSE {}

\* fts reads a directory once, in any order, deals with what it has seen in
\* it, then has the directory removed; the first failure ends the delete.
ReadDir(p) ==
  LET d == proc[p].place IN
  /\ proc[p].pc = "readDir"
  /\ \/ d \notin dirs /\ Return(p, FALSE)
     \/ /\ d \in dirs
        /\ \E order \in SetToSeqs(Entries(d)) :
             GoOn(p, Append(order, [pc |-> "rmdir", dir |-> d]) \o proc[p].todo)
  /\ UNCHANGED fsys

UnlinkDir(p) ==
  /\ proc[p].pc = "unlinkDir"
  /\ IF proc[p].place \in DOMAIN file THEN GoOn(p, proc[p].todo) ELSE Return(p, FALSE)
  /\ DropFile(proc[p].place)
  /\ UNCHANGED <<dirs, data>>

\* Mutant: the directory goes even if there is something in it again.
RmdirBlind(p) ==
  /\ proc[p].pc = "rmdir"
  /\ dirs' = dirs \ {proc[p].place}
  /\ IF proc[p].place \in dirs THEN GoOn(p, proc[p].todo) ELSE Return(p, FALSE)
  /\ UNCHANGED <<file, data>>

\* rmdir refuses a directory in which there is something again.
Rmdir(p) ==
  LET d    == proc[p].place
      gone == d \in dirs /\ d \notin DOMAIN file /\ Children(d) = {}
  IN
  /\ proc[p].pc = "rmdir"
  /\ dirs' = IF gone THEN dirs \ {d} ELSE dirs
  /\ IF gone THEN GoOn(p, proc[p].todo) ELSE Return(p, FALSE)
  /\ UNCHANGED <<file, data>>

----------------------------------------------------------------------------
\* A process dies inside a call; its successor starts idle.
Crash(p) ==
  /\ proc[p] # Idle
  /\ crashes < program.crashes
  /\ crashes' = crashes + 1
  /\ proc' = [proc EXCEPT ![p] = Idle]
  /\ acked' = [acked EXCEPT ![proc[p].key] = IF proc[p].op = "iPut" THEN Unknown ELSE @]
  /\ UNCHANGED <<program, fsys, last, calls, tried>>

Init ==
  /\ program \in Programs
  /\ dirs = {}
  /\ file = [d \in {} |-> 0]
  /\ data = [n \in Inodes |-> <<>>]
  /\ proc = [p \in Procs |-> Idle]
  /\ last = [op |-> "none"]
  /\ calls = [p \in Procs |-> 0]
  /\ crashes = 0
  /\ tried = [k \in Keys |-> {}]
  /\ acked = [k \in Keys |-> NoValue]

\* A process calls; only puts carry a value.
Start(p) ==
  \E o \in program.ops[p] :
    \/ o.op = "iPut" /\ \E v \in program.values[o.key] : Begin(p, o.op, o.key, v)
    \/ o.op # "iPut" /\ Begin(p, o.op, o.key, <<>>)

\* The next system call of p, inside a call.
Step(p) ==
  /\ \/ StatDirect(p) \/ StatParent(p) \/ CountLevel(p) \/ StatLevel(p) \/ StatRest(p)
     \/ StatPlace(p) \/ Mkdir(p) \/ OpenWrite(p) \/ Write(p)
     \/ OpenDirect(p) \/ LookLevel(p) \/ LookRest(p) \/ OpenPlace(p)
     \/ Lseek(p) \/ ReadFile(p)
     \/ Unlink(p) \/ ReadDir(p) \/ UnlinkDir(p) \/ Rmdir(p)
  /\ UNCHANGED <<program, calls, crashes, tried>>

Next == \E p \in Procs : Start(p) \/ Step(p) \/ Crash(p)

Spec == Init /\ [][Next]_vars

\* A process inside a call is scheduled again.
FairSpec == Spec /\ \A p \in Procs : WF_vars(Step(p))

----------------------------------------------------------------------------
(* Properties.                                                             *)

\* Every variable holds a value of its type; every directory is in another.
TypeOK ==
  /\ dirs \subseteq DirIds
  /\ \A d \in dirs : Up(d) \in dirs \cup {Root}
  /\ DOMAIN file \subseteq dirs
  /\ \A d \in DOMAIN file : file[d] \in Inodes
  /\ \A n \in Inodes : Len(data[n]) \in Nat
  /\ \A p \in Procs : proc[p].fd \in Inodes \cup {0}
  /\ \A k \in Keys : /\ tried[k] \subseteq Values
                     /\ acked[k] \in Values \cup {NoValue, Several, Unknown}

Users(k, op) == {p \in Procs : [op |-> op, key |-> k] \in program.ops[p]}
Writers      == UNION {Users(k, "iPut") : k \in Keys}

\* However the counting and the making of directories interleave, each
\* writer but one adds at most one key beyond the limit to a directory, below
\* the root or below a key that others delete.  Not counted are the keys that
\* a put makes without asking: parents, and with dkIgnored names of one
\* character, which are forced into full levels.
PageBound ==
  LET parent(x) == \E k \in Keys : /\ Users(k, "iPut") # {}
                                   /\ Len(k) > Len(x.at) + 1 /\ IsPrefix(x.at, k)
                                   /\ k[Len(x.at) + 1] = x.part \o x.name
  IN  \A d \in dirs :
        Cardinality({x \in Page(dirs, d.at, d.part) :
                       /\ Len(x.name) > 1 \/ IDBPartitionFullProcess = dkStopped
                       /\ ~parent(x)})
          <= IDBMaxPageCount + Cardinality(Writers) - 1

\* Every byte a get returns was put to that key at that position: torn,
\* mixed and stale reads never show bytes of another key.
ReadProvenance ==
  (last.op = "iGet" /\ last.ret # NoValue) =>
    \A i \in 1..Len(last.ret) :
      \E v \in tried[last.key] : i <= Len(v) /\ last.ret[i] = v[i]

\* With one writer a get returns the beginning of some value put: readers
\* may see a put half done, never a mixture of two.
ReadsPrefix ==
  (/\ last.op = "iGet" /\ last.ret # NoValue
   /\ Cardinality(Users(last.key, "iPut")) = 1) =>
    \E v \in tried[last.key] : IsPrefix(last.ret, v)

\* A get that no put or delete of its key overlaps returns what the last put
\* of it wrote, if that was alone too, whatever the other processes do to the
\* directories it walks through in the meantime: the key's levels fill, its
\* subkeys make and remove its directory's neighbours, old copies stay.
QuietGets ==
  (last.op = "iGet" /\ last.alone /\ last.was \in Values \cup {NoValue})
    => last.ret = last.was

\* A delete of a key with a value succeeds when nobody else writes or deletes
\* the key or what is below it in the meantime.
QuietDeletes ==
  (last.op = "iKeyDelete" /\ last.alone /\ last.was \in Values \cup {Several})
    => last.ret

\* What an undisturbed get would open.
Readable(k) ==
  \/ Plain(k) \in DOMAIN file
  \/ iIsKeyDirExists(dirs \cup {Root}, Front(k), Last(k)) \in DOMAIN file

\* A put of the key has succeeded, and no delete of it has begun since the
\* put did.
Acked(k) == acked[k] \in Values \cup {Several}

\* Once a put has succeeded the key has a value for every later get, also
\* while others put the same key, until somebody deletes it.
AckedIsReadable == \A k \in Keys : Acked(k) => Readable(k)

\* The same for names of two characters, which have one partition level at
\* most, and between two puts of the only writer of a longer name.
AckedStaysReadable ==
  \A k \in Keys :
    ( /\ Acked(k)
      /\ \/ Len(Last(k)) <= 2
         \/ \E p \in Procs : Users(k, "iPut") = {p} /\ proc[p] = Idle )
    => Readable(k)

\* Every call that is not cut off by a crash returns: the processes never
\* wait for each other.
EveryCallReturns == \A p \in Procs : proc[p] # Idle ~> proc[p] = Idle
=============================================================================
