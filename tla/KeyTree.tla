------------------------------ MODULE KeyTree ------------------------------
(***************************************************************************)
(* The directory tree in which iDB keeps its keys, and the two walks that  *)
(* decide where a key lives: iFindKeyDirToPut (where a put goes) and       *)
(* iIsKeyDirExists (where a lookup finds it).  Source:                     *)
(* src/src/idb_helpers.c, src/src/isdk_utils.c.                            *)
(*                                                                         *)
(* A key is a path of names, a name a non-empty sequence of characters.    *)
(* The directory of a key is <parent>/<name>; when the parent holds too    *)
(* many keys the leading characters of the name become "partition"         *)
(* directories: with two of them, the key "cygo1" is <parent>/.c/.y/go1.   *)
(* A directory is therefore identified by                                  *)
(*   at    the key path of the parent key (<<>> is the store's root),      *)
(*   part  the characters of the partition levels below the parent,        *)
(*   name  what is left of the name (<<>>: the partition level itself).    *)
(* Names do not begin with a dot, so partition levels and key directories  *)
(* never share a name; subkeys are always created below the unpartitioned  *)
(* path of their parent, so "at" needs no partition levels of its own.     *)
(***************************************************************************)
EXTENDS Naturals, Integers, FiniteSets, SequencesExt

CONSTANTS
  Char,        \* the characters of names
  NoDir        \* a walk's NULL result

\* The ways to process a full partition (TIDBProcesses).
dkIgnored  == "dkIgnored"
dkFixed    == "dkFixed"
dkReserved == "dkReserved"
dkStopped  == "dkStopped"
TIDBProcesses == {dkIgnored, dkFixed, dkReserved, dkStopped}

Names    == Seq(Char) \ {<<>>}
KeyPaths == Seq(Names) \ {<<>>}
DirIds   == [at : Seq(Names), part : Seq(Char), name : Seq(Char)]

ASSUME NoDirAssumption == NoDir \notin DirIds

----------------------------------------------------------------------------
(* The directories a key may occupy.                                       *)

Root == [at |-> <<>>, part |-> <<>>, name |-> <<>>]

\* The directory of name k below the key path P after i partition levels.
Place(P, k, i) == [at   |-> P,
                   part |-> SubSeq(k, 1, i),
                   name |-> SubSeq(k, i + 1, Len(k))]

\* The unpartitioned directory of a key path.
Plain(K) == IF K = <<>> THEN Root ELSE Place(Front(K), Last(K), 0)

\* The partition level reached from P by the first i characters of k.
Level(P, k, i) == IF i = 0 THEN Plain(P)
                  ELSE [at |-> P, part |-> SubSeq(k, 1, i), name |-> <<>>]

\* iSubkeyCount: the keys directly inside the level p of P.  Partition
\* levels begin with a dot and are not counted.
Page(T, P, p) == {d \in T : d.at = P /\ d.part = p /\ d.name # <<>>}
\* Mutant: one key is not counted.
iSubkeyCountShort(T, P, p) == Cardinality(Page(T, P, p)) - 1

iSubkeyCount(T, P, p) == Cardinality(Page(T, P, p))

----------------------------------------------------------------------------
(* The two walks over a tree T (a set of directories).                     *)

\* Mutant: the walk passes a full level that already holds the key.
PutStopsForgetful(T, P, k, i, max) ==
  \/ Level(P, k, i) \notin T
  \/ iSubkeyCount(T, P, SubSeq(k, 1, i)) < max

\* The loop of iFindKeyDirToPut leaves at level i: the level is new, it
\* already holds the key, or it has room.
PutStops(T, P, k, i, max) ==
  \/ Level(P, k, i) \notin T
  \/ Place(P, k, i) \in T
  \/ iSubkeyCount(T, P, SubSeq(k, 1, i)) < max

\* The last character is never a level of its own: without a stop before it
\* the partition is full.
PutLevels(T, P, k, max) == {i \in 1..(Len(k) - 1) : PutStops(T, P, k, i, max)}

\* Mutant: a forced put ends in the level itself, not in the rest of the name.
iFindKeyDirToPutLevel(T, P, k, max, full) ==
  IF \/ Place(P, k, 0) \in T
     \/ Plain(P) \notin T
     \/ iSubkeyCount(T, P, <<>>) < max
    THEN Place(P, k, 0)
  ELSE IF PutLevels(T, P, k, max) # {}
    THEN Place(P, k, Min(PutLevels(T, P, k, max)))
  ELSE Level(P, k, Len(k) - 1)

\* The directory a put of name k below P goes to, or NoDir.
iFindKeyDirToPut(T, P, k, max, full) ==
  IF \/ Place(P, k, 0) \in T
     \/ Plain(P) \notin T
     \/ iSubkeyCount(T, P, <<>>) < max
    THEN Place(P, k, 0)
  ELSE IF PutLevels(T, P, k, max) # {}
    THEN Place(P, k, Min(PutLevels(T, P, k, max)))
  ELSE CASE full = dkIgnored -> Place(P, k, Len(k) - 1)
         [] full = dkStopped -> NoDir
         [] OTHER            -> Level(P, k, Len(k) - 1)

\* The loop of iIsKeyDirExists leaves at level i: no such level, or the rest
\* of the name is a directory there.  After the last character the rest is
\* empty and "<level>/" is the level itself.
LookupEnds(T, P, k) ==
  {i \in 1..Len(k) : Level(P, k, i) \notin T \/ Place(P, k, i) \in T}

\* The partitioned directory of name k below P, or NoDir.
iIsKeyDirExists(T, P, k) ==
  LET i == Min(LookupEnds(T, P, k))
  IN  IF Level(P, k, i) \in T THEN Place(P, k, i) ELSE NoDir

----------------------------------------------------------------------------
(* Creating and removing directories.                                      *)

\* The directories on the way from the root to d.
Ancestors(d) ==
       {Plain(SubSeq(d.at, 1, j)) : j \in 0..Len(d.at)}
  \cup {Level(d.at, d.part, j) : j \in 1..Len(d.part)}

\* mkdir -p
ForceDirectories(T, d) == T \cup Ancestors(d) \cup {d}

\* Mutant: the siblings are below, too.
BelowParent(d, x) ==
  \/ x = d
  \/ d.part = <<>> /\ d.name # <<>> /\ IsPrefix(d.at, x.at)
  \/ d.part # <<>> /\ d.name = <<>> /\ x.at = d.at /\ IsPrefix(d.part, x.part)

\* d and everything below it: a plain key directory holds its subkeys, a
\* partition level the levels and keys that continue its characters.
Below(d, x) ==
  \/ x = d
  \/ /\ d.part = <<>> /\ d.name # <<>>
     /\ IsPrefix(Append(d.at, d.name), x.at)
  \/ /\ d.part # <<>> /\ d.name = <<>>
     /\ x.at = d.at
     /\ IsPrefix(d.part, x.part)

\* Mutant: only the directory itself.
DeleteDirFlat(T, d) == T \ {d}

\* rm -r
DeleteDir(T, d) == {x \in T : ~Below(d, x)}
=============================================================================
