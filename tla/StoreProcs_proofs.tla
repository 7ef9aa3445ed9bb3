-------------------------- MODULE StoreProcs_proofs --------------------------
(***************************************************************************)
(* Proofs about several processes on one store: the types of the state,    *)
(* where the bytes a get returns come from, and how many keys a directory  *)
(* can hold, for any number of processes and keys and however their system *)
(* calls interleave.                                                       *)
(***************************************************************************)
EXTENDS StoreProcs, KeyTree_proofs

----------------------------------------------------------------------------
(* The inductive invariant, part by part.                                  *)

Bytes    == Seq(0..255)
Ops      == {"iPut", "iGet", "iDelete", "iKeyDelete"}
Choosing == {"statParent", "count", "statLevel", "statRest"}
Making   == {"statPlace", "mkdir", "openWrite", "write"}
Reading  == {"lseek", "read"}
Wiping   == {"readDir", "unlinkDir", "rmdir"}
Looking  == {"lookLevel", "lookRest"}
Pcs      == Choosing \cup Making \cup Reading \cup Wiping \cup Looking
              \cup {"statDirect", "openDirect", "openPlace", "unlink"}

CallType ==
  [pc : Pcs, op : Ops, key : Keys, val : Bytes, lvl : Nat, place : DirIds,
   made : Nat, fd : Inodes \cup {0}, size : Nat, todo : Seq([pc : Wiping, dir : DirIds]),
   was : Values \cup {NoValue, Several, Unknown}, alone : BOOLEAN, kept : BOOLEAN]

\* Which operation is where.
FitsOp(c) ==
  /\ c.pc \in Choosing \cup Making => c.op = "iPut"
  /\ c.pc \in Reading \cup {"openDirect", "openPlace"} => c.op = "iGet"
  /\ c.pc \in Looking => c.op # "iPut"
  /\ c.pc = "unlink" => c.op = "iDelete"
  /\ c.pc \in Wiping => c.op = "iKeyDelete"
  /\ c.pc = "statDirect" => c.op # "iGet"

\* How deep a walk can be, and the directory it has chosen.
FitsLevel(c) ==
  /\ c.pc \in {"statDirect", "statParent", "openDirect"} => c.lvl = 0
  /\ c.pc \notin {"lookLevel"} \cup Wiping => c.lvl < Len(Last(c.key))
  /\ c.pc \in Looking \cup {"statLevel"} => c.lvl \in 1..Len(Last(c.key))
  /\ c.pc \in (Making \ {"write"}) \cup {"openPlace"}
       => c.place = Place(Front(c.key), Last(c.key), c.lvl)

\* A file is open from the open call to the end of the call.
FitsFile(c) == IF c.pc \in Reading \cup {"write"} THEN c.fd \in Inodes ELSE c.fd = 0

\* A put is one of its process's program.
FitsProgram(p, c) ==
  c.op = "iPut" => /\ c.val \in tried[c.key]
                   /\ p \in Users(c.key, "iPut")

CallOK(p, c) ==
  /\ c \in CallType
  /\ FitsOp(c) /\ FitsLevel(c) /\ FitsFile(c) /\ FitsProgram(p, c)

ProcsOK == \A p \in Procs : proc[p] = Idle \/ CallOK(p, proc[p])

\* The directories: all inside another one; a partition level is shorter
\* than the name of a key that goes through it.
TreeOK ==
  /\ IsFiniteSet(dirs)
  /\ dirs \subseteq DirIds
  /\ \A d \in dirs : Up(d) \in dirs \cup {Root}
  /\ \A d \in dirs : d.name = <<>> =>
       \E k \in Keys : /\ d.at = Front(k)
                       /\ Len(d.part) < Len(Last(k))
                       /\ d.part = SubSeq(Last(k), 1, Len(d.part))

FilesOK ==
  /\ file \in [DOMAIN file -> Inodes]
  /\ DOMAIN file \subseteq dirs
  /\ data \in [Inodes -> Bytes]

AckedOK == acked \in [Keys -> Values \cup {NoValue, Several, Unknown}]

ProgramOK ==
  /\ program \in Programs
  /\ proc = [p \in Procs |-> proc[p]]
  /\ tried \in [Keys -> SUBSET Values]
  /\ AckedOK

Typed == ProgramOK /\ TreeOK /\ FilesOK /\ ProcsOK

----------------------------------------------------------------------------
(* Whose bytes a file holds.                                               *)

\* Inode n belongs to key k: it is the file of a directory of k, or a call
\* on k has it open.
Holds(n, k) ==
  \/ \E d \in DOMAIN file : file[d] = n /\ Owner(d) = k
  \/ \E p \in Procs : /\ proc[p] # Idle
                      /\ proc[p].fd = n
                      /\ proc[p].key = k

\* The bytes s come from values put to k, each at its position.
From(s, k) == \A i \in 1..Len(s) : \E v \in tried[k] : i <= Len(v) /\ s[i] = v[i]

OneHolder == \A n \in Inodes : \A j, k : Holds(n, j) /\ Holds(n, k) => j = k
Contents  == \A n \in Inodes : \A k \in Keys : Holds(n, k) => From(data[n], k) /\ tried[k] # {}
Owned     == \A d \in DOMAIN file : Owner(d) \in Keys

Provenance == OneHolder /\ Contents /\ Owned

\* What a key's only writer leaves in its files: nothing yet or a value, and
\* nothing while it is writing.
SoleWriter(k) == Cardinality(Users(k, "iPut")) = 1
WholeValues ==
  /\ \A n \in Inodes : \A k \in Keys :
       SoleWriter(k) /\ Holds(n, k) => data[n] \in tried[k] \cup {<<>>}
  /\ \A p \in Procs :
       proc[p].pc = "write" /\ SoleWriter(proc[p].key) => data[proc[p].fd] = <<>>
Provenanced == Typed /\ Provenance

----------------------------------------------------------------------------
(* Keys and their directories.                                             *)

LEMMA KeyParts ==
  ASSUME NEW k \in Keys
  PROVE  /\ k \in Seq(Names) /\ k # <<>>
         /\ Front(k) \in Seq(Names)
         /\ Last(k) \in Names /\ Last(k) \in Seq(Char)
         /\ Len(Last(k)) \in Nat \ {0}
         /\ Append(Front(k), Last(k)) = k
<1>1. k \in Seq(Names) /\ k # <<>>
  BY NamesAssumption DEF KeyPaths
<1>2. Front(k) \in Seq(Names) /\ Last(k) \in Names
  BY <1>1, FrontLast
<1>3. Last(k) \in Seq(Char) /\ Len(Last(k)) \in Nat \ {0}
  BY <1>2, LenProperties, EmptySeq DEF Names
<1> QED BY <1>1, <1>2, <1>3, AppendFrontLast

LEMMA PlaceOf ==
  ASSUME NEW k \in Keys, NEW i \in 0..Len(Last(k))
  PROVE  /\ Place(Front(k), Last(k), i) \in DirIds
         /\ Owner(Place(Front(k), Last(k), i)) = k
         /\ i < Len(Last(k)) => Place(Front(k), Last(k), i).name # <<>>
<1>1. Place(Front(k), Last(k), i).name = <<>> <=> i = Len(Last(k))
  BY KeyParts, PlaceParts
<1>2. i < Len(Last(k)) => i # Len(Last(k))
  BY KeyParts
<1> QED BY <1>1, <1>2, KeyParts, PlaceType, PlaceOwner

(* No level of a key takes up its whole name.                              *)
LEMMA LevelIsShort ==
  ASSUME TreeOK, NEW k \in Keys, NEW i \in 1..Len(Last(k)),
         Level(Front(k), Last(k), i) \in dirs
  PROVE  i < Len(Last(k))
<1> DEFINE d == Level(Front(k), Last(k), i)
           l == Last(k)
<1>1. /\ d.at = Front(k) /\ d.part = SubSeq(l, 1, i) /\ d.name = <<>>
      /\ Len(d.part) = i
  <2>1. /\ l \in Seq(Char) /\ i \in 1..Len(l)
        /\ d = Level(Front(k), l, i)
    BY KeyParts
  <2> HIDE DEF l, d
  <2>2. PICK P : P = Front(k)
    OBVIOUS
  <2>3. /\ Level(P, l, i) = [at |-> P, part |-> SubSeq(l, 1, i), name |-> <<>>]
        /\ Len(SubSeq(l, 1, i)) = i
    BY <2>1, LevelParts
  <2> QED BY <2>1, <2>2, <2>3
<1>2. PICK j \in Keys : /\ Front(k) = Front(j)
                        /\ i < Len(Last(j))
                        /\ SubSeq(l, 1, i) = SubSeq(Last(j), 1, i)
  BY <1>1 DEF TreeOK
<1>3. SUFFICES ASSUME i = Len(l) PROVE FALSE
  BY KeyParts
<1>4. SubSeq(l, 1, i) = l
  BY <1>3, KeyParts, SubSeqFull
<1>5. i \in 0..Len(Last(j))
  BY <1>2, KeyParts
<1>6. IsPrefix(l, Last(j))
  BY <1>2, <1>3, <1>4, <1>5, KeyParts, PrefixIsLeading
<1>7. k = j
  BY <1>2, <1>6, NamesAssumption
<1> QED BY <1>2, <1>3, <1>7, KeyParts

----------------------------------------------------------------------------
(* Moving one process on.                                                  *)

(* The other processes stay where they are.                               *)
Others(p) == /\ proc' = [q \in Procs |-> proc'[q]]
             /\ \A q \in Procs : q # p => proc'[q] = proc[q]

(* A step that opens no file: the call goes on or is over.                 *)
Quiet(p) ==
  /\ ProcsOK' /\ Others(p) /\ AckedOK'
  /\ \/ proc'[p] = Idle
     \/ /\ proc[p] # Idle
        /\ proc'[p].key = proc[p].key
        /\ proc'[p].op = proc[p].op
        /\ proc'[p].fd = proc[p].fd

(* What is known of a call.                                                *)
LEMMA CallFacts ==
  ASSUME ProcsOK, NEW p \in Procs, proc[p].pc # "idle"
  PROVE  /\ proc[p] # Idle
         /\ CallOK(p, proc[p])
         /\ proc[p] \in CallType
         /\ proc[p].key \in Keys /\ proc[p].lvl \in Nat /\ proc[p].op \in Ops
         /\ Len(Last(proc[p].key)) \in Nat \ {0}
<1>1. proc[p] # Idle
  BY DEF Idle
<1>2. CallOK(p, proc[p])
  BY <1>1 DEF ProcsOK
<1>3. /\ proc[p] \in CallType
      /\ proc[p].key \in Keys /\ proc[p].lvl \in Nat /\ proc[p].op \in Ops
  BY <1>2 DEF CallOK, CallType
<1> QED BY <1>1, <1>2, <1>3, KeyParts

LEMMA OneMoves ==
  ASSUME ProgramOK, ProcsOK, NEW p \in Procs, NEW c,
         proc' = [proc EXCEPT ![p] = c],
         c = Idle \/ CallOK(p, c),
         UNCHANGED <<program, tried>>
  PROVE  ProcsOK' /\ Others(p) /\ proc'[p] = c
<1>1. Others(p) /\ proc'[p] = c
  BY DEF ProgramOK, Others
<1>2. \A q \in Procs : proc'[q] = Idle \/ CallOK(q, proc'[q])
  BY <1>1 DEF ProcsOK, Others
<1>3. \A q \in Procs : CallOK(q, proc'[q]) => CallOK(q, proc[q])'
  BY DEF CallOK, FitsProgram, Users, FitsOp, FitsLevel, FitsFile, CallType
<1> QED BY <1>1, <1>2, <1>3 DEF ProcsOK

(* The place in the code a call can be sent to from another.               *)
LEMMA GotoKeeps ==
  ASSUME ProgramOK, ProcsOK, NEW p \in Procs, proc[p] # Idle,
         NEW l \in Pcs, Goto(p, l),
         LET c == [proc[p] EXCEPT !.pc = l] IN FitsOp(c) /\ FitsLevel(c) /\ FitsFile(c),
         UNCHANGED <<program, tried>>
  PROVE  Quiet(p) /\ proc'[p] = [proc[p] EXCEPT !.pc = l]
<1> DEFINE c == [proc[p] EXCEPT !.pc = l]
<1>1. proc' = [proc EXCEPT ![p] = c]
  BY DEF Goto
<1>2. CallOK(p, proc[p])
  BY DEF ProcsOK
<1>3. c \in CallType
  BY <1>2 DEF CallOK, CallType
<1>4. FitsProgram(p, c)
  BY <1>2 DEF CallOK, CallType, FitsProgram
<1>5. CallOK(p, c)
  BY <1>3, <1>4 DEF CallOK
<1>20. AckedOK'
  BY DEF Goto, ProgramOK, AckedOK
<1>21. c.key = proc[p].key /\ c.op = proc[p].op /\ c.fd = proc[p].fd
  BY <1>2 DEF CallOK, CallType
<1> HIDE DEF c
<1>22. ProcsOK' /\ Others(p) /\ proc'[p] = c
  BY <1>1, <1>5, OneMoves
<1>23. Quiet(p)
  BY <1>20, <1>21, <1>22 DEF Quiet
<1> QED BY <1>22, <1>23 DEF c

LEMMA GoDeeperKeeps ==
  ASSUME ProgramOK, ProcsOK, NEW p \in Procs, proc[p] # Idle,
         NEW l \in Pcs, GoDeeper(p, l),
         LET c == [proc[p] EXCEPT !.pc = l, !.lvl = proc[p].lvl + 1]
         IN  FitsOp(c) /\ FitsLevel(c) /\ FitsFile(c),
         UNCHANGED <<program, tried>>
  PROVE  /\ Quiet(p)
         /\ proc'[p] = [proc[p] EXCEPT !.pc = l, !.lvl = proc[p].lvl + 1]
<1> DEFINE c == [proc[p] EXCEPT !.pc = l, !.lvl = proc[p].lvl + 1]
<1>1. proc' = [proc EXCEPT ![p] = c]
  BY DEF GoDeeper
<1>2. CallOK(p, proc[p])
  BY DEF ProcsOK
<1>3. c \in CallType
  <2> DEFINE i == proc[p].lvl + 1
  <2>1. i \in Nat
    BY <1>2 DEF CallOK, CallType
  <2> HIDE DEF i
  <2> QED BY <1>2, <2>1 DEF CallOK, CallType, i
<1>4. FitsProgram(p, c)
  BY <1>2 DEF CallOK, CallType, FitsProgram
<1>5. CallOK(p, c)
  BY <1>3, <1>4 DEF CallOK
<1>20. AckedOK'
  BY DEF GoDeeper, ProgramOK, AckedOK
<1>21. c.key = proc[p].key /\ c.op = proc[p].op /\ c.fd = proc[p].fd
  BY <1>2 DEF CallOK, CallType
<1> HIDE DEF c
<1>22. ProcsOK' /\ Others(p) /\ proc'[p] = c
  BY <1>1, <1>5, OneMoves
<1>23. Quiet(p)
  BY <1>20, <1>21, <1>22 DEF Quiet
<1> QED BY <1>22, <1>23 DEF c

LEMMA OpenedKeeps ==
  ASSUME ProgramOK, ProcsOK, NEW p \in Procs, proc[p] # Idle,
         NEW l \in Pcs, NEW n \in Inodes, Opened(p, n, l),
         LET c == [proc[p] EXCEPT !.pc = l, !.fd = n]
         IN  FitsOp(c) /\ FitsLevel(c) /\ FitsFile(c),
         UNCHANGED <<program, tried>>
  PROVE  /\ ProcsOK' /\ Others(p) /\ AckedOK'
         /\ proc'[p] = [proc[p] EXCEPT !.pc = l, !.fd = n]
<1> DEFINE c == [proc[p] EXCEPT !.pc = l, !.fd = n]
<1>1. proc' = [proc EXCEPT ![p] = c]
  BY DEF Opened
<1>2. CallOK(p, proc[p])
  BY DEF ProcsOK
<1>3. c \in CallType
  BY <1>2 DEF CallOK, CallType
<1>4. FitsProgram(p, c)
  BY <1>2 DEF CallOK, CallType, FitsProgram
<1>5. CallOK(p, c)
  BY <1>3, <1>4 DEF CallOK
<1>6. AckedOK'
  BY DEF Opened, ProgramOK, AckedOK
<1> HIDE DEF c
<1> QED BY <1>1, <1>5, <1>6, OneMoves DEF c

(* A walk ends before the last character, at a place of its key.           *)
NextOf(op) == CASE op = "iPut"       -> "statPlace"
                [] op = "iGet"       -> "openPlace"
                [] op = "iDelete"    -> "unlink"
                [] op = "iKeyDelete" -> "readDir"

LEMMA FoundKeeps ==
  ASSUME ProgramOK, ProcsOK, NEW p \in Procs, proc[p] # Idle,
         proc[p].pc \in Choosing \cup Looking \cup {"statDirect"},
         proc[p].lvl < Len(Last(proc[p].key)),
         Found(p, At(p, proc[p].lvl)),
         UNCHANGED <<program, tried>>
  PROVE  /\ Quiet(p)
         /\ proc'[p] = [proc[p] EXCEPT !.place = At(p, proc[p].lvl),
                                       !.pc = NextOf(proc[p].op)]
<1> DEFINE d == At(p, proc[p].lvl)
           l == NextOf(proc[p].op)
           c == [proc[p] EXCEPT !.place = d, !.pc = l]
<1>2. CallOK(p, proc[p])
  BY DEF ProcsOK
<1>1. proc' = [proc EXCEPT ![p] = c]
  <2>1. proc[p].op \in Ops
    BY <1>2 DEF CallOK, CallType
  <2> QED BY <2>1 DEF Found, NextOf, Ops
<1>3. /\ d \in DirIds
      /\ d = Place(Front(proc[p].key), Last(proc[p].key), proc[p].lvl)
  <2>1. proc[p].key \in Keys /\ proc[p].lvl \in Nat
    BY <1>2 DEF CallOK, CallType
  <2>2. proc[p].lvl \in 0..Len(Last(proc[p].key))
    BY <2>1, KeyParts
  <2> QED BY <2>1, <2>2, PlaceOf DEF At
<1> HIDE DEF d
<1>4. /\ l \in Pcs
      /\ proc[p].op = "iPut" => l = "statPlace"
      /\ proc[p].op = "iGet" => l = "openPlace"
      /\ proc[p].op = "iDelete" => l = "unlink"
      /\ proc[p].op = "iKeyDelete" => l = "readDir"
      /\ proc[p].op \in {"iPut", "iGet", "iDelete", "iKeyDelete"}
  BY <1>2 DEF CallOK, CallType, Ops, NextOf, Pcs, Making, Wiping
<1> HIDE DEF l
<1>5. c \in CallType
  BY <1>2, <1>3, <1>4 DEF CallOK, CallType
<1>6. /\ c.pc = l /\ c.op = proc[p].op /\ c.key = proc[p].key
      /\ c.lvl = proc[p].lvl /\ c.place = d /\ c.fd = proc[p].fd
      /\ c.val = proc[p].val
  BY <1>2 DEF CallOK, CallType
<1>7. FitsProgram(p, c)
  BY <1>2, <1>6 DEF CallOK, FitsProgram
<1>8. FitsOp(c)
  BY <1>4, <1>6 DEF FitsOp, Choosing, Making, Reading, Wiping, Looking
<1>9. FitsLevel(c)
  BY <1>3, <1>4, <1>6 DEF FitsLevel, Making, Wiping, Looking
<1>10. FitsFile(c)
  BY <1>2, <1>4, <1>6 DEF CallOK, FitsFile, Reading, Choosing, Looking
<1>11. CallOK(p, c)
  BY <1>5, <1>7, <1>8, <1>9, <1>10 DEF CallOK
<1>20. AckedOK'
  BY DEF Found, ProgramOK, AckedOK
<1>21. c.key = proc[p].key /\ c.op = proc[p].op /\ c.fd = proc[p].fd
  BY <1>2 DEF CallOK, CallType
<1> HIDE DEF c
<1>22. ProcsOK' /\ Others(p) /\ proc'[p] = c
  BY <1>1, <1>11, OneMoves
<1>23. Quiet(p)
  BY <1>20, <1>21, <1>22 DEF Quiet
<1> QED BY <1>22, <1>23 DEF c, d, l

LEMMA ReturnKeeps ==
  ASSUME ProgramOK, ProcsOK, NEW p \in Procs, proc[p] # Idle,
         NEW r, Return(p, r), UNCHANGED <<program, tried>>
  PROVE  Quiet(p) /\ proc'[p] = Idle
<1>1. CallOK(p, proc[p])
  BY DEF ProcsOK
<1>2. proc' = [proc EXCEPT ![p] = Idle]
  BY DEF Return
<1>3. proc[p].op = "iPut" => proc[p].val \in Values
  BY <1>1 DEF CallOK, CallType, FitsProgram, ProgramOK
<1>4. AckedOK'
  BY <1>3 DEF Return, ProgramOK, AckedOK
<1> QED BY <1>2, <1>4, OneMoves DEF Quiet

----------------------------------------------------------------------------
(* The calls, step by step.                                                *)

(* A directory that a put has chosen and not yet made.                     *)
Pending(p) == proc[p].pc \in {"statPlace", "mkdir"}

(* What a put knows of the directory it chooses: it is there, or there is  *)
(* room for it, or its level is forced.                                    *)
Allowed(d) ==
  \/ d \in dirs
  \/ iSubkeyCount(dirs, d.at, d.part) < IDBMaxPageCount
  \/ IDBPartitionFullProcess = dkIgnored /\ Len(d.name) = 1

Chosen(p) ==
  Pending(p)' => \/ Pending(p) /\ proc'[p].place = proc[p].place
                 \/ proc[p].pc # "idle" /\ Allowed(proc'[p].place)

LEMMA PageOfMissingLevel ==
  ASSUME TreeOK, NEW k \in Keys, NEW i \in 1..Len(Last(k)),
         Level(Front(k), Last(k), i) \notin dirs
  PROVE  Page(dirs, Front(k), SubSeq(Last(k), 1, i)) = {}
<1> DEFINE P == Front(k)
           l == Last(k)
<1>1. l \in Seq(Char) /\ i \in 1..Len(l)
  BY KeyParts
<1>2. Level(P, l, i) \notin dirs
  OBVIOUS
<1>3. SUFFICES ASSUME NEW x \in Page(dirs, P, SubSeq(l, 1, i)) PROVE FALSE
  OBVIOUS
<1> HIDE DEF P, l
<1>4. /\ Level(P, l, i) = [at |-> P, part |-> SubSeq(l, 1, i), name |-> <<>>]
      /\ SubSeq(l, 1, i) \in Seq(Char) /\ Len(SubSeq(l, 1, i)) = i
      /\ SubSeq(l, 1, i) # <<>>
  BY <1>1, LevelParts
<1>5. x \in dirs /\ x.at = P /\ x.part = SubSeq(l, 1, i) /\ x.name # <<>>
  BY <1>3 DEF Page
<1>6. Up(x) = Level(P, SubSeq(l, 1, i), i)
  BY <1>4, <1>5 DEF Up
<1>7. SubSeq(SubSeq(l, 1, i), 1, i) = SubSeq(l, 1, i)
  BY <1>4, SubSeqFull
<1>8. Up(x) = Level(P, l, i)
  BY <1>4, <1>6, <1>7 DEF Level
<1>9. Level(P, l, i) # Root
  BY <1>4 DEF Root
<1> QED BY <1>2, <1>5, <1>8, <1>9 DEF TreeOK

LEMMA PageOfMissingKey ==
  ASSUME TreeOK, NEW k \in Keys, Plain(Front(k)) \notin dirs \cup {Root}
  PROVE  Page(dirs, Front(k), <<>>) = {}
<1>1. SUFFICES ASSUME NEW x \in Page(dirs, Front(k), <<>>) PROVE FALSE
  OBVIOUS
<1>2. x \in dirs /\ x.at = Front(k) /\ x.part = <<>> /\ x.name # <<>>
  BY <1>1 DEF Page
<1>3. Up(x) = Plain(Front(k))
  BY <1>2, EmptySeq DEF Up, Level
<1> QED BY <1>2, <1>3 DEF TreeOK

LEMMA StatDirectKeeps ==
  ASSUME Typed, NEW p \in Procs, StatDirect(p), UNCHANGED <<program, tried>>
  PROVE  Quiet(p) /\ Chosen(p)
<1> DEFINE c == proc[p]
<1>1. /\ c # Idle /\ c.pc = "statDirect"
      /\ CallOK(p, c) /\ c \in CallType /\ c.key \in Keys
      /\ Len(Last(c.key)) \in Nat \ {0}
  BY CallFacts DEF StatDirect, Typed
<1>2. c.op # "iGet" /\ c.lvl = 0 /\ c.fd = 0
  BY <1>1 DEF CallOK, FitsOp, FitsLevel, FitsFile, Reading
<1>3. c.lvl < Len(Last(c.key))
  BY <1>1, <1>2
<1>4. CASE At(p, 0) \in dirs
  <2>1. Found(p, At(p, c.lvl))
    BY <1>2, <1>4 DEF StatDirect
  <2>2. c.pc \in Choosing \cup Looking \cup {"statDirect"}
    BY <1>1
  <2>3. /\ Quiet(p)
        /\ proc'[p] = [proc[p] EXCEPT !.place = At(p, proc[p].lvl),
                                      !.pc = NextOf(proc[p].op)]
    BY <1>1, <1>3, <2>1, <2>2, FoundKeeps DEF Typed
  <2> QED BY <1>1, <1>2, <1>4, <2>3 DEF Chosen, Allowed, CallType
<1>5. CASE At(p, 0) \notin dirs /\ c.op = "iPut"
  <2>1. Goto(p, "statParent")
    BY <1>5 DEF StatDirect
  <2>2. LET e == [c EXCEPT !.pc = "statParent"] IN FitsOp(e) /\ FitsLevel(e) /\ FitsFile(e)
    BY <1>1, <1>2, <1>3, <1>5
    DEF CallType, FitsOp, FitsLevel, FitsFile, Choosing, Making, Reading, Wiping, Looking
  <2>3. Quiet(p) /\ proc'[p] = [proc[p] EXCEPT !.pc = "statParent"]
    BY <1>1, <2>1, <2>2, GotoKeeps DEF Typed, Pcs, Choosing
  <2> QED BY <1>1, <2>3 DEF Chosen, Pending, CallType
<1>6. CASE At(p, 0) \notin dirs /\ c.op # "iPut"
  <2>1. GoDeeper(p, "lookLevel")
    BY <1>6 DEF StatDirect
  <2>2. LET e == [c EXCEPT !.pc = "lookLevel", !.lvl = c.lvl + 1]
        IN  FitsOp(e) /\ FitsLevel(e) /\ FitsFile(e)
    BY <1>1, <1>2, <1>3, <1>6
    DEF CallType, FitsOp, FitsLevel, FitsFile, Choosing, Making, Reading, Wiping, Looking
  <2>3. /\ Quiet(p)
        /\ proc'[p] = [proc[p] EXCEPT !.pc = "lookLevel", !.lvl = proc[p].lvl + 1]
    BY <1>1, <2>1, <2>2, GoDeeperKeeps DEF Typed, Pcs, Looking
  <2> QED BY <1>1, <2>3 DEF Chosen, Pending, CallType
<1> QED BY <1>4, <1>5, <1>6

LEMMA StatParentKeeps ==
  ASSUME Typed, NEW p \in Procs, StatParent(p), UNCHANGED <<program, tried>>
  PROVE  Quiet(p) /\ Chosen(p)
<1> DEFINE c == proc[p]
           d == At(p, 0)
<1>1. /\ c # Idle /\ c.pc = "statParent"
      /\ CallOK(p, c) /\ c \in CallType /\ c.key \in Keys
      /\ Len(Last(c.key)) \in Nat \ {0}
  BY CallFacts DEF StatParent, Typed
<1>2. c.op = "iPut" /\ c.fd = 0 /\ c.lvl = 0 /\ c.lvl < Len(Last(c.key))
  BY <1>1 DEF CallOK, FitsOp, FitsLevel, FitsFile, Choosing, Reading, Wiping
<1>3. c.pc \in Choosing \cup Looking \cup {"statDirect"}
  BY <1>1 DEF Choosing
<1>4. CASE LevelOf(p, 0) \in dirs \cup {Root}
  <2>1. Goto(p, "count")
    BY <1>4 DEF StatParent
  <2>2. LET e == [c EXCEPT !.pc = "count"] IN FitsOp(e) /\ FitsLevel(e) /\ FitsFile(e)
    BY <1>1, <1>2
    DEF CallType, FitsOp, FitsLevel, FitsFile, Choosing, Making, Reading, Wiping, Looking
  <2>3. Quiet(p) /\ proc'[p] = [proc[p] EXCEPT !.pc = "count"]
    BY <1>1, <2>1, <2>2, GotoKeeps DEF Typed, Pcs, Choosing
  <2> QED BY <1>1, <2>3 DEF Chosen, Pending, CallType
<1>5. CASE LevelOf(p, 0) \notin dirs \cup {Root}
  <2>1. Found(p, At(p, c.lvl))
    BY <1>2, <1>5 DEF StatParent
  <2>2. /\ Quiet(p)
        /\ proc'[p] = [proc[p] EXCEPT !.place = At(p, proc[p].lvl),
                                      !.pc = NextOf(proc[p].op)]
    BY <1>1, <1>2, <1>3, <2>1, FoundKeeps DEF Typed
  <2>3. d.at = Front(c.key) /\ d.part = <<>>
    <3>1. Last(c.key) \in Names /\ 0 \in 0..Len(Last(c.key))
      BY <1>1, KeyParts
    <3>2. Last(c.key) \in Seq(Char) /\ SubSeq(Last(c.key), 1, 0) = <<>>
      BY <1>1, KeyParts
    <3> QED BY <3>1, <3>2, PlaceParts DEF At
  <2>4. iSubkeyCount(dirs, d.at, d.part) < IDBMaxPageCount
    <3>1. Page(dirs, d.at, d.part) = {}
      BY <1>1, <1>5, <2>3, PageOfMissingKey DEF LevelOf, Level, Typed
    <3> QED BY <3>1, FS_EmptySet, OptionAssumption DEF iSubkeyCount
  <2> HIDE DEF d
  <2>5. proc'[p].place = d
    BY <1>1, <1>2, <2>2 DEF CallType, d
  <2> QED BY <1>1, <2>2, <2>4, <2>5 DEF Chosen, Allowed
<1> QED BY <1>4, <1>5

LEMMA CountLevelKeeps ==
  ASSUME Typed, NEW p \in Procs, CountLevel(p), UNCHANGED <<program, tried>>
  PROVE  Quiet(p) /\ Chosen(p)
<1> DEFINE c == proc[p]
           i == c.lvl
           d == At(p, i)
<1>1. /\ c # Idle /\ c.pc = "count"
      /\ CallOK(p, c) /\ c \in CallType /\ c.key \in Keys /\ i \in Nat
      /\ Len(Last(c.key)) \in Nat \ {0}
  BY CallFacts DEF CountLevel, Typed
<1>2. c.op = "iPut" /\ c.fd = 0 /\ i < Len(Last(c.key))
  BY <1>1 DEF CallOK, FitsOp, FitsLevel, FitsFile, Choosing, Reading, Wiping
<1>3. c.pc \in Choosing \cup Looking \cup {"statDirect"}
  BY <1>1 DEF Choosing
<1>4. /\ d.at = Front(c.key) /\ d.part = SubSeq(Last(c.key), 1, i)
      /\ Len(d.name) = Len(Last(c.key)) - i
  <2>1. Last(c.key) \in Names /\ i \in 0..Len(Last(c.key))
    BY <1>1, <1>2, KeyParts
  <2> QED BY <2>1, PlaceParts DEF At
<1>5. CASE Found(p, d) /\ Allowed(d)
  <2>1. /\ Quiet(p)
        /\ proc'[p] = [proc[p] EXCEPT !.place = At(p, proc[p].lvl),
                                      !.pc = NextOf(proc[p].op)]
    BY <1>1, <1>2, <1>3, <1>5, FoundKeeps DEF Typed
  <2> HIDE DEF d
  <2>2. proc'[p].place = d
    BY <1>1, <2>1 DEF CallType, d
  <2> QED BY <1>1, <1>5, <2>1, <2>2 DEF Chosen
<1>6. CASE i + 1 < Len(Last(c.key)) /\ GoDeeper(p, "statLevel")
  <2>1. LET e == [c EXCEPT !.pc = "statLevel", !.lvl = c.lvl + 1]
        IN  FitsOp(e) /\ FitsLevel(e) /\ FitsFile(e)
    BY <1>1, <1>2, <1>6
    DEF CallType, FitsOp, FitsLevel, FitsFile, Choosing, Making, Reading, Wiping, Looking
  <2>2. /\ Quiet(p)
        /\ proc'[p] = [proc[p] EXCEPT !.pc = "statLevel", !.lvl = proc[p].lvl + 1]
    BY <1>1, <1>6, <2>1, GoDeeperKeeps DEF Typed, Pcs, Choosing
  <2> QED BY <1>1, <2>2 DEF Chosen, Pending, CallType
<1>7. CASE Return(p, IDB_ERR_PART_FULL)
  <2>1. Quiet(p) /\ proc'[p] = Idle
    BY <1>1, <1>7, ReturnKeeps DEF Typed
  <2> QED BY <2>1 DEF Chosen, Pending, Idle
<1>8. \/ Found(p, d) /\ Allowed(d)
      \/ i + 1 < Len(Last(c.key)) /\ GoDeeper(p, "statLevel")
      \/ Return(p, IDB_ERR_PART_FULL)
  <2>1. CASE HasRoom(p)
    BY <1>4, <2>1 DEF CountLevel, HasRoom, Allowed
  <2>2. CASE ~HasRoom(p) /\ i + 1 < Len(Last(c.key))
    BY <2>2 DEF CountLevel
  <2>3. CASE ~HasRoom(p) /\ ~(i + 1 < Len(Last(c.key)))
    <3>1. Len(d.name) = 1
      BY <1>1, <1>2, <1>4, <2>3
    <3> QED BY <2>3, <3>1 DEF CountLevel, Allowed
  <2> QED BY <2>1, <2>2, <2>3
<1> QED BY <1>5, <1>6, <1>7, <1>8

LEMMA StatLevelKeeps ==
  ASSUME Typed, NEW p \in Procs, StatLevel(p), UNCHANGED <<program, tried>>
  PROVE  Quiet(p) /\ Chosen(p)
<1> DEFINE c == proc[p]
           i == c.lvl
           d == At(p, i)
<1>1. /\ c # Idle /\ c.pc = "statLevel"
      /\ CallOK(p, c) /\ c \in CallType /\ c.key \in Keys /\ i \in Nat
      /\ Len(Last(c.key)) \in Nat \ {0}
  BY CallFacts DEF StatLevel, Typed
<1>2. c.op = "iPut" /\ c.fd = 0 /\ i < Len(Last(c.key))
  BY <1>1 DEF CallOK, FitsOp, FitsLevel, FitsFile, Choosing, Reading, Wiping
<1>3. c.pc \in Choosing \cup Looking \cup {"statDirect"}
  BY <1>1 DEF Choosing
<1>4. CASE LevelOf(p, i) \in dirs
  <2>1. Goto(p, "statRest")
    BY <1>4 DEF StatLevel
  <2>2. LET e == [c EXCEPT !.pc = "statRest"] IN FitsOp(e) /\ FitsLevel(e) /\ FitsFile(e)
    BY <1>1, <1>2
    DEF CallType, FitsOp, FitsLevel, FitsFile, Choosing, Making, Reading, Wiping, Looking
  <2>3. Quiet(p) /\ proc'[p] = [proc[p] EXCEPT !.pc = "statRest"]
    BY <1>1, <2>1, <2>2, GotoKeeps DEF Typed, Pcs, Choosing
  <2> QED BY <1>1, <2>3 DEF Chosen, Pending, CallType
<1>5. CASE LevelOf(p, i) \notin dirs
  <2>1. Found(p, d)
    BY <1>5 DEF StatLevel
  <2>2. /\ Quiet(p)
        /\ proc'[p] = [proc[p] EXCEPT !.place = At(p, proc[p].lvl),
                                      !.pc = NextOf(proc[p].op)]
    BY <1>1, <1>2, <1>3, <2>1, FoundKeeps DEF Typed
  <2>3. d.at = Front(c.key) /\ d.part = SubSeq(Last(c.key), 1, i)
    <3>1. Last(c.key) \in Names /\ i \in 0..Len(Last(c.key))
      BY <1>1, <1>2, KeyParts
    <3> QED BY <3>1, PlaceParts DEF At
  <2>4. iSubkeyCount(dirs, d.at, d.part) < IDBMaxPageCount
    <3>1. i \in 1..Len(Last(c.key))
      BY <1>1 DEF CallOK, FitsLevel
    <3>2. Page(dirs, d.at, d.part) = {}
      BY <1>1, <1>5, <2>3, <3>1, PageOfMissingLevel DEF LevelOf, Typed
    <3> QED BY <3>2, FS_EmptySet, OptionAssumption DEF iSubkeyCount
  <2> HIDE DEF d
  <2>5. proc'[p].place = d
    BY <1>1, <2>2 DEF CallType, d
  <2> QED BY <1>1, <2>2, <2>4, <2>5 DEF Chosen, Allowed
<1> QED BY <1>4, <1>5

LEMMA StatRestKeeps ==
  ASSUME Typed, NEW p \in Procs, StatRest(p), UNCHANGED <<program, tried>>
  PROVE  Quiet(p) /\ Chosen(p)
<1> DEFINE c == proc[p]
           i == c.lvl
           d == At(p, i)
<1>1. /\ c # Idle /\ c.pc = "statRest"
      /\ CallOK(p, c) /\ c \in CallType /\ c.key \in Keys /\ i \in Nat
      /\ Len(Last(c.key)) \in Nat \ {0}
  BY CallFacts DEF StatRest, Typed
<1>2. c.op = "iPut" /\ c.fd = 0 /\ i < Len(Last(c.key))
  BY <1>1 DEF CallOK, FitsOp, FitsLevel, FitsFile, Choosing, Reading, Wiping
<1>3. c.pc \in Choosing \cup Looking \cup {"statDirect"}
  BY <1>1 DEF Choosing
<1>4. CASE d \notin dirs
  <2>1. Goto(p, "count")
    BY <1>4 DEF StatRest
  <2>2. LET e == [c EXCEPT !.pc = "count"] IN FitsOp(e) /\ FitsLevel(e) /\ FitsFile(e)
    BY <1>1, <1>2
    DEF CallType, FitsOp, FitsLevel, FitsFile, Choosing, Making, Reading, Wiping, Looking
  <2>3. Quiet(p) /\ proc'[p] = [proc[p] EXCEPT !.pc = "count"]
    BY <1>1, <2>1, <2>2, GotoKeeps DEF Typed, Pcs, Choosing
  <2> QED BY <1>1, <2>3 DEF Chosen, Pending, CallType
<1>5. CASE d \in dirs
  <2>1. Found(p, d)
    BY <1>5 DEF StatRest
  <2>2. /\ Quiet(p)
        /\ proc'[p] = [proc[p] EXCEPT !.place = At(p, proc[p].lvl),
                                      !.pc = NextOf(proc[p].op)]
    BY <1>1, <1>2, <1>3, <2>1, FoundKeeps DEF Typed
  <2> HIDE DEF d
  <2>3. proc'[p].place = d
    BY <1>1, <2>2 DEF CallType, d
  <2> QED BY <1>1, <1>5, <2>2, <2>3 DEF Chosen, Allowed
<1> QED BY <1>4, <1>5

LEMMA StatPlaceKeeps ==
  ASSUME Typed, NEW p \in Procs, StatPlace(p), UNCHANGED <<program, tried>>
  PROVE  Quiet(p) /\ Chosen(p)
<1> DEFINE c == proc[p]
           l == IF c.place \in dirs THEN "openWrite" ELSE "mkdir"
<1>1. /\ c # Idle /\ c.pc = "statPlace"
      /\ CallOK(p, c) /\ c \in CallType /\ c.key \in Keys
      /\ Len(Last(c.key)) \in Nat \ {0}
  BY CallFacts DEF StatPlace, Typed
<1>2. c.op = "iPut" /\ c.fd = 0 /\ c.lvl < Len(Last(c.key))
      /\ c.place = Place(Front(c.key), Last(c.key), c.lvl)
  BY <1>1 DEF CallOK, FitsOp, FitsLevel, FitsFile, Making, Reading, Wiping
<1>3. Goto(p, l) /\ l \in {"openWrite", "mkdir"}
  BY DEF StatPlace
<1> HIDE DEF l
<1>4. LET e == [c EXCEPT !.pc = l] IN FitsOp(e) /\ FitsLevel(e) /\ FitsFile(e)
  BY <1>1, <1>2, <1>3
  DEF CallType, FitsOp, FitsLevel, FitsFile, Choosing, Making, Reading, Wiping, Looking
<1>5. Quiet(p) /\ proc'[p] = [proc[p] EXCEPT !.pc = l]
  BY <1>1, <1>3, <1>4, GotoKeeps DEF Typed, Pcs, Making
<1> QED BY <1>1, <1>3, <1>5 DEF Chosen, Pending, CallType

LEMMA LookLevelKeeps ==
  ASSUME Typed, NEW p \in Procs, LookLevel(p), UNCHANGED <<program, tried>>
  PROVE  Quiet(p) /\ Chosen(p)
<1> DEFINE c == proc[p]
           i == c.lvl
<1>1. /\ c # Idle /\ c.pc = "lookLevel"
      /\ CallOK(p, c) /\ c \in CallType /\ c.key \in Keys /\ i \in Nat
      /\ Len(Last(c.key)) \in Nat \ {0}
  BY CallFacts DEF LookLevel, Typed
<1>2. c.op # "iPut" /\ c.fd = 0 /\ i \in 1..Len(Last(c.key))
  BY <1>1 DEF CallOK, FitsOp, FitsLevel, FitsFile, Looking, Reading
<1>3. CASE LevelOf(p, i) \in dirs
  <2>1. Goto(p, "lookRest")
    BY <1>3 DEF LookLevel
  <2>2. i < Len(Last(c.key))
    BY <1>1, <1>2, <1>3, LevelIsShort DEF LevelOf, Typed
  <2>3. LET e == [c EXCEPT !.pc = "lookRest"] IN FitsOp(e) /\ FitsLevel(e) /\ FitsFile(e)
    BY <1>1, <1>2, <2>2
    DEF CallType, FitsOp, FitsLevel, FitsFile, Choosing, Making, Reading, Wiping, Looking
  <2>4. Quiet(p) /\ proc'[p] = [proc[p] EXCEPT !.pc = "lookRest"]
    BY <1>1, <2>1, <2>3, GotoKeeps DEF Typed, Pcs, Looking
  <2> QED BY <1>1, <2>4 DEF Chosen, Pending, CallType
<1>4. CASE LevelOf(p, i) \notin dirs
  <2>1. PICK r : Return(p, r)
    BY <1>4 DEF LookLevel
  <2>2. Quiet(p) /\ proc'[p] = Idle
    BY <1>1, <2>1, ReturnKeeps DEF Typed
  <2> QED BY <2>2 DEF Chosen, Pending, Idle
<1> QED BY <1>3, <1>4

LEMMA LookRestKeeps ==
  ASSUME Typed, NEW p \in Procs, LookRest(p), UNCHANGED <<program, tried>>
  PROVE  Quiet(p) /\ Chosen(p)
<1> DEFINE c == proc[p]
           i == c.lvl
           d == At(p, i)
<1>1. /\ c # Idle /\ c.pc = "lookRest"
      /\ CallOK(p, c) /\ c \in CallType /\ c.key \in Keys /\ i \in Nat
      /\ c.op \in Ops /\ Len(Last(c.key)) \in Nat \ {0}
  BY CallFacts DEF LookRest, Typed
<1>2. c.op # "iPut" /\ c.fd = 0 /\ i < Len(Last(c.key))
  BY <1>1 DEF CallOK, FitsOp, FitsLevel, FitsFile, Looking, Reading, Wiping
<1>3. c.pc \in Choosing \cup Looking \cup {"statDirect"}
  BY <1>1 DEF Looking
<1>4. CASE d \in dirs
  <2>1. Found(p, d)
    BY <1>4 DEF LookRest
  <2>2. /\ Quiet(p)
        /\ proc'[p] = [proc[p] EXCEPT !.place = At(p, proc[p].lvl),
                                      !.pc = NextOf(proc[p].op)]
    BY <1>1, <1>2, <1>3, <2>1, FoundKeeps DEF Typed
  <2> HIDE DEF d
  <2>3. proc'[p].place = d
    BY <1>1, <2>2 DEF CallType, d
  <2> QED BY <1>1, <1>4, <2>2, <2>3 DEF Chosen, Allowed
<1>5. CASE d \notin dirs
  <2>1. GoDeeper(p, "lookLevel")
    BY <1>5 DEF LookRest
  <2>2. LET e == [c EXCEPT !.pc = "lookLevel", !.lvl = c.lvl + 1]
        IN  FitsOp(e) /\ FitsLevel(e) /\ FitsFile(e)
    BY <1>1, <1>2
    DEF CallType, FitsOp, FitsLevel, FitsFile, Choosing, Making, Reading, Wiping, Looking
  <2>3. /\ Quiet(p)
        /\ proc'[p] = [proc[p] EXCEPT !.pc = "lookLevel", !.lvl = proc[p].lvl + 1]
    BY <1>1, <2>1, <2>2, GoDeeperKeeps DEF Typed, Pcs, Looking
  <2> QED BY <1>1, <2>3 DEF Chosen, Pending, CallType
<1> QED BY <1>4, <1>5

LEMMA LseekKeeps ==
  ASSUME Typed, NEW p \in Procs, Lseek(p), UNCHANGED <<program, tried>>
  PROVE  Quiet(p) /\ Chosen(p)
<1> DEFINE c == proc[p]
           n == Len(data[c.fd])
           e == [c EXCEPT !.size = n, !.pc = "read"]
<1>1. /\ c # Idle /\ c.pc = "lseek"
      /\ CallOK(p, c) /\ c \in CallType /\ c.key \in Keys
      /\ Len(Last(c.key)) \in Nat \ {0}
  BY CallFacts DEF Lseek, Typed
<1>2. c.op = "iGet" /\ c.fd \in Inodes /\ c.lvl < Len(Last(c.key))
  BY <1>1 DEF CallOK, FitsOp, FitsLevel, FitsFile, Looking, Reading, Wiping
<1>3. n \in Nat
  BY <1>2, LenProperties DEF Typed, FilesOK, Bytes
<1>4. proc' = [proc EXCEPT ![p] = e]
  BY DEF Lseek
<1> HIDE DEF n
<1>5. e \in CallType /\ "read" \in Pcs
  BY <1>1, <1>3 DEF CallType, Pcs, Reading
<1>6. FitsOp(e) /\ FitsLevel(e) /\ FitsFile(e) /\ FitsProgram(p, e)
  BY <1>1, <1>2
  DEF CallType, CallOK, FitsOp, FitsLevel, FitsFile, FitsProgram,
      Choosing, Making, Reading, Wiping, Looking
<1>7. e.pc = "read" /\ e.op = c.op /\ e.key = c.key /\ e.fd = c.fd
  BY <1>1 DEF CallType
<1> HIDE DEF e
<1>8. ProcsOK' /\ Others(p) /\ proc'[p] = e
  BY <1>4, <1>5, <1>6, OneMoves DEF CallOK, Typed
<1>9. AckedOK'
  BY DEF Lseek, Typed, ProgramOK, AckedOK
<1> QED BY <1>1, <1>7, <1>8, <1>9 DEF Quiet, Chosen, Pending

LEMMA ReadFileKeeps ==
  ASSUME Typed, NEW p \in Procs, ReadFile(p), UNCHANGED <<program, tried>>
  PROVE  Quiet(p) /\ Chosen(p)
<1>1. proc[p] # Idle /\ \E r : Return(p, r)
  BY CallFacts DEF ReadFile, Typed
<1>2. Quiet(p) /\ proc'[p] = Idle
  BY <1>1, ReturnKeeps DEF Typed
<1> QED BY <1>2 DEF Chosen, Pending, Idle

LEMMA UnlinkKeeps ==
  ASSUME Typed, NEW p \in Procs, Unlink(p), UNCHANGED <<program, tried>>
  PROVE  Quiet(p) /\ Chosen(p)
<1>1. proc[p] # Idle /\ \E r : Return(p, r)
  BY CallFacts DEF Unlink, Typed
<1>2. Quiet(p) /\ proc'[p] = Idle
  BY <1>1, ReturnKeeps DEF Typed
<1> QED BY <1>2 DEF Chosen, Pending, Idle

LEMMA WriteKeeps ==
  ASSUME Typed, NEW p \in Procs, Write(p), UNCHANGED <<program, tried>>
  PROVE  Quiet(p) /\ Chosen(p)
<1>1. proc[p] # Idle /\ \E r : Return(p, r)
  BY CallFacts DEF Write, Typed
<1>2. Quiet(p) /\ proc'[p] = Idle
  BY <1>1, ReturnKeeps DEF Typed
<1> QED BY <1>2 DEF Chosen, Pending, Idle

(* Deleting a tree: what is still to do is a list of directories to read,  *)
(* files and directories to remove.                                        *)
Item == [pc : Wiping, dir : DirIds]

LEMMA GoOnKeeps ==
  ASSUME Typed, NEW p \in Procs, proc[p].pc \in Wiping,
         NEW todo \in Seq(Item), GoOn(p, todo), UNCHANGED <<program, tried>>
  PROVE  Quiet(p) /\ Chosen(p)
<1> DEFINE c == proc[p]
<1>1. /\ c # Idle /\ CallOK(p, c) /\ c \in CallType /\ c.key \in Keys
  BY CallFacts DEF Wiping, Typed
<1>2. c.op = "iKeyDelete" /\ c.fd = 0
  BY <1>1 DEF CallOK, FitsOp, FitsFile, Wiping, Reading
<1>3. CASE todo = <<>>
  <2>1. Return(p, TRUE)
    BY <1>3 DEF GoOn
  <2>2. Quiet(p) /\ proc'[p] = Idle
    BY <1>1, <2>1, ReturnKeeps DEF Typed
  <2> QED BY <2>2 DEF Chosen, Pending, Idle
<1>4. CASE todo # <<>>
  <2> DEFINE x == todo[1]
             r == Tail(todo)
             e == [c EXCEPT !.pc = x.pc, !.place = x.dir, !.todo = r]
  <2>1. proc' = [proc EXCEPT ![p] = e] /\ UNCHANGED acked
    BY <1>4 DEF GoOn
  <2>2. x \in Item /\ r \in Seq(Item)
    <3>1. Len(todo) \in Nat \ {0}
      BY <1>4, EmptySeq
    <3>2. 1 \in 1..Len(todo)
      BY <3>1
    <3> QED BY <1>4, <3>2, ElementOfSeq, HeadTailProperties
  <2> HIDE DEF x, r
  <2>3. x.pc \in Wiping /\ x.dir \in DirIds
    BY <2>2 DEF Item
  <2>4. e \in CallType
    BY <1>1, <2>2, <2>3 DEF CallType, Pcs, Item
  <2>5. /\ e.pc = x.pc /\ e.op = "iKeyDelete" /\ e.key = c.key /\ e.fd = 0
        /\ e.lvl = c.lvl
    BY <1>1, <1>2 DEF CallType
  <2> HIDE DEF e
  <2>6. FitsOp(e)
    BY <2>3, <2>5 DEF FitsOp, Choosing, Making, Reading, Wiping, Looking
  <2>7. FitsLevel(e) /\ FitsFile(e) /\ FitsProgram(p, e)
    BY <2>3, <2>5 DEF FitsLevel, FitsFile, FitsProgram, Making, Reading, Wiping, Looking
  <2>8. CallOK(p, e)
    BY <2>4, <2>6, <2>7 DEF CallOK
  <2>9. ProcsOK' /\ Others(p) /\ proc'[p] = e
    BY <2>1, <2>8, OneMoves DEF Typed
  <2>10. AckedOK'
    BY <2>1 DEF Typed, ProgramOK, AckedOK
  <2> QED BY <1>1, <1>2, <2>3, <2>5, <2>9, <2>10 DEF Quiet, Chosen, Pending, Wiping
<1> QED BY <1>3, <1>4

LEMMA EntriesType ==
  ASSUME TreeOK, NEW d \in DirIds, NEW order \in SetToSeqs(Entries(d))
  PROVE  order \in Seq(Item)
<1> DEFINE C == Children(d)
           R == {[pc |-> "readDir", dir |-> x] : x \in C}
           U == IF d \in DOMAIN file THEN {[pc |-> "unlinkDir", dir |-> d]} ELSE {}
           f == [x \in C |-> [pc |-> "readDir", dir |-> x]]
<1>1. C \subseteq dirs
  BY DEF Children
<1>2. IsFiniteSet(C) /\ C \subseteq DirIds
  BY <1>1, FS_Subset DEF TreeOK
<1>3. f \in Surjection(C, R)
  BY DEF Surjection
<1>4. R \subseteq Item /\ U \subseteq Item
  BY <1>2 DEF Item, Wiping
<1>5. Entries(d) = R \cup U
  BY DEF Entries
<1> HIDE DEF C, R, f
<1>6. IsFiniteSet(U)
  BY FS_EmptySet, FS_Singleton
<1> HIDE DEF U
<1>7. IsFiniteSet(R \cup U)
  BY <1>2, <1>3, <1>6, FS_Surjection, FS_Union
<1>8. PICK n \in Nat : n = Cardinality(R \cup U)
  BY <1>7, FS_CardinalityType
<1>9. order \in [1..n -> R \cup U]
  BY <1>5, <1>8 DEF SetToSeqs
<1>10. order \in [1..n -> Item]
  BY <1>4, <1>9
<1> QED BY <1>10

LEMMA ReadDirKeeps ==
  ASSUME Typed, NEW p \in Procs, ReadDir(p), UNCHANGED <<program, tried>>
  PROVE  Quiet(p) /\ Chosen(p)
<1> DEFINE c == proc[p]
           d == c.place
<1>1. /\ c # Idle /\ c \in CallType /\ c.pc \in Wiping
  BY CallFacts DEF ReadDir, Typed, Wiping
<1>2. d \in DirIds /\ c.todo \in Seq(Item)
  BY <1>1 DEF CallType, Item
<1>3. CASE Return(p, FALSE)
  <2>1. Quiet(p) /\ proc'[p] = Idle
    BY <1>1, <1>3, ReturnKeeps DEF Typed
  <2> QED BY <2>1 DEF Chosen, Pending, Idle
<1>4. CASE \E order \in SetToSeqs(Entries(d)) :
             GoOn(p, Append(order, [pc |-> "rmdir", dir |-> d]) \o c.todo)
  <2>1. PICK order \in SetToSeqs(Entries(d)) :
          GoOn(p, Append(order, [pc |-> "rmdir", dir |-> d]) \o c.todo)
    BY <1>4
  <2>2. order \in Seq(Item)
    BY <1>2, EntriesType DEF Typed
  <2>3. [pc |-> "rmdir", dir |-> d] \in Item
    BY <1>2 DEF Item, Wiping
  <2>4. Append(order, [pc |-> "rmdir", dir |-> d]) \in Seq(Item)
    BY <2>2, <2>3, AppendProperties
  <2>5. Append(order, [pc |-> "rmdir", dir |-> d]) \o c.todo \in Seq(Item)
    BY <1>2, <2>4, ConcatProperties
  <2> QED BY <1>1, <2>1, <2>5, GoOnKeeps
<1> QED BY <1>3, <1>4 DEF ReadDir

LEMMA UnlinkDirKeeps ==
  ASSUME Typed, NEW p \in Procs, UnlinkDir(p), UNCHANGED <<program, tried>>
  PROVE  Quiet(p) /\ Chosen(p)
<1> DEFINE c == proc[p]
<1>1. /\ c # Idle /\ c \in CallType /\ c.pc \in Wiping
  BY CallFacts DEF UnlinkDir, Typed, Wiping
<1>2. c.todo \in Seq(Item)
  BY <1>1 DEF CallType, Item
<1>3. CASE Return(p, FALSE)
  <2>1. Quiet(p) /\ proc'[p] = Idle
    BY <1>1, <1>3, ReturnKeeps DEF Typed
  <2> QED BY <2>1 DEF Chosen, Pending, Idle
<1>4. CASE GoOn(p, c.todo)
  BY <1>1, <1>2, <1>4, GoOnKeeps
<1> QED BY <1>3, <1>4 DEF UnlinkDir

LEMMA RmdirKeeps ==
  ASSUME Typed, NEW p \in Procs, Rmdir(p), UNCHANGED <<program, tried>>
  PROVE  Quiet(p) /\ Chosen(p)
<1> DEFINE c == proc[p]
<1>1. /\ c # Idle /\ c \in CallType /\ c.pc \in Wiping
  BY CallFacts DEF Rmdir, Typed, Wiping
<1>2. c.todo \in Seq(Item)
  BY <1>1 DEF CallType, Item
<1>3. CASE Return(p, FALSE)
  <2>1. Quiet(p) /\ proc'[p] = Idle
    BY <1>1, <1>3, ReturnKeeps DEF Typed
  <2> QED BY <2>1 DEF Chosen, Pending, Idle
<1>4. CASE GoOn(p, c.todo)
  BY <1>1, <1>2, <1>4, GoOnKeeps
<1> QED BY <1>3, <1>4 DEF Rmdir

LEMMA MkdirKeeps ==
  ASSUME Typed, NEW p \in Procs, Mkdir(p), UNCHANGED <<program, tried>>
  PROVE  Quiet(p) /\ Chosen(p)
<1> DEFINE c == proc[p]
           m == c.made + 1
           l == IF Up(Target(p)) \in dirs \cup {Root} /\ Target(p) # c.place
                THEN "mkdir" ELSE "openWrite"
           e == [c EXCEPT !.made = m, !.pc = l]
<1>1. /\ c # Idle /\ c.pc = "mkdir"
      /\ CallOK(p, c) /\ c \in CallType /\ c.key \in Keys
      /\ Len(Last(c.key)) \in Nat \ {0}
  BY CallFacts DEF Mkdir, Typed
<1>2. c.op = "iPut" /\ c.fd = 0 /\ c.lvl < Len(Last(c.key))
      /\ c.place = Place(Front(c.key), Last(c.key), c.lvl)
  BY <1>1 DEF CallOK, FitsOp, FitsLevel, FitsFile, Making, Reading, Wiping
<1>3. m \in Nat
  BY <1>1 DEF CallType
<1>4. proc' = [proc EXCEPT ![p] = e] /\ l \in {"mkdir", "openWrite"}
  BY DEF Mkdir
<1> HIDE DEF l, m
<1>5. e \in CallType
  BY <1>1, <1>3, <1>4 DEF CallType, Pcs, Making
<1>6. /\ e.pc = l /\ e.op = "iPut" /\ e.key = c.key /\ e.fd = 0
      /\ e.lvl = c.lvl /\ e.place = c.place /\ e.val = c.val
  BY <1>1, <1>2 DEF CallType
<1> HIDE DEF e
<1>7. FitsOp(e) /\ FitsLevel(e) /\ FitsFile(e) /\ FitsProgram(p, e)
  BY <1>1, <1>2, <1>4, <1>6
  DEF CallOK, FitsOp, FitsLevel, FitsFile, FitsProgram,
      Choosing, Making, Reading, Wiping, Looking
<1>8. CallOK(p, e)
  BY <1>5, <1>7 DEF CallOK
<1>9. ProcsOK' /\ Others(p) /\ proc'[p] = e
  BY <1>4, <1>8, OneMoves DEF Typed
<1>10. AckedOK'
  BY DEF Mkdir, Typed, ProgramOK, AckedOK
<1> QED BY <1>1, <1>2, <1>6, <1>9, <1>10 DEF Quiet, Chosen, Pending

(* A step that opens the file n.                                           *)
Opens(p, n) ==
  /\ ProcsOK' /\ Others(p) /\ AckedOK'
  /\ proc[p] # Idle
  /\ proc'[p] # Idle
  /\ proc'[p].key = proc[p].key
  /\ proc'[p].fd = n

LEMMA OpenDirectKeeps ==
  ASSUME Typed, NEW p \in Procs, OpenDirect(p), UNCHANGED <<program, tried>>
  PROVE  /\ Chosen(p)
         /\ \/ Quiet(p)
            \/ \E d \in DOMAIN file : /\ Owner(d) = proc[p].key
                                      /\ Opens(p, file[d]) /\ proc'[p].pc = "lseek"
<1> DEFINE c == proc[p]
           d == At(p, 0)
<1>1. /\ c # Idle /\ c.pc = "openDirect"
      /\ CallOK(p, c) /\ c \in CallType /\ c.key \in Keys /\ c.lvl \in Nat
      /\ Len(Last(c.key)) \in Nat \ {0}
  BY CallFacts DEF OpenDirect, Typed
<1>2. c.op = "iGet" /\ c.fd = 0 /\ c.lvl = 0
  BY <1>1 DEF CallOK, FitsOp, FitsLevel, FitsFile, Looking, Reading
<1>3. CASE d \notin DOMAIN file
  <2>1. GoDeeper(p, "lookLevel")
    BY <1>3 DEF OpenDirect
  <2>2. LET e == [c EXCEPT !.pc = "lookLevel", !.lvl = c.lvl + 1]
        IN  FitsOp(e) /\ FitsLevel(e) /\ FitsFile(e)
    BY <1>1, <1>2
    DEF CallType, FitsOp, FitsLevel, FitsFile, Choosing, Making, Reading, Wiping, Looking
  <2>3. /\ Quiet(p)
        /\ proc'[p] = [proc[p] EXCEPT !.pc = "lookLevel", !.lvl = proc[p].lvl + 1]
    BY <1>1, <2>1, <2>2, GoDeeperKeeps DEF Typed, Pcs, Looking
  <2> QED BY <1>1, <2>3 DEF Chosen, Pending, CallType
<1>4. CASE d \in DOMAIN file
  <2>1. Opened(p, file[d], "lseek") /\ file[d] \in Inodes
    BY <1>4 DEF OpenDirect, Typed, FilesOK
  <2>2. Owner(d) = c.key
    <3>1. 0 \in 0..Len(Last(c.key))
      BY <1>1
    <3> QED BY <1>1, <3>1, PlaceOf DEF At
  <2>3. PICK n \in Inodes : n = file[d]
    BY <2>1
  <2>4. LET e == [c EXCEPT !.pc = "lseek", !.fd = n]
        IN  FitsOp(e) /\ FitsLevel(e) /\ FitsFile(e)
    BY <1>1, <1>2
    DEF CallType, FitsOp, FitsLevel, FitsFile, Choosing, Making, Reading, Wiping, Looking
  <2>5. /\ ProcsOK' /\ Others(p) /\ AckedOK'
        /\ proc'[p] = [proc[p] EXCEPT !.pc = "lseek", !.fd = n]
    <3>1. Opened(p, n, "lseek") /\ "lseek" \in Pcs /\ n \in Inodes
      BY <2>1, <2>3 DEF Pcs, Reading
    <3>2. ProgramOK /\ ProcsOK /\ proc[p] # Idle
      BY <1>1 DEF Typed
    <3> HIDE DEF c
    <3> QED BY <3>1, <3>2, <2>4, OpenedKeeps DEF c
  <2>6. proc'[p].pc = "lseek" /\ proc'[p].key = c.key /\ proc'[p].fd = n
    BY <1>1, <2>5 DEF CallType
  <2>7. proc'[p] # Idle
    BY <2>6 DEF Idle
  <2> QED BY <1>1, <1>4, <2>2, <2>3, <2>5, <2>6, <2>7 DEF Chosen, Pending, Opens
<1> QED BY <1>3, <1>4

LEMMA OpenPlaceKeeps ==
  ASSUME Typed, NEW p \in Procs, OpenPlace(p), UNCHANGED <<program, tried>>
  PROVE  /\ Chosen(p)
         /\ \/ Quiet(p)
            \/ \E d \in DOMAIN file : /\ Owner(d) = proc[p].key
                                      /\ Opens(p, file[d]) /\ proc'[p].pc = "lseek"
<1> DEFINE c == proc[p]
           d == c.place
<1>1. /\ c # Idle /\ c.pc = "openPlace"
      /\ CallOK(p, c) /\ c \in CallType /\ c.key \in Keys /\ c.lvl \in Nat
      /\ Len(Last(c.key)) \in Nat \ {0}
  BY CallFacts DEF OpenPlace, Typed
<1>2. /\ c.op = "iGet" /\ c.fd = 0 /\ c.lvl < Len(Last(c.key))
      /\ d = Place(Front(c.key), Last(c.key), c.lvl)
  BY <1>1 DEF CallOK, FitsOp, FitsLevel, FitsFile, Looking, Reading, Wiping
<1>3. CASE d \notin DOMAIN file
  <2>1. Return(p, NoValue)
    BY <1>3 DEF OpenPlace
  <2>2. Quiet(p) /\ proc'[p] = Idle
    BY <1>1, <2>1, ReturnKeeps DEF Typed
  <2> QED BY <2>2 DEF Chosen, Pending, Idle
<1>4. CASE d \in DOMAIN file
  <2>1. Opened(p, file[d], "lseek") /\ file[d] \in Inodes
    BY <1>4 DEF OpenPlace, Typed, FilesOK
  <2>2. Owner(d) = c.key
    <3>1. c.lvl \in 0..Len(Last(c.key))
      BY <1>1, <1>2
    <3> QED BY <1>1, <1>2, <3>1, PlaceOf
  <2>3. PICK n \in Inodes : n = file[d]
    BY <2>1
  <2>4. LET e == [c EXCEPT !.pc = "lseek", !.fd = n]
        IN  FitsOp(e) /\ FitsLevel(e) /\ FitsFile(e)
    BY <1>1, <1>2
    DEF CallType, FitsOp, FitsLevel, FitsFile, Choosing, Making, Reading, Wiping, Looking
  <2>5. /\ ProcsOK' /\ Others(p) /\ AckedOK'
        /\ proc'[p] = [proc[p] EXCEPT !.pc = "lseek", !.fd = n]
    <3>1. Opened(p, n, "lseek") /\ "lseek" \in Pcs /\ n \in Inodes
      BY <2>1, <2>3 DEF Pcs, Reading
    <3>2. ProgramOK /\ ProcsOK /\ proc[p] # Idle
      BY <1>1 DEF Typed
    <3> HIDE DEF c
    <3> QED BY <3>1, <3>2, <2>4, OpenedKeeps DEF c
  <2>6. proc'[p].pc = "lseek" /\ proc'[p].key = c.key /\ proc'[p].fd = n
    BY <1>1, <2>5 DEF CallType
  <2>7. proc'[p] # Idle
    BY <2>6 DEF Idle
  <2> QED BY <1>1, <1>4, <2>2, <2>3, <2>5, <2>6, <2>7 DEF Chosen, Pending, Opens
<1> QED BY <1>3, <1>4

(* open with O_CREAT and O_TRUNC: the file n of the key is empty, and new  *)
(* if nothing else holds it.                                               *)
OpensNew(p, d, n) ==
  /\ Opens(p, n) /\ n \in Inodes
  /\ d \in dirs /\ Owner(d) = proc[p].key /\ d.name # <<>>
  /\ file' = [x \in DOMAIN file \cup {d} |-> IF x = d THEN n ELSE file[x]]
  /\ data' = [data EXCEPT ![n] = <<>>]
  /\ IF d \in DOMAIN file THEN file[d] = n ELSE n \notin InUse
  /\ proc'[p].pc = "write"

LEMMA OpenWriteKeeps ==
  ASSUME Typed, NEW p \in Procs, OpenWrite(p), UNCHANGED <<program, tried>>
  PROVE  /\ Chosen(p)
         /\ UNCHANGED dirs
         /\ \/ Quiet(p) /\ proc'[p] = Idle /\ UNCHANGED <<file, data>>
            \/ \E d, n : OpensNew(p, d, n)
<1> DEFINE c == proc[p]
           d == c.place
           n == IF d \in DOMAIN file THEN file[d] ELSE Fresh
<1>1. /\ c # Idle /\ c.pc = "openWrite"
      /\ CallOK(p, c) /\ c \in CallType /\ c.key \in Keys /\ c.lvl \in Nat
      /\ Len(Last(c.key)) \in Nat \ {0}
  BY CallFacts DEF OpenWrite, Typed
<1>2. /\ c.op = "iPut" /\ c.fd = 0 /\ c.lvl < Len(Last(c.key))
      /\ d = Place(Front(c.key), Last(c.key), c.lvl)
  BY <1>1 DEF CallOK, FitsOp, FitsLevel, FitsFile, Making, Reading, Wiping
<1>3. CASE d \notin dirs
  <2>1. Return(p, 1) /\ UNCHANGED <<dirs, file, data>>
    BY <1>3 DEF OpenWrite
  <2>2. Quiet(p) /\ proc'[p] = Idle
    BY <1>1, <2>1, ReturnKeeps DEF Typed
  <2> QED BY <2>1, <2>2 DEF Chosen, Pending, Idle
<1>4. CASE d \in dirs
  <2>1. /\ Opened(p, n, "write") /\ UNCHANGED dirs
        /\ file' = [x \in DOMAIN file \cup {d} |-> IF x = d THEN n ELSE file[x]]
        /\ data' = [data EXCEPT ![n] = <<>>]
        /\ d \in DOMAIN file \/ FreshLeft
    BY <1>4 DEF OpenWrite
  <2>2. Owner(d) = c.key /\ d.name # <<>>
    <3>1. c.lvl \in 0..Len(Last(c.key))
      BY <1>1, <1>2
    <3> QED BY <1>1, <1>2, <3>1, PlaceOf
  <2>3. n \in Inodes /\ IF d \in DOMAIN file THEN file[d] = n ELSE n \notin InUse
    BY <2>1 DEF FreshLeft, Fresh, Typed, FilesOK
  <2> HIDE DEF n
  <2>4. LET e == [c EXCEPT !.pc = "write", !.fd = n]
        IN  FitsOp(e) /\ FitsLevel(e) /\ FitsFile(e)
    BY <1>1, <1>2, <2>3
    DEF CallType, FitsOp, FitsLevel, FitsFile, Choosing, Making, Reading, Wiping, Looking
  <2>5. /\ ProcsOK' /\ Others(p) /\ AckedOK'
        /\ proc'[p] = [proc[p] EXCEPT !.pc = "write", !.fd = n]
    <3>1. Opened(p, n, "write") /\ "write" \in Pcs /\ n \in Inodes
      BY <2>1, <2>3 DEF Pcs, Making
    <3>2. ProgramOK /\ ProcsOK /\ proc[p] # Idle
      BY <1>1 DEF Typed
    <3> HIDE DEF c
    <3> QED BY <3>1, <3>2, <2>4, OpenedKeeps DEF c
  <2>6. proc'[p].pc = "write" /\ proc'[p].key = c.key /\ proc'[p].fd = n
    BY <1>1, <2>5 DEF CallType
  <2>7. proc'[p] # Idle
    BY <2>6 DEF Idle
  <2>8. OpensNew(p, d, n)
    BY <1>1, <1>4, <2>1, <2>2, <2>3, <2>5, <2>6, <2>7 DEF OpensNew, Opens
  <2> QED BY <2>1, <2>6, <2>8 DEF Chosen, Pending
<1> QED BY <1>3, <1>4

----------------------------------------------------------------------------
(* Making and removing directories and files.                              *)

(* A directory that a put makes on its way: one of a parent of its key, a  *)
(* level, or the place it has chosen.                                      *)
ParentDir(k, x) == \E j \in 1..(Len(k) - 1) :
                     x = [at |-> SubSeq(k, 1, j - 1), part |-> <<>>, name |-> k[j]]
LevelDir(k, x)  == \E i \in 1..(Len(Last(k)) - 1) :
                     x = [at |-> Front(k), part |-> SubSeq(Last(k), 1, i), name |-> <<>>]

LEMMA TargetCases ==
  ASSUME NEW p \in Procs, CallOK(p, proc[p]), proc[p].pc = "mkdir"
  PROVE  /\ Target(p) \in DirIds
         /\ \/ Target(p) = proc[p].place
            \/ ParentDir(proc[p].key, Target(p))
            \/ LevelDir(proc[p].key, Target(p))
         /\ proc[p].place.name # <<>>
<1> DEFINE c == proc[p]
           k == c.key
           P == Front(k)
           n == c.made + 1 - Len(P)
<1>1. /\ c \in CallType /\ k \in Keys /\ c.made \in Nat /\ c.lvl \in Nat
      /\ c.lvl < Len(Last(k))
      /\ c.place = Place(P, Last(k), c.lvl)
  BY DEF CallOK, CallType, FitsLevel, Making, Wiping
<1>2. /\ k \in Seq(Names) /\ P \in Seq(Names) /\ Len(P) \in Nat
      /\ Last(k) \in Names /\ Last(k) \in Seq(Char) /\ Len(Last(k)) \in Nat \ {0}
      /\ Len(k) \in Nat /\ Len(P) = Len(k) - 1
  BY <1>1, KeyParts, FrontLast, LenProperties
<1>3. c.place \in DirIds /\ c.place.name # <<>>
  <2>1. c.lvl \in 0..Len(Last(k))
    BY <1>1, <1>2
  <2> QED BY <1>1, <2>1, PlaceOf
<1>4. CASE n <= 0
  <2> DEFINE j == c.made + 1
             Q == SubSeq(k, 1, j)
  <2>1. j \in 1..Len(P) /\ j \in 1..(Len(k) - 1) /\ j \in 1..Len(k)
    BY <1>1, <1>2, <1>4
  <2>2. P = SubSeq(k, 1, Len(k) - 1)
    BY DEF Front
  <2>3. SubSeq(P, 1, j) = Q
    <3>1. Len(k) - 1 \in 0..Len(k) /\ j \in 0..(Len(k) - 1)
      BY <1>2, <2>1
    <3> HIDE DEF j, P
    <3> QED BY <1>2, <2>2, <3>1, Leading
  <2>4. Target(p) = Plain(Q)
    BY <1>4, <2>3 DEF Target
  <2>5. /\ Q \in Seq(Names) /\ Q # <<>>
        /\ Front(Q) = SubSeq(k, 1, j - 1) /\ Last(Q) = k[j]
    <3>1. j \in 0..Len(k) /\ 0 \in 0..j
      BY <1>2, <2>1
    <3> HIDE DEF j
    <3> QED BY <1>2, <2>1, <3>1, Leading, LeadingParts
  <2> HIDE DEF Q
  <2>6. Target(p) = [at |-> Front(Q), part |-> <<>>, name |-> Last(Q)] /\ Target(p) \in DirIds
    BY <2>4, <2>5, PlainParts, PlainType
  <2> QED BY <1>3, <2>1, <2>5, <2>6 DEF ParentDir
<1>5. CASE ~(n <= 0) /\ n <= c.lvl
  <2>1. n \in 1..Len(Last(k)) /\ n \in 1..(Len(Last(k)) - 1) /\ n \in 0..Len(Last(k))
    <3>1. n \in Int
      BY <1>1, <1>2
    <3>2. n <= c.lvl /\ ~(n <= 0) /\ c.lvl < Len(Last(k)) /\ Len(Last(k)) \in Nat \ {0}
      BY <1>1, <1>2, <1>5
    <3>3. c.lvl \in Nat
      BY <1>1
    <3> HIDE DEF n, k, c
    <3>4. n >= 1 /\ n < Len(Last(k))
      BY <3>1, <3>2, <3>3
    <3> QED BY <3>1, <3>2, <3>4
  <2>2. Target(p) = Level(P, Last(k), n)
    BY <1>5 DEF Target, LevelOf
  <2> HIDE DEF n, P, k
  <2>3. /\ Target(p) \in DirIds
        /\ Target(p) = [at |-> P, part |-> SubSeq(Last(k), 1, n), name |-> <<>>]
    <3>1. Target(p) \in DirIds
      BY <1>2, <2>1, <2>2, LevelType
    <3>2. Level(P, Last(k), n) = [at |-> P, part |-> SubSeq(Last(k), 1, n), name |-> <<>>]
      BY <1>2, <2>1, LevelParts
    <3> QED BY <2>2, <3>1, <3>2
  <2> QED BY <1>3, <2>1, <2>3 DEF LevelDir, P, k
<1>6. CASE ~(n <= 0) /\ ~(n <= c.lvl)
  BY <1>3, <1>6 DEF Target
<1> QED BY <1>4, <1>5, <1>6

(* What a write leaves: every byte is one it wrote or one that was there,  *)
(* at the same position; over an empty file it leaves what it wrote.       *)
LEMMA OverlayBytes ==
  ASSUME NEW s \in Bytes, NEW v \in Bytes
  PROVE  /\ Overlay(s, v) \in Bytes
         /\ \A i \in 1..Len(Overlay(s, v)) :
              \/ i \in 1..Len(v) /\ Overlay(s, v)[i] = v[i]
              \/ i \in 1..Len(s) /\ Overlay(s, v)[i] = s[i]
         /\ Overlay(<<>>, v) = v
<1> DEFINE r == SubSeq(s, Len(v) + 1, Len(s))
<1>1. Len(v) \in Nat /\ Len(s) \in Nat /\ DOMAIN s = 1..Len(s)
  BY LenProperties DEF Bytes
<1>2. /\ r \in Bytes
      /\ Len(r) = IF Len(v) + 1 <= Len(s) THEN Len(s) - (Len(v) + 1) + 1 ELSE 0
      /\ \A i \in 1..(Len(s) - (Len(v) + 1) + 1) : r[i] = s[Len(v) + 1 + i - 1]
  <2>1. Len(v) + 1 \in Int /\ Len(s) \in Int
    BY <1>1
  <2>2. \A i \in (Len(v) + 1)..Len(s) : i \in 1..Len(s)
    BY <1>1
  <2>3. \A i \in (Len(v) + 1)..Len(s) : s[i] \in 0..255
    BY <2>2, ElementOfSeq DEF Bytes
  <2> QED BY <2>1, <2>3, SubSeqProperties DEF Bytes
<1> HIDE DEF r
<1>3. /\ v \o r \in Bytes
      /\ Len(v \o r) = Len(v) + Len(r)
      /\ \A i \in 1..(Len(v) + Len(r)) :
           (v \o r)[i] = IF i <= Len(v) THEN v[i] ELSE r[i - Len(v)]
  BY <1>2, ConcatProperties DEF Bytes
<1>4. ASSUME NEW i \in 1..Len(v \o r)
      PROVE  \/ i \in 1..Len(v) /\ (v \o r)[i] = v[i]
             \/ i \in 1..Len(s) /\ (v \o r)[i] = s[i]
  <2>0. Len(r) \in Int
    BY <1>2, LenProperties DEF Bytes
  <2>3. PICK a \in Nat, b \in Nat, q \in Int : a = Len(v) /\ b = Len(s) /\ q = Len(r)
    BY <1>1, <2>0
  <2>4. i \in 1..(a + q) /\ q = (IF a + 1 <= b THEN b - (a + 1) + 1 ELSE 0)
    BY <1>2, <1>3, <2>3
  <2>5. i \in Int /\ 1 <= i /\ i <= a + q
    BY <2>4
  <2>6. i \in 1..(Len(v) + Len(r))
    BY <2>3, <2>4
  <2>1. CASE i <= Len(v)
    <3>1. i \in 1..Len(v)
      BY <2>1, <2>3, <2>5
    <3> QED BY <1>3, <2>1, <2>6, <3>1
  <2>2. CASE ~(i <= Len(v))
    <3>1. PICK m \in Int : m = i - Len(v)
      BY <1>1
    <3>2. Len(v) + 1 <= Len(s) /\ m \in 1..(Len(s) - (Len(v) + 1) + 1) /\ i \in 1..Len(s)
      <4>1. ~(i <= a) /\ m = i - a
        BY <2>2, <2>3, <3>1
      <4>2. a + 1 <= b
        BY <2>3, <2>4, <2>5, <4>1
      <4>3. i <= b /\ m >= 1 /\ m <= b - (a + 1) + 1
        BY <2>3, <2>4, <2>5, <4>1, <4>2
      <4> QED BY <2>3, <2>5, <4>2, <4>3
    <3>3. Len(v) + 1 + m - 1 = i
      BY <1>1, <3>1
    <3>4. r[m] = s[i]
      BY <1>2, <3>2, <3>3
    <3>5. (v \o r)[i] = r[m]
      BY <1>3, <2>2, <2>6, <3>1
    <3> QED BY <3>2, <3>4, <3>5
  <2> QED BY <2>1, <2>2
<1>5. Overlay(s, v) = v \o r
  BY DEF Overlay, r
<1>6. Overlay(<<>>, v) = v
  <2>1. Len(<<>>) = 0
    OBVIOUS
  <2>2. SubSeq(<<>>, Len(v) + 1, 0) = <<>>
    BY <1>1, SubSeqEmpty
  <2>3. v \o <<>> = v
    BY ConcatEmptySeq DEF Bytes
  <2> QED BY <2>1, <2>2, <2>3 DEF Overlay
<1> QED BY <1>3, <1>4, <1>5, <1>6

LEMMA MkdirTree ==
  ASSUME Typed, NEW p \in Procs, Mkdir(p)
  PROVE  TreeOK' /\ FilesOK'
<1> DEFINE c == proc[p]
           d == Target(p)
<1>1. /\ CallOK(p, c) /\ c.pc = "mkdir" /\ c.key \in Keys
      /\ Len(Last(c.key)) \in Nat \ {0}
  BY CallFacts DEF Mkdir, Typed
<1>2. /\ d \in DirIds
      /\ d = c.place \/ ParentDir(c.key, d) \/ LevelDir(c.key, d)
      /\ c.place.name # <<>>
  BY <1>1, TargetCases
<1>3. UNCHANGED <<file, data>>
  BY DEF Mkdir
<1>4. dirs' = dirs \/ (dirs' = dirs \cup {d} /\ Up(d) \in dirs \cup {Root})
  BY DEF Mkdir
<1>5. CASE dirs' = dirs
  BY <1>3, <1>5 DEF Typed, TreeOK, FilesOK
<1>6. CASE dirs' = dirs \cup {d} /\ Up(d) \in dirs \cup {Root}
  <2> HIDE DEF d, c
  <2>1. IsFiniteSet(dirs')
    BY <1>6, FS_AddElement DEF Typed, TreeOK
  <2>2. dirs' \subseteq DirIds
    BY <1>2, <1>6 DEF Typed, TreeOK
  <2>3. \A x \in dirs' : Up(x) \in dirs' \cup {Root}
    BY <1>6 DEF Typed, TreeOK
  <2>4. ASSUME d.name = <<>>
        PROVE  \E k \in Keys : /\ d.at = Front(k)
                               /\ Len(d.part) < Len(Last(k))
                               /\ d.part = SubSeq(Last(k), 1, Len(d.part))
    <3>1. ~ParentDir(c.key, d)
      <4> SUFFICES ASSUME NEW j \in 1..(Len(c.key) - 1),
                          d = [at |-> SubSeq(c.key, 1, j - 1), part |-> <<>>, name |-> c.key[j]]
                   PROVE  FALSE
        BY DEF ParentDir
      <4>1. c.key \in Seq(Names) /\ Len(c.key) \in Nat
        BY <1>1, KeyParts, LenProperties
      <4>2. c.key[j] \in Names
        BY <4>1, ElementOfSeq
      <4> QED BY <2>4, <4>2 DEF Names
    <3>2. LevelDir(c.key, d)
      BY <1>2, <2>4, <3>1
    <3>3. PICK i \in 1..(Len(Last(c.key)) - 1) :
            d = [at |-> Front(c.key), part |-> SubSeq(Last(c.key), 1, i), name |-> <<>>]
      BY <3>2 DEF LevelDir
    <3>4. i \in 0..Len(Last(c.key)) /\ i < Len(Last(c.key)) /\ Last(c.key) \in Names
      BY <1>1, KeyParts
    <3>5. Len(SubSeq(Last(c.key), 1, i)) = i
      BY <3>4, NameParts
    <3> QED BY <1>1, <3>3, <3>4, <3>5
  <2>5. \A x \in dirs' : x.name = <<>> =>
          \E k \in Keys : /\ x.at = Front(k)
                          /\ Len(x.part) < Len(Last(k))
                          /\ x.part = SubSeq(Last(k), 1, Len(x.part))
    BY <1>6, <2>4 DEF Typed, TreeOK
  <2>6. TreeOK'
    BY <2>1, <2>2, <2>3, <2>5 DEF TreeOK
  <2> QED BY <1>3, <1>6, <2>6 DEF Typed, FilesOK
<1> QED BY <1>4, <1>5, <1>6

LEMMA RmdirTree ==
  ASSUME Typed, NEW p \in Procs, Rmdir(p)
  PROVE  TreeOK' /\ FilesOK'
<1> DEFINE d == proc[p].place
<1>1. UNCHANGED <<file, data>>
  BY DEF Rmdir
<1>2. dirs' = dirs \/ (dirs' = dirs \ {d} /\ d \notin DOMAIN file /\ Children(d) = {})
  BY DEF Rmdir
<1>3. CASE dirs' = dirs
  BY <1>1, <1>3 DEF Typed, TreeOK, FilesOK
<1>4. CASE dirs' = dirs \ {d} /\ d \notin DOMAIN file /\ Children(d) = {}
  <2> HIDE DEF d
  <2>1. IsFiniteSet(dirs')
    BY <1>4, FS_RemoveElement DEF Typed, TreeOK
  <2>2. \A x \in dirs' : Up(x) \in dirs' \cup {Root}
    BY <1>4 DEF Typed, TreeOK, Children
  <2>3. TreeOK'
    BY <1>4, <2>1, <2>2 DEF Typed, TreeOK
  <2> QED BY <1>1, <1>4, <2>3 DEF Typed, FilesOK
<1> QED BY <1>2, <1>3, <1>4

LEMMA DropFileTree ==
  ASSUME Typed, NEW d, DropFile(d), UNCHANGED <<dirs, data>>
  PROVE  TreeOK' /\ FilesOK'
BY DEF Typed, TreeOK, FilesOK, DropFile

LEMMA OpenWriteTree ==
  ASSUME Typed, NEW p \in Procs, NEW d, NEW n, OpensNew(p, d, n), UNCHANGED dirs
  PROVE  TreeOK' /\ FilesOK'
<1>1. TreeOK'
  BY DEF Typed, TreeOK
<1>2. <<>> \in Bytes
  BY EmptySeq DEF Bytes
<1>3. data' \in [Inodes -> Bytes]
  BY <1>2 DEF Typed, FilesOK, OpensNew
<1>4. file' \in [DOMAIN file' -> Inodes] /\ DOMAIN file' \subseteq dirs'
  BY DEF Typed, FilesOK, OpensNew
<1> QED BY <1>1, <1>3, <1>4 DEF FilesOK

LEMMA WriteTree ==
  ASSUME Typed, NEW p \in Procs, Write(p)
  PROVE  TreeOK' /\ FilesOK'
<1> DEFINE c == proc[p]
<1>1. /\ UNCHANGED <<dirs, file>>
      /\ data' = [data EXCEPT ![c.fd] = Overlay(data[c.fd], c.val)]
  BY DEF Write
<1>2. CallOK(p, c) /\ c.pc = "write" /\ c.val \in Bytes
  BY CallFacts DEF Write, Typed, CallType
<1>3. c.fd \in Inodes
  BY <1>2 DEF CallOK, FitsFile
<1>4. Overlay(data[c.fd], c.val) \in Bytes
  BY <1>2, <1>3, OverlayBytes DEF Typed, FilesOK
<1>5. data' \in [Inodes -> Bytes]
  BY <1>1, <1>3, <1>4 DEF Typed, FilesOK
<1> QED BY <1>1, <1>5 DEF Typed, TreeOK, FilesOK

----------------------------------------------------------------------------
(* Beginning a call, and dying in one.                                     *)

(* The process p begins a call; of the others only history changes.        *)
Joins(p) ==
  /\ proc[p] = Idle
  /\ proc'[p].pc \in {"statDirect", "openDirect"} /\ proc'[p].fd = 0
  /\ \A q \in Procs : q # p =>
       \/ proc[q] = Idle /\ proc'[q] = Idle
       \/ /\ proc[q] # Idle /\ proc'[q] # Idle
          /\ proc'[q].pc = proc[q].pc /\ proc'[q].op = proc[q].op
          /\ proc'[q].key = proc[q].key /\ proc'[q].fd = proc[q].fd
          /\ proc'[q].place = proc[q].place
  /\ \A k \in Keys : tried[k] \subseteq tried'[k]
  /\ UNCHANGED <<program, fsys, last>>

LEMMA StartKeeps ==
  ASSUME Typed, NEW p \in Procs, Start(p)
  PROVE  ProgramOK' /\ ProcsOK' /\ Joins(p)
<1>1. PICK o \in program.ops[p] :
        \/ o.op = "iPut" /\ \E v \in program.values[o.key] : Begin(p, o.op, o.key, v)
        \/ o.op # "iPut" /\ Begin(p, o.op, o.key, <<>>)
  BY DEF Start
<1>2. program \in Program
  BY ProgramsAssumption DEF Typed, ProgramOK
<1>3. /\ o.op \in Ops /\ o.key \in Keys
      /\ o = [op |-> o.op, key |-> o.key]
      /\ program.values[o.key] \subseteq Values
  BY <1>1, <1>2 DEF Program, Ops
<1>4. PICK v : /\ Begin(p, o.op, o.key, v)
               /\ o.op = "iPut" => v \in Values
               /\ o.op # "iPut" => v = <<>>
  BY <1>1, <1>3
<1>5. v \in Bytes
  BY <1>3, <1>4, ValuesAssumption, EmptySeq DEF Bytes
<1> DEFINE op == o.op
           k == o.key
           busy == {q \in Procs : proc[q] # Idle}
           l == IF op = "iGet" THEN "openDirect" ELSE "statDirect"
           call == Call(op, k, v, l)
           a == \A q \in busy : ~Disturbs(proc[q].op, proc[q].key, call)
           b == \A q \in busy : ~Undoes(proc[q].op, proc[q].key, call)
           new == [call EXCEPT !.alone = a, !.kept = b]
           seen(c) == [c EXCEPT !.alone = @ /\ ~Disturbs(op, k, c), !.kept = @ /\ ~Undoes(op, k, c)]
<1>6. /\ proc[p] = Idle
      /\ proc' = [q \in Procs |-> IF q = p THEN new ELSE IF q \in busy THEN seen(proc[q]) ELSE proc[q]]
      /\ tried' = [tried EXCEPT ![k] = @ \cup (IF op = "iPut" THEN {v} ELSE {})]
      /\ acked' = [j \in Keys |-> IF Removes(op, k, j) THEN Unknown ELSE acked[j]]
      /\ UNCHANGED <<program, fsys, last, crashes>>
  BY <1>4 DEF Begin
<1>7. tried' \in [Keys -> SUBSET Values] /\ AckedOK'
  BY <1>3, <1>4, <1>6 DEF Typed, ProgramOK, AckedOK
<1>8. \A j \in Keys : tried[j] \subseteq tried'[j]
  BY <1>6 DEF Typed, ProgramOK
<1>9. o.op = "iPut" => v \in tried'[o.key]
  BY <1>3, <1>6 DEF Typed, ProgramOK
<1>10. ProgramOK'
  BY <1>6, <1>7 DEF Typed, ProgramOK
<1>11. PICK n : n = new
  OBVIOUS
<1>12. /\ n \in CallType
       /\ FitsOp(n) /\ FitsLevel(n) /\ FitsFile(n)
       /\ n.pc \in {"statDirect", "openDirect"} /\ n.fd = 0
       /\ n.op = op /\ n.key = k /\ n.val = v
  <2>1. /\ Root \in DirIds
        /\ acked[k] \in Values \cup {NoValue, Several, Unknown}
        /\ <<>> \in Seq(Item)
        /\ Len(Last(k)) \in Nat \ {0}
    BY <1>3, EmptySeq, KeyParts DEF Root, DirIds, Typed, ProgramOK, AckedOK
  <2>2. a \in BOOLEAN /\ b \in BOOLEAN
    OBVIOUS
  <2> HIDE DEF a, b
  <2>3. /\ l \in {"statDirect", "openDirect"}
        /\ l = "openDirect" => op = "iGet"
        /\ l = "statDirect" => op # "iGet"
    OBVIOUS
  <2> HIDE DEF l
  <2>4. new \in CallType
    BY <1>3, <1>5, <2>1, <2>2, <2>3 DEF Call, CallType, Item, Pcs
  <2>5. /\ new.pc = l /\ new.op = op /\ new.key = k /\ new.val = v
        /\ new.lvl = 0 /\ new.fd = 0
    BY DEF Call
  <2> HIDE DEF new
  <2>6. FitsOp(new) /\ FitsLevel(new) /\ FitsFile(new)
    BY <2>1, <2>3, <2>5
    DEF FitsOp, FitsLevel, FitsFile, Choosing, Making, Reading, Wiping, Looking
  <2> QED BY <1>11, <2>3, <2>4, <2>5, <2>6
<1>13. proc' = [q \in Procs |-> IF q = p THEN n ELSE IF q \in busy THEN seen(proc[q]) ELSE proc[q]]
  BY <1>6, <1>11
<1> HIDE DEF new
<1>14. ASSUME NEW q \in Procs, q # p, proc[q] # Idle
       PROVE  \E c : /\ proc'[q] = c /\ c # Idle
                     /\ c \in CallType
                     /\ c.pc = proc[q].pc /\ c.op = proc[q].op /\ c.key = proc[q].key
                     /\ c.fd = proc[q].fd /\ c.place = proc[q].place
                     /\ c.val = proc[q].val /\ c.lvl = proc[q].lvl
  <2>1. proc[q] \in CallType /\ proc[q].pc # "idle"
    BY <1>14 DEF Typed, ProcsOK, CallOK, CallType, Pcs, Choosing, Making, Reading, Wiping, Looking
  <2>2. proc'[q] = seen(proc[q])
    BY <1>13, <1>14
  <2> DEFINE x == proc[q].alone /\ ~Disturbs(op, k, proc[q])
             y == proc[q].kept /\ ~Undoes(op, k, proc[q])
             c == [proc[q] EXCEPT !.alone = x, !.kept = y]
  <2>3. proc'[q] = c
    BY <2>2
  <2>4. x \in BOOLEAN /\ y \in BOOLEAN
    OBVIOUS
  <2> HIDE DEF x, y
  <2>5. /\ c \in CallType
        /\ c.pc = proc[q].pc /\ c.op = proc[q].op /\ c.key = proc[q].key
        /\ c.fd = proc[q].fd /\ c.place = proc[q].place
        /\ c.val = proc[q].val /\ c.lvl = proc[q].lvl
    BY <2>1, <2>4 DEF CallType
  <2>6. c # Idle
    BY <2>1, <2>5 DEF Idle
  <2> QED BY <2>3, <2>5, <2>6
<1>15. proc' = [q \in Procs |-> proc'[q]] /\ proc'[p] = n
  BY <1>13
<1>16. \A q \in Procs : q # p /\ proc[q] = Idle => proc'[q] = Idle
  BY <1>13
<1> HIDE DEF seen, busy, call, l, a, b
<1>17. Joins(p)
  BY <1>6, <1>8, <1>12, <1>14, <1>15, <1>16 DEF Joins
<1>18. \A q \in Procs : FitsProgram(q, proc[q]) => proc[q] = Idle \/
          (proc[q].op = "iPut" => /\ proc[q].val \in tried'[proc[q].key]
                                  /\ q \in Users(proc[q].key, "iPut"))
  BY <1>8 DEF FitsProgram, Typed, ProcsOK, CallOK, CallType
<1>19. CallOK(p, n)'
  <2>1. op = "iPut" => v \in tried'[k] /\ p \in Users(k, "iPut")'
    BY <1>1, <1>3, <1>6, <1>9 DEF Users
  <2>2. FitsProgram(p, n)'
    BY <1>12, <2>1 DEF FitsProgram
  <2>3. n \in CallType /\ FitsOp(n) /\ FitsLevel(n) /\ FitsFile(n)
    BY <1>12
  <2> QED BY <2>2, <2>3 DEF CallOK
<1>20. ASSUME NEW q \in Procs, q # p, proc[q] # Idle
       PROVE  CallOK(q, proc[q])'
  <2>1. PICK c : /\ proc'[q] = c /\ c # Idle
                 /\ c \in CallType
                 /\ c.pc = proc[q].pc /\ c.op = proc[q].op /\ c.key = proc[q].key
                 /\ c.fd = proc[q].fd /\ c.place = proc[q].place
                 /\ c.val = proc[q].val /\ c.lvl = proc[q].lvl
    BY <1>14, <1>20
  <2>2. CallOK(q, proc[q])
    BY <1>20 DEF Typed, ProcsOK
  <2>3. FitsOp(c) /\ FitsLevel(c) /\ FitsFile(c)
    BY <2>1, <2>2 DEF CallOK, FitsOp, FitsLevel, FitsFile
  <2>4. c.op = "iPut" => /\ c.val \in tried'[c.key]
                         /\ q \in Users(c.key, "iPut")'
    BY <1>6, <1>18, <1>20, <2>1, <2>2 DEF CallOK, Users
  <2>5. FitsProgram(q, c)'
    BY <2>4 DEF FitsProgram
  <2>6. CallOK(q, c)'
    BY <2>1, <2>3, <2>5 DEF CallOK
  <2>7. CallOK(q, c)' => CallOK(q, proc[q])'
    BY <2>1 DEF CallOK, FitsProgram, Users, FitsOp, FitsLevel, FitsFile, CallType
  <2> QED BY <2>6, <2>7
<1>21. CallOK(p, proc[p])'
  BY <1>15, <1>19 DEF CallOK, FitsProgram, Users, FitsOp, FitsLevel, FitsFile, CallType
<1>22. ProcsOK'
  BY <1>16, <1>20, <1>21 DEF ProcsOK
<1> QED BY <1>10, <1>17, <1>22

LEMMA CrashKeeps ==
  ASSUME Typed, NEW p \in Procs, Crash(p)
  PROVE  Quiet(p) /\ Chosen(p) /\ UNCHANGED <<program, fsys, last, tried>>
<1>1. /\ proc' = [proc EXCEPT ![p] = Idle]
      /\ UNCHANGED <<program, fsys, last, calls, tried>>
  BY DEF Crash
<1>2. ProcsOK' /\ Others(p) /\ proc'[p] = Idle
  BY <1>1, OneMoves DEF Typed
<1>3. AckedOK'
  BY DEF Crash, Typed, ProgramOK, AckedOK
<1> QED BY <1>1, <1>2, <1>3 DEF Quiet, Chosen, Pending, Idle

(* Files only go.                                                          *)
Drops == /\ DOMAIN file' \subseteq DOMAIN file
         /\ \A d \in DOMAIN file' : file'[d] = file[d]
         /\ UNCHANGED data

(* What a step inside a call does to the files and to what is open.        *)
StepCases(p) ==
  \/ Quiet(p) /\ Drops
  \/ \E d \in DOMAIN file : /\ Owner(d) = proc[p].key
                            /\ Opens(p, file[d]) /\ proc'[p].pc = "lseek"
                            /\ UNCHANGED <<file, data>>
  \/ \E d, n : OpensNew(p, d, n)
  \/ Quiet(p) /\ Write(p)

LEMMA StepKeeps ==
  ASSUME Typed, NEW p \in Procs, Step(p)
  PROVE  StepCases(p) /\ Chosen(p) /\ TreeOK' /\ FilesOK'
<1>1. UNCHANGED <<program, calls, crashes, tried>>
  BY DEF Step
<1>2. ASSUME UNCHANGED fsys PROVE TreeOK' /\ FilesOK' /\ Drops
  BY <1>2 DEF fsys, Typed, TreeOK, FilesOK, Drops
<1>3. CASE StatDirect(p)
  BY <1>1, <1>2, <1>3, StatDirectKeeps DEF StatDirect, StepCases
<1>4. CASE CountLevel(p)
  BY <1>1, <1>2, <1>4, CountLevelKeeps DEF CountLevel, StepCases
<1>5. CASE StatLevel(p)
  BY <1>1, <1>2, <1>5, StatLevelKeeps DEF StatLevel, StepCases
<1>6. CASE StatRest(p)
  BY <1>1, <1>2, <1>6, StatRestKeeps DEF StatRest, StepCases
<1>7. CASE StatPlace(p)
  BY <1>1, <1>2, <1>7, StatPlaceKeeps DEF StatPlace, StepCases
<1>8. CASE Mkdir(p)
  <2>1. Drops
    BY <1>8 DEF Mkdir, Drops
  <2> QED BY <1>1, <1>8, <2>1, MkdirKeeps, MkdirTree DEF StepCases
<1>9. CASE OpenWrite(p)
  <2>1. /\ Chosen(p) /\ UNCHANGED dirs
        /\ \/ Quiet(p) /\ UNCHANGED <<file, data>>
           \/ \E d, n : OpensNew(p, d, n)
    BY <1>1, <1>9, OpenWriteKeeps
  <2>2. CASE Quiet(p) /\ UNCHANGED <<file, data>>
    BY <1>2, <2>1, <2>2 DEF StepCases, fsys
  <2>3. CASE \E d, n : OpensNew(p, d, n)
    BY <2>1, <2>3, OpenWriteTree DEF StepCases
  <2> QED BY <2>1, <2>2, <2>3
<1>10. CASE Write(p)
  BY <1>1, <1>10, WriteKeeps, WriteTree DEF StepCases
<1>11. CASE OpenDirect(p)
  <2>1. UNCHANGED fsys
    BY <1>11 DEF OpenDirect
  <2> QED BY <1>1, <1>2, <1>11, <2>1, OpenDirectKeeps DEF StepCases, fsys
<1>12. CASE LookLevel(p)
  BY <1>1, <1>2, <1>12, LookLevelKeeps DEF LookLevel, StepCases
<1>13. CASE LookRest(p)
  BY <1>1, <1>2, <1>13, LookRestKeeps DEF LookRest, StepCases
<1>14. CASE OpenPlace(p)
  <2>1. UNCHANGED fsys
    BY <1>14 DEF OpenPlace
  <2> QED BY <1>1, <1>2, <1>14, <2>1, OpenPlaceKeeps DEF StepCases, fsys
<1>15. CASE Lseek(p)
  <2>1. UNCHANGED fsys
    BY <1>15 DEF Lseek
  <2> QED BY <1>1, <1>2, <1>15, <2>1, LseekKeeps DEF StepCases
<1>16. CASE ReadFile(p)
  BY <1>1, <1>2, <1>16, ReadFileKeeps DEF ReadFile, StepCases
<1>17. CASE Unlink(p)
  <2>1. DropFile(proc[p].place) /\ UNCHANGED <<dirs, data>>
    BY <1>17 DEF Unlink
  <2>2. Drops
    BY <2>1 DEF DropFile, Drops
  <2> QED BY <1>1, <1>17, <2>1, <2>2, UnlinkKeeps, DropFileTree DEF StepCases
<1>18. CASE ReadDir(p)
  BY <1>1, <1>2, <1>18, ReadDirKeeps DEF ReadDir, StepCases
<1>19. CASE UnlinkDir(p)
  <2>1. DropFile(proc[p].place) /\ UNCHANGED <<dirs, data>>
    BY <1>19 DEF UnlinkDir
  <2>2. Drops
    BY <2>1 DEF DropFile, Drops
  <2> QED BY <1>1, <1>19, <2>1, <2>2, UnlinkDirKeeps, DropFileTree DEF StepCases
<1>20. CASE Rmdir(p)
  <2>1. Drops
    BY <1>20 DEF Rmdir, Drops
  <2> QED BY <1>1, <1>20, <2>1, RmdirKeeps, RmdirTree DEF StepCases
<1>21. CASE StatParent(p)
  BY <1>1, <1>2, <1>21, StatParentKeeps DEF StatParent, StepCases
<1> QED
  BY <1>3, <1>4, <1>5, <1>6, <1>7, <1>8, <1>9, <1>10, <1>11, <1>12, <1>13, <1>14,
     <1>15, <1>16, <1>17, <1>18, <1>19, <1>20, <1>21 DEF Step

(* In every case the calls stay what they are.                             *)
LEMMA StepProcs ==
  ASSUME Typed, NEW p \in Procs, StepCases(p) \/ Quiet(p), UNCHANGED <<program, tried>>
  PROVE  ProcsOK' /\ Others(p) /\ ProgramOK'
<1>1. ProcsOK' /\ Others(p) /\ AckedOK'
  BY DEF StepCases, Quiet, Opens, OpensNew
<1> QED BY <1>1 DEF Others, Typed, ProgramOK

----------------------------------------------------------------------------
(* The types of the state.                                                 *)

LEMMA TypedInit == Init => Typed
<1> SUFFICES ASSUME Init PROVE Typed
  OBVIOUS
<1>1. program \in Program
  BY ProgramsAssumption DEF Init
<1>2. ProgramOK
  BY DEF Init, ProgramOK, AckedOK
<1>3. TreeOK
  BY FS_EmptySet DEF Init, TreeOK
<1>4. FilesOK
  BY EmptySeq DEF Init, FilesOK, Bytes
<1>5. ProcsOK
  BY DEF Init, ProcsOK
<1> QED BY <1>2, <1>3, <1>4, <1>5 DEF Typed

LEMMA TypedNext == Typed /\ [Next]_vars => Typed'
<1> SUFFICES ASSUME Typed, [Next]_vars PROVE Typed'
  OBVIOUS
<1>1. CASE UNCHANGED vars
  <2>1. UNCHANGED <<program, dirs, file, data, proc, tried, acked>>
    BY <1>1 DEF vars, fsys, history
  <2>2. ProgramOK' /\ TreeOK' /\ FilesOK'
    BY <2>1 DEF Typed, ProgramOK, AckedOK, TreeOK, FilesOK
  <2>3. ASSUME NEW p \in Procs, NEW c PROVE CallOK(p, c) => CallOK(p, c)'
    BY <2>1 DEF CallOK, FitsOp, FitsLevel, FitsFile, FitsProgram, Users, CallType
  <2>4. ProcsOK'
    <3> SUFFICES ASSUME NEW p \in Procs PROVE proc'[p] = Idle \/ CallOK(p, proc[p])'
      BY DEF ProcsOK
    <3>1. PICK c : c = proc[p] /\ c = proc'[p]
      BY <2>1
    <3>2. c = Idle \/ CallOK(p, c)'
      BY <2>3, <3>1 DEF Typed, ProcsOK
    <3> QED BY <3>1, <3>2 DEF CallOK, FitsOp, FitsLevel, FitsFile, FitsProgram
  <2> QED BY <2>2, <2>4 DEF Typed
<1>2. ASSUME NEW p \in Procs, Start(p) PROVE Typed'
  <2>1. ProgramOK' /\ ProcsOK' /\ Joins(p)
    BY <1>2, StartKeeps
  <2>2. TreeOK' /\ FilesOK'
    BY <2>1 DEF Joins, fsys, Typed, TreeOK, FilesOK
  <2> QED BY <2>1, <2>2 DEF Typed
<1>3. ASSUME NEW p \in Procs, Step(p) PROVE Typed'
  <2>1. StepCases(p) /\ TreeOK' /\ FilesOK' /\ UNCHANGED <<program, tried>>
    BY <1>3, StepKeeps DEF Step
  <2> QED BY <2>1, StepProcs DEF Typed
<1>4. ASSUME NEW p \in Procs, Crash(p) PROVE Typed'
  <2>1. Quiet(p) /\ UNCHANGED <<program, fsys, tried>>
    BY <1>4, CrashKeeps
  <2>2. TreeOK' /\ FilesOK'
    BY <2>1 DEF fsys, Typed, TreeOK, FilesOK
  <2> QED BY <2>1, <2>2, StepProcs DEF Typed
<1> QED BY <1>1, <1>2, <1>3, <1>4 DEF Next

(* The state of any number of processes stays what it is taken for: every  *)
(* directory is in another one, every file in a directory, and no inode is *)
(* made up, however mkdir, rmdir and unlink of different calls interleave. *)
THEOREM ProcsTypeCorrect == Spec => []TypeOK
<1>1. Typed => TypeOK
  <2> SUFFICES ASSUME Typed PROVE TypeOK
    OBVIOUS
  <2>1. \A p \in Procs : proc[p].fd \in Inodes \cup {0}
    BY DEF Typed, ProcsOK, CallOK, CallType, Idle
  <2>2. \A n \in Inodes : Len(data[n]) \in Nat
    BY LenProperties DEF Typed, FilesOK, Bytes
  <2> QED BY <2>1, <2>2 DEF Typed, TreeOK, FilesOK, ProgramOK, AckedOK, TypeOK
<1> QED BY <1>1, TypedInit, TypedNext, PTL DEF Spec

----------------------------------------------------------------------------
(* Whose bytes a get returns.                                              *)

(* Nothing comes to be held that was not.                                  *)
NoNewHolds == \A n \in Inodes : \A k : Holds(n, k)' => Holds(n, k)

LEMMA QuietHolds ==
  ASSUME Typed, NEW p \in Procs, Quiet(p),
         DOMAIN file' \subseteq DOMAIN file, \A d \in DOMAIN file' : file'[d] = file[d]
  PROVE  NoNewHolds
<1> SUFFICES ASSUME NEW n \in Inodes, NEW k, Holds(n, k)' PROVE Holds(n, k)
  BY DEF NoNewHolds
<1>1. CASE \E d \in DOMAIN file' : file'[d] = n /\ Owner(d) = k
  BY <1>1 DEF Holds
<1>2. CASE \E q \in Procs : proc'[q] # Idle /\ proc'[q].fd = n /\ proc'[q].key = k
  <2>1. PICK q \in Procs : proc'[q] # Idle /\ proc'[q].fd = n /\ proc'[q].key = k
    BY <1>2
  <2>2. proc[q] # Idle /\ proc[q].fd = n /\ proc[q].key = k
    BY <2>1 DEF Quiet, Others
  <2> QED BY <2>2 DEF Holds
<1> QED BY <1>1, <1>2 DEF Holds, Owner

LEMMA JoinsHolds ==
  ASSUME Typed, NEW p \in Procs, Joins(p)
  PROVE  NoNewHolds
<1> SUFFICES ASSUME NEW n \in Inodes, NEW k, Holds(n, k)' PROVE Holds(n, k)
  BY DEF NoNewHolds
<1>1. CASE \E d \in DOMAIN file' : file'[d] = n /\ Owner(d) = k
  BY <1>1 DEF Holds, Joins, fsys
<1>2. CASE \E q \in Procs : proc'[q] # Idle /\ proc'[q].fd = n /\ proc'[q].key = k
  <2>1. PICK q \in Procs : proc'[q] # Idle /\ proc'[q].fd = n /\ proc'[q].key = k
    BY <1>2
  <2>2. n # 0
    BY InodesAssumption DEF Inodes
  <2>3. proc[q] # Idle /\ proc[q].fd = n /\ proc[q].key = k
    BY <2>1, <2>2 DEF Joins
  <2> QED BY <2>3 DEF Holds
<1> QED BY <1>1, <1>2 DEF Holds, Owner

LEMMA OpensHolds ==
  ASSUME Typed, NEW p \in Procs, NEW d \in DOMAIN file, Owner(d) = proc[p].key,
         Opens(p, file[d]), UNCHANGED file
  PROVE  NoNewHolds
<1> SUFFICES ASSUME NEW n \in Inodes, NEW k, Holds(n, k)' PROVE Holds(n, k)
  BY DEF NoNewHolds
<1>1. CASE \E x \in DOMAIN file' : file'[x] = n /\ Owner(x) = k
  BY <1>1 DEF Holds
<1>2. CASE \E q \in Procs : proc'[q] # Idle /\ proc'[q].fd = n /\ proc'[q].key = k
  <2>1. PICK q \in Procs : proc'[q] # Idle /\ proc'[q].fd = n /\ proc'[q].key = k
    BY <1>2
  <2>2. CASE q = p
    BY <2>1, <2>2 DEF Opens, Holds
  <2>3. CASE q # p
    BY <2>1, <2>3 DEF Opens, Others, Holds
  <2> QED BY <2>2, <2>3
<1> QED BY <1>1, <1>2 DEF Holds, Owner

(* A file opened for writing is its key's alone; the others are held as    *)
(* before.                                                                 *)
LEMMA OpensNewHolds ==
  ASSUME Typed, OneHolder, NEW p \in Procs, NEW d, NEW n, OpensNew(p, d, n)
  PROVE  /\ \A m \in Inodes : \A k : m # n /\ Holds(m, k)' => Holds(m, k)
         /\ \A k : Holds(n, k)' => k = proc[p].key
<1>1. \A m \in Inodes : \A k : m # n /\ Holds(m, k)' => Holds(m, k)
  <2> SUFFICES ASSUME NEW m \in Inodes, NEW k, m # n, Holds(m, k)' PROVE Holds(m, k)
    OBVIOUS
  <2>1. CASE \E x \in DOMAIN file' : file'[x] = m /\ Owner(x) = k
    BY <2>1 DEF Holds, OpensNew
  <2>2. CASE \E q \in Procs : proc'[q] # Idle /\ proc'[q].fd = m /\ proc'[q].key = k
    <3>1. PICK q \in Procs : proc'[q] # Idle /\ proc'[q].fd = m /\ proc'[q].key = k
      BY <2>2
    <3>2. q # p
      BY <3>1 DEF OpensNew, Opens
    <3> QED BY <3>1, <3>2 DEF OpensNew, Opens, Others, Holds
  <2> QED BY <2>1, <2>2 DEF Holds, Owner
<1>2. ASSUME NEW k, Holds(n, k) PROVE k = proc[p].key
  <2>1. CASE d \in DOMAIN file
    <3>1. Holds(n, proc[p].key)
      BY <2>1 DEF Holds, OpensNew
    <3> QED BY <1>2, <3>1 DEF OneHolder, OpensNew
  <2>2. CASE d \notin DOMAIN file
    <3>1. n \notin InUse
      BY <2>2 DEF OpensNew
    <3> QED BY <1>2, <3>1 DEF InUse, Holds
  <2> QED BY <2>1, <2>2
<1>3. ASSUME NEW k, Holds(n, k)' PROVE k = proc[p].key
  <2>1. CASE \E x \in DOMAIN file' : file'[x] = n /\ Owner(x) = k
    <3>1. PICK x \in DOMAIN file' : file'[x] = n /\ Owner(x) = k
      BY <2>1
    <3>2. CASE x = d
      BY <3>1, <3>2 DEF OpensNew
    <3>3. CASE x # d
      <4>1. Holds(n, k)
        BY <3>1, <3>3 DEF OpensNew, Holds
      <4> QED BY <1>2, <4>1
    <3> QED BY <3>2, <3>3
  <2>2. CASE \E q \in Procs : proc'[q] # Idle /\ proc'[q].fd = n /\ proc'[q].key = k
    <3>1. PICK q \in Procs : proc'[q] # Idle /\ proc'[q].fd = n /\ proc'[q].key = k
      BY <2>2
    <3>2. CASE q = p
      BY <3>1, <3>2 DEF OpensNew, Opens
    <3>3. CASE q # p
      <4>1. Holds(n, k)
        BY <3>1, <3>3 DEF OpensNew, Opens, Others, Holds
      <4> QED BY <1>2, <4>1
    <3> QED BY <3>2, <3>3
  <2> QED BY <1>3, <2>1, <2>2 DEF Holds, Owner
<1> QED BY <1>1, <1>3

LEMMA ProvenanceKept ==
  ASSUME Provenance, NoNewHolds, UNCHANGED data,
         \A k \in Keys : tried[k] \subseteq tried'[k], Owned'
  PROVE  Provenance'
<1>1. OneHolder'
  BY DEF Provenance, OneHolder, NoNewHolds
<1>2. ASSUME NEW n \in Inodes, NEW k \in Keys, Holds(n, k)'
      PROVE  From(data[n], k)' /\ tried'[k] # {}
  <2>1. Holds(n, k)
    BY <1>2 DEF NoNewHolds
  <2>2. From(data[n], k) /\ tried[k] # {}
    BY <2>1 DEF Provenance, Contents
  <2> QED BY <2>2 DEF From
<1> QED BY <1>1, <1>2 DEF Provenance, Contents

LEMMA OpensNewProvenance ==
  ASSUME Typed, Provenance, NEW p \in Procs, NEW d, NEW n, OpensNew(p, d, n),
         UNCHANGED <<program, tried>>
  PROVE  Provenance'
<1>1. /\ \A m \in Inodes : \A k : m # n /\ Holds(m, k)' => Holds(m, k)
      /\ \A k : Holds(n, k)' => k = proc[p].key
  BY OpensNewHolds DEF Provenance
<1>2. OneHolder'
  BY <1>1 DEF Provenance, OneHolder
<1>3. proc[p].key \in Keys
  BY DEF OpensNew, Opens, Typed, ProcsOK, CallOK, CallType
<1>4. Owned'
  BY <1>3 DEF Provenance, Owned, OpensNew, Owner
<1>5. tried'[proc[p].key] # {}
  <2>1. CallOK(p, proc[p])'
    BY DEF OpensNew, Opens, ProcsOK
  <2>2. proc'[p].op = "iPut"
    BY <2>1 DEF CallOK, FitsOp, OpensNew, Making
  <2> QED BY <2>1, <2>2 DEF CallOK, FitsProgram, OpensNew, Opens
<1>6. ASSUME NEW m \in Inodes, NEW k \in Keys, Holds(m, k)'
      PROVE  From(data[m], k)' /\ tried'[k] # {}
  <2>1. CASE m = n
    <3>1. data'[m] = <<>>
      BY <2>1 DEF OpensNew, Typed, FilesOK
    <3>2. Len(data'[m]) = 0
      BY <3>1
    <3>3. From(data[m], k)'
      BY <3>2 DEF From
    <3> QED BY <1>1, <1>5, <1>6, <2>1, <3>3
  <2>2. CASE m # n
    <3>1. Holds(m, k)
      BY <1>1, <1>6, <2>2
    <3>2. From(data[m], k) /\ tried[k] # {}
      BY <3>1 DEF Provenance, Contents
    <3>3. data'[m] = data[m]
      BY <2>2 DEF OpensNew, Typed, FilesOK
    <3> QED BY <3>2, <3>3 DEF From
  <2> QED BY <2>1, <2>2
<1> QED BY <1>2, <1>4, <1>6 DEF Provenance, Contents

(* A write puts its own key's bytes at their positions.                    *)
LEMMA WriteProvenance ==
  ASSUME Typed, Provenance, NEW p \in Procs, Quiet(p), Write(p), UNCHANGED <<program, tried>>
  PROVE  Provenance'
<1> DEFINE c == proc[p]
           n == c.fd
           s == data[n]
           v == c.val
<1>1. UNCHANGED file /\ data' = [data EXCEPT ![n] = Overlay(s, v)]
  BY DEF Write
<1>2. c # Idle /\ CallOK(p, c) /\ c.pc = "write" /\ v \in Bytes /\ c.key \in Keys
  BY CallFacts DEF Write, Typed, CallType
<1>3. n \in Inodes /\ v \in tried[c.key]
  BY <1>2 DEF CallOK, FitsFile, FitsOp, FitsProgram, Making
<1>4. NoNewHolds
  BY <1>1, QuietHolds
<1>5. OneHolder' /\ Owned'
  BY <1>1, <1>4 DEF Provenance, OneHolder, NoNewHolds, Owned, Owner
<1>6. Holds(n, c.key)
  BY <1>2 DEF Holds
<1>7. s \in Bytes /\ From(s, c.key)
  BY <1>2, <1>3, <1>6 DEF Provenance, Contents, Typed, FilesOK
<1>8. data'[n] = Overlay(s, v) /\ \A m \in Inodes : m # n => data'[m] = data[m]
  BY <1>1, <1>3 DEF Typed, FilesOK
<1> HIDE DEF s, v, n, c
<1>9. From(Overlay(s, v), c.key)
  <2> SUFFICES ASSUME NEW i \in 1..Len(Overlay(s, v))
               PROVE  \E w \in tried[c.key] : i <= Len(w) /\ Overlay(s, v)[i] = w[i]
    BY DEF From
  <2>1. \/ i \in 1..Len(v) /\ Overlay(s, v)[i] = v[i]
        \/ i \in 1..Len(s) /\ Overlay(s, v)[i] = s[i]
    BY <1>2, <1>7, OverlayBytes
  <2>2. CASE i \in 1..Len(v) /\ Overlay(s, v)[i] = v[i]
    <3>1. i <= Len(v)
      BY <1>2, <2>2, LenProperties DEF Bytes
    <3> QED BY <1>3, <2>2, <3>1
  <2>3. CASE i \in 1..Len(s) /\ Overlay(s, v)[i] = s[i]
    BY <1>7, <2>3 DEF From
  <2> QED BY <2>1, <2>2, <2>3
<1>10. ASSUME NEW m \in Inodes, NEW k \in Keys, Holds(m, k)'
       PROVE  From(data[m], k)' /\ tried'[k] # {}
  <2>1. Holds(m, k)
    BY <1>4, <1>10 DEF NoNewHolds
  <2>2. From(data[m], k) /\ tried[k] # {}
    BY <2>1 DEF Provenance, Contents
  <2>3. CASE m = n
    <3>1. k = c.key
      BY <1>6, <2>1, <2>3 DEF Provenance, OneHolder
    <3>2. From(Overlay(s, v), k)
      BY <1>9, <3>1
    <3>3. data'[m] = Overlay(s, v)
      BY <1>8, <2>3
    <3> QED BY <2>2, <3>2, <3>3 DEF From
  <2>4. CASE m # n
    BY <1>8, <2>2, <2>4 DEF From
  <2> QED BY <2>3, <2>4
<1> QED BY <1>5, <1>10 DEF Provenance, Contents

LEMMA StepProvenance ==
  ASSUME Typed, Provenance, NEW p \in Procs, StepCases(p), UNCHANGED <<program, tried>>
  PROVE  Provenance'
<1>1. CASE Quiet(p) /\ Drops
  <2>1. NoNewHolds
    BY <1>1, QuietHolds DEF Drops
  <2>2. Owned'
    BY <1>1 DEF Provenance, Owned, Drops, Owner
  <2> QED BY <1>1, <2>1, <2>2, ProvenanceKept DEF Drops
<1>2. CASE \E d \in DOMAIN file : /\ Owner(d) = proc[p].key
                                  /\ Opens(p, file[d]) /\ UNCHANGED <<file, data>>
  <2>1. NoNewHolds
    BY <1>2, OpensHolds
  <2>2. Owned'
    BY <1>2 DEF Provenance, Owned, Owner
  <2> QED BY <1>2, <2>1, <2>2, ProvenanceKept
<1>3. CASE \E d, n : OpensNew(p, d, n)
  BY <1>3, OpensNewProvenance
<1>4. CASE Quiet(p) /\ Write(p)
  BY <1>4, WriteProvenance
<1> QED BY <1>1, <1>2, <1>3, <1>4 DEF StepCases

LEMMA ProvenanceInit == Init => Provenance
<1> SUFFICES ASSUME Init PROVE Provenance
  OBVIOUS
<1>1. \A n \in Inodes : \A k : ~Holds(n, k)
  BY DEF Init, Holds
<1>2. DOMAIN file = {}
  BY DEF Init
<1> QED BY <1>1, <1>2 DEF Provenance, OneHolder, Contents, Owned

LEMMA ProvenanceNext == Provenanced /\ [Next]_vars => Provenanced'
<1> SUFFICES ASSUME Typed, Provenance, [Next]_vars PROVE Typed' /\ Provenance'
  BY DEF Provenanced
<1>0. Typed'
  BY TypedNext
<1>1. CASE UNCHANGED vars
  <2>1. UNCHANGED <<file, data, proc, tried>>
    BY <1>1 DEF vars, fsys, history
  <2>2. NoNewHolds /\ Owned'
    BY <2>1 DEF NoNewHolds, Holds, Provenance, Owned, Owner
  <2> QED BY <1>0, <2>1, <2>2, ProvenanceKept
<1>2. ASSUME NEW p \in Procs, Start(p) PROVE Provenance'
  <2>1. Joins(p)
    BY <1>2, StartKeeps
  <2>2. NoNewHolds
    BY <2>1, JoinsHolds
  <2>3. Owned' /\ UNCHANGED data
    BY <2>1 DEF Joins, fsys, Provenance, Owned, Owner
  <2> QED BY <2>1, <2>2, <2>3, ProvenanceKept DEF Joins
<1>3. ASSUME NEW p \in Procs, Step(p) PROVE Provenance'
  BY <1>3, StepKeeps, StepProvenance DEF Step
<1>4. ASSUME NEW p \in Procs, Crash(p) PROVE Provenance'
  <2>1. Quiet(p) /\ UNCHANGED <<file, data, tried>>
    BY <1>4, CrashKeeps DEF fsys
  <2>2. NoNewHolds
    BY <2>1, QuietHolds
  <2>3. Owned'
    BY <2>1 DEF Provenance, Owned, Owner
  <2> QED BY <2>1, <2>2, <2>3, ProvenanceKept
<1> QED BY <1>0, <1>1, <1>2, <1>3, <1>4 DEF Next

(* What the last call to end has answered.                                 *)
ReadSomething == last.op = "iGet" /\ last.ret # NoValue
Answered == ReadSomething => last.key \in Keys /\ From(last.ret, last.key)

(* Only a read answers with bytes: NULL is what a get gives otherwise.     *)
Reads(p) == /\ proc[p].pc = "read"
            /\ last'.op = "iGet" /\ last'.key = proc[p].key
            /\ LET s == data[proc[p].fd]
               IN  last'.ret = SubSeq(s, 1, Min({proc[p].size, Len(s)}))

LEMMA StepAnswers ==
  ASSUME Typed, NEW p \in Procs, Step(p)
  PROVE  UNCHANGED last \/ ~ReadSomething' \/ Reads(p)
<1> SUFFICES ASSUME last' # last PROVE ~ReadSomething' \/ Reads(p)
  OBVIOUS
<1>1. ASSUME proc[p].pc # "idle"
      PROVE  FitsOp(proc[p])
  BY <1>1, CallFacts DEF Typed, CallOK
<1>2. ASSUME NEW r, Return(p, r)
      PROVE  last'.op = proc[p].op /\ last'.ret = r /\ last'.key = proc[p].key
  BY <1>2 DEF Return
<1>3. ASSUME ReadFile(p) PROVE Reads(p)
  <2>1. last'.op = proc[p].op /\ last'.key = proc[p].key
    BY <1>3 DEF ReadFile, Return
  <2>2. proc[p].op = "iGet"
    BY <1>1, <1>3 DEF ReadFile, FitsOp, Reading
  <2> QED BY <1>3, <2>1, <2>2 DEF ReadFile, Return, Reads
<1>4. ASSUME Write(p) \/ OpenWrite(p) PROVE ~ReadSomething'
  <2>1. proc[p].op = "iPut"
    BY <1>1, <1>4 DEF Write, OpenWrite, FitsOp, Making
  <2> QED BY <1>2, <1>4, <2>1 DEF Write, OpenWrite, Opened, ReadSomething
<1>5. ASSUME LookLevel(p) \/ OpenPlace(p) PROVE ~ReadSomething'
  BY <1>2, <1>5 DEF LookLevel, OpenPlace, Goto, Opened, ReadSomething
<1>6. ASSUME Unlink(p) PROVE ~ReadSomething'
  BY <1>1, <1>2, <1>6 DEF Unlink, FitsOp, ReadSomething
<1>7. ASSUME ReadDir(p) \/ UnlinkDir(p) \/ Rmdir(p) PROVE ~ReadSomething'
  <2>1. proc[p].op = "iKeyDelete"
    BY <1>1, <1>7 DEF ReadDir, UnlinkDir, Rmdir, FitsOp, Wiping
  <2>2. \A l : GoOn(p, l) => last' = last \/ Return(p, TRUE)
    BY DEF GoOn
  <2> QED BY <1>2, <1>7, <2>1, <2>2 DEF ReadDir, UnlinkDir, Rmdir, ReadSomething
<1>8. ASSUME CountLevel(p) PROVE ~ReadSomething'
  <2>1. proc[p].op = "iPut"
    BY <1>1, <1>8 DEF CountLevel, FitsOp, Choosing
  <2> QED BY <1>2, <1>8, <2>1 DEF CountLevel, Found, GoDeeper, ReadSomething
<1>9. ~(StatDirect(p) \/ StatParent(p) \/ StatLevel(p) \/ StatRest(p) \/ StatPlace(p) \/ Mkdir(p)
         \/ OpenDirect(p) \/ LookRest(p) \/ Lseek(p))
  BY DEF StatDirect, StatParent, StatLevel, StatRest, StatPlace, Mkdir, OpenDirect, LookRest, Lseek,
         Goto, GoDeeper, Found, Opened
<1> QED BY <1>3, <1>4, <1>5, <1>6, <1>7, <1>8, <1>9 DEF Step

(* The leading bytes of a file.                                            *)
LEMMA LeadingBytes ==
  ASSUME NEW s \in Bytes, NEW m \in 0..Len(s)
  PROVE  /\ SubSeq(s, 1, m) \in Bytes
         /\ Len(SubSeq(s, 1, m)) = m
         /\ \A i \in 1..m : SubSeq(s, 1, m)[i] = s[i]
<1>1. m \in 0..m
  OBVIOUS
<1>2. SubSeq(s, 1, m) \in Bytes /\ Len(SubSeq(s, 1, m)) = m
  <2>1. PICK S : S = 0..255
    OBVIOUS
  <2>2. s \in Seq(S)
    BY <2>1 DEF Bytes
  <2>3. SubSeq(s, 1, m) \in Seq(S) /\ Len(SubSeq(s, 1, m)) = m
    BY <1>1, <2>2, Leading
  <2> QED BY <2>1, <2>3 DEF Bytes
<1>3. Len(s) \in Nat /\ 1 \in Int /\ m \in Int
  BY LenProperties DEF Bytes
<1>4. ASSUME NEW i \in 1..m PROVE s[i] \in 0..255 /\ 1 + i - 1 = i /\ i \in 1..(m - 1 + 1)
  <2>1. i \in 1..Len(s)
    BY <1>3
  <2> QED BY <2>1, ElementOfSeq DEF Bytes
<1>5. SubSeq(s, 1, m) = [i \in 1..m |-> s[i]]
  BY <1>3 DEF Bytes
<1> QED BY <1>2, <1>5

(* The bytes a read answers with are leading ones of the open file.        *)
LEMMA ReadsLeading ==
  ASSUME Typed, NEW p \in Procs, Reads(p)
  PROVE  /\ proc[p].fd \in Inodes /\ proc[p].key \in Keys
         /\ Holds(proc[p].fd, proc[p].key)
         /\ \E m \in 0..Len(data[proc[p].fd]) : last'.ret = SubSeq(data[proc[p].fd], 1, m)
<1> DEFINE c == proc[p]
           s == data[c.fd]
<1>1. /\ c # Idle /\ CallOK(p, c) /\ c \in CallType /\ c.key \in Keys
  BY CallFacts DEF Reads, Typed
<1>2. c.fd \in Inodes /\ c.size \in Nat
  BY <1>1 DEF CallOK, FitsFile, Reads, Reading, CallType
<1>3. s \in Bytes /\ Len(s) \in Nat
  BY <1>2, LenProperties DEF Typed, FilesOK, Bytes
<1>4. Min({c.size, Len(s)}) \in 0..Len(s)
  <2>1. PICK a \in Nat, b \in Nat : a = c.size /\ b = Len(s)
    BY <1>2, <1>3
  <2>2. {a, b} \in SUBSET Nat /\ {a, b} # {}
    OBVIOUS
  <2>3. Min({a, b}) \in {a, b} /\ Min({a, b}) <= b
    BY <2>2, MinOfNats
  <2>4. Min({a, b}) \in 0..b
    BY <2>3
  <2> QED BY <2>1, <2>4
<1>5. last'.ret = SubSeq(s, 1, Min({c.size, Len(s)}))
  BY DEF Reads
<1> QED BY <1>1, <1>2, <1>4, <1>5 DEF Holds

(* Every byte a get returns was put to its key at that position, whatever  *)
(* writes, truncations, deletes and crashes of other processes come in     *)
(* between its lookup, its lseek and its read: a torn or stale read never  *)
(* shows bytes of another key, and no inode ever comes to serve two keys.  *)
THEOREM ReadsOwnBytes == Spec => []ReadProvenance
<1>1. Init => Provenanced /\ Answered
  BY TypedInit, ProvenanceInit DEF Provenanced, Answered, ReadSomething, Init
<1>2. Provenanced /\ Answered /\ [Next]_vars => Provenanced' /\ Answered'
  <2> SUFFICES ASSUME Provenanced, Answered, [Next]_vars, ReadSomething'
               PROVE  (last.key \in Keys /\ From(last.ret, last.key))'
    BY ProvenanceNext DEF Answered
  <2>1. ASSUME UNCHANGED last, \A k \in Keys : tried[k] \subseteq tried'[k]
        PROVE  (last.key \in Keys /\ From(last.ret, last.key))'
    <3>1. last.key \in Keys /\ From(last.ret, last.key)
      BY <2>1 DEF Answered, ReadSomething
    <3> QED BY <2>1, <3>1 DEF From
  <2>2. CASE UNCHANGED vars
    BY <2>1, <2>2 DEF vars, history
  <2>3. ASSUME NEW p \in Procs, Start(p)
        PROVE  (last.key \in Keys /\ From(last.ret, last.key))'
    BY <2>1, <2>3, StartKeeps DEF Joins, Provenanced
  <2>4. ASSUME NEW p \in Procs, Crash(p)
        PROVE  (last.key \in Keys /\ From(last.ret, last.key))'
    BY <2>1, <2>4, CrashKeeps DEF Provenanced
  <2>5. ASSUME NEW p \in Procs, Step(p)
        PROVE  (last.key \in Keys /\ From(last.ret, last.key))'
    <3>1. UNCHANGED tried
      BY <2>5 DEF Step
    <3>2. CASE UNCHANGED last
      BY <2>1, <3>1, <3>2
    <3>3. CASE Reads(p)
      <4>1. PICK n, k, m : /\ n \in Inodes /\ k \in Keys /\ Holds(n, k)
                           /\ k = proc[p].key /\ m \in 0..Len(data[n])
                           /\ last'.ret = SubSeq(data[n], 1, m) /\ last'.key = k
        BY <3>3, ReadsLeading DEF Reads, Provenanced
      <4>2. From(data[n], k) /\ data[n] \in Bytes
        BY <4>1 DEF Provenanced, Provenance, Contents, Typed, FilesOK
      <4>3. PICK r : r = last'.ret
        OBVIOUS
      <4>4. Len(r) = m /\ \A i \in 1..m : r[i] = data[n][i]
        <5>1. PICK s \in Bytes : s = data[n]
          BY <4>2
        <5> QED BY <4>1, <4>3, <5>1, LeadingBytes
      <4>5. \A i \in 1..m : i \in 1..Len(data[n])
        BY <4>1, <4>2, LenProperties DEF Bytes
      <4>6. \A i \in 1..Len(r) : \E v \in tried'[k] : i <= Len(v) /\ r[i] = v[i]
        BY <3>1, <4>2, <4>4, <4>5 DEF From
      <4> QED BY <4>1, <4>3, <4>6 DEF From
    <3> QED BY <2>5, <3>2, <3>3, StepAnswers DEF Provenanced
  <2> QED BY <2>2, <2>3, <2>4, <2>5 DEF Next
<1>3. Answered => ReadProvenance
  BY DEF Answered, ReadSomething, From, ReadProvenance
<1> QED BY <1>1, <1>2, <1>3, PTL DEF Spec

----------------------------------------------------------------------------
(* What a key's only writer leaves for its readers.                        *)

LEMMA OneUser ==
  ASSUME NEW k, SoleWriter(k), NEW p \in Users(k, "iPut"), NEW q \in Users(k, "iPut")
  PROVE  p = q
<1>1. Users(k, "iPut") \in SUBSET Procs
  BY DEF Users
<1>2. IsFiniteSet(Users(k, "iPut"))
  BY <1>1, ProcsAssumption, FS_Subset
<1>3. PICK x : Users(k, "iPut") = {x}
  BY <1>2, FS_Singleton DEF SoleWriter
<1> QED BY <1>3

(* Nobody comes to be about to write who was not.                          *)
NoNewWrites ==
  \A q \in Procs : proc'[q].pc = "write" =>
    proc[q].pc = "write" /\ proc'[q].key = proc[q].key /\ proc'[q].fd = proc[q].fd

LEMMA QuietWrites ==
  ASSUME Typed, NEW p \in Procs, Quiet(p)
  PROVE  NoNewWrites
<1>1. SUFFICES ASSUME proc'[p].pc = "write"
               PROVE  /\ proc[p].pc = "write"
                      /\ proc'[p].key = proc[p].key /\ proc'[p].fd = proc[p].fd
  BY DEF NoNewWrites, Quiet, Others
<1>2. proc'[p] # Idle
  BY <1>1 DEF Idle
<1>3. /\ proc[p] # Idle /\ proc'[p].key = proc[p].key
      /\ proc'[p].op = proc[p].op /\ proc'[p].fd = proc[p].fd
  BY <1>2 DEF Quiet
<1>4. CallOK(p, proc[p]) /\ CallOK(p, proc[p])'
  BY <1>2, <1>3 DEF Quiet, Typed, ProcsOK
<1>5. proc[p].fd \in Inodes /\ proc[p].op = "iPut"
  BY <1>1, <1>3, <1>4 DEF CallOK, FitsFile, FitsOp, Making
<1>6. proc[p].fd # 0
  BY <1>5, InodesAssumption DEF Inodes
<1> QED BY <1>3, <1>4, <1>5, <1>6 DEF CallOK, FitsFile, FitsOp, Reading

LEMMA WholeKept ==
  ASSUME Typed, WholeValues, NoNewHolds, NoNewWrites, UNCHANGED <<program, data>>,
         \A k \in Keys : tried[k] \subseteq tried'[k]
  PROVE  WholeValues'
<1>1. \A k : SoleWriter(k)' <=> SoleWriter(k)
  BY DEF SoleWriter, Users
<1>2. ASSUME NEW n \in Inodes, NEW k \in Keys, SoleWriter(k), Holds(n, k)'
      PROVE  data'[n] \in tried'[k] \cup {<<>>}
  <2>1. data[n] \in tried[k] \cup {<<>>}
    BY <1>2 DEF WholeValues, NoNewHolds
  <2> QED BY <2>1
<1>3. ASSUME NEW q \in Procs, proc'[q].pc = "write", SoleWriter(proc'[q].key)
      PROVE  data'[proc'[q].fd] = <<>>
  BY <1>3 DEF WholeValues, NoNewWrites
<1> QED BY <1>1, <1>2, <1>3 DEF WholeValues, SoleWriter, Users

LEMMA OpensNewWhole ==
  ASSUME Typed, Provenance, WholeValues, NEW p \in Procs, NEW d, NEW n, OpensNew(p, d, n),
         UNCHANGED <<program, tried>>
  PROVE  WholeValues'
<1>1. \A k : SoleWriter(k)' <=> SoleWriter(k)
  BY DEF SoleWriter, Users
<1>2. data'[n] = <<>> /\ \A m \in Inodes : m # n => data'[m] = data[m]
  BY DEF OpensNew, Typed, FilesOK
<1>3. \A m \in Inodes : \A k : m # n /\ Holds(m, k)' => Holds(m, k)
  BY OpensNewHolds DEF Provenance
<1>4. ASSUME NEW m \in Inodes, NEW k \in Keys, SoleWriter(k), Holds(m, k)'
      PROVE  data'[m] \in tried'[k] \cup {<<>>}
  <2>1. CASE m = n
    BY <1>2, <2>1
  <2>2. CASE m # n
    BY <1>2, <1>3, <1>4, <2>2 DEF WholeValues
  <2> QED BY <2>1, <2>2
<1>5. ASSUME NEW q \in Procs, proc'[q].pc = "write", SoleWriter(proc'[q].key)
      PROVE  data'[proc'[q].fd] = <<>>
  <2>1. CASE q = p
    BY <1>2, <2>1 DEF OpensNew, Opens
  <2>2. CASE q # p
    <3>1. proc'[q] = proc[q]
      BY <2>2 DEF OpensNew, Opens, Others
    <3>2. data[proc[q].fd] = <<>>
      BY <1>5, <3>1 DEF WholeValues
    <3>3. proc[q].fd \in Inodes
      BY <1>5, <3>1, CallFacts DEF Typed, CallOK, FitsFile
    <3> QED BY <1>2, <3>1, <3>2, <3>3
  <2> QED BY <2>1, <2>2
<1> QED BY <1>1, <1>4, <1>5 DEF WholeValues, SoleWriter, Users

LEMMA WriteWhole ==
  ASSUME Typed, Provenance, WholeValues, NEW p \in Procs, Quiet(p), Write(p),
         UNCHANGED <<program, tried>>
  PROVE  WholeValues'
<1> DEFINE c == proc[p]
           n == c.fd
<1>1. c # Idle /\ CallOK(p, c) /\ c.pc = "write" /\ c.val \in Bytes /\ c.key \in Keys
  BY CallFacts DEF Write, Typed, CallType
<1>2. n \in Inodes /\ c.val \in tried[c.key] /\ p \in Users(c.key, "iPut")
  BY <1>1 DEF CallOK, FitsFile, FitsOp, FitsProgram, Making
<1>3. /\ data'[n] = Overlay(data[n], c.val)
      /\ \A m \in Inodes : m # n => data'[m] = data[m]
      /\ proc'[p] = Idle
  BY <1>2 DEF Write, Return, Typed, FilesOK, ProgramOK
<1>4. Holds(n, c.key)
  BY <1>1 DEF Holds
<1>5. NoNewHolds /\ NoNewWrites
  BY QuietHolds, QuietWrites DEF Write
<1>6. \A k : SoleWriter(k)' <=> SoleWriter(k)
  BY DEF SoleWriter, Users
<1>7. ASSUME NEW m \in Inodes, NEW k \in Keys, SoleWriter(k), Holds(m, k)'
      PROVE  data'[m] \in tried'[k] \cup {<<>>}
  <2>1. Holds(m, k)
    BY <1>5, <1>7 DEF NoNewHolds
  <2>2. CASE m # n
    BY <1>3, <1>7, <2>1, <2>2 DEF WholeValues
  <2>3. CASE m = n
    <3>1. k = c.key
      BY <1>2, <1>4, <2>1, <2>3 DEF Provenance, OneHolder
    <3>2. data[n] = <<>>
      BY <1>1, <1>7, <3>1 DEF WholeValues
    <3>3. Overlay(data[n], c.val) = c.val
      BY <1>1, <3>2, OverlayBytes
    <3> QED BY <1>2, <1>3, <2>3, <3>1, <3>3
  <2> QED BY <2>2, <2>3
<1>8. ASSUME NEW q \in Procs, proc'[q].pc = "write", SoleWriter(proc'[q].key)
      PROVE  data'[proc'[q].fd] = <<>>
  <2>1. /\ proc[q].pc = "write"
        /\ proc'[q].key = proc[q].key /\ proc'[q].fd = proc[q].fd
    BY <1>5, <1>8 DEF NoNewWrites
  <2>2. /\ proc[q] # Idle /\ CallOK(q, proc[q])
    BY <2>1, CallFacts DEF Typed
  <2>3. proc[q].fd \in Inodes /\ q \in Users(proc[q].key, "iPut")
    BY <2>1, <2>2 DEF CallOK, FitsFile, FitsOp, FitsProgram, Making
  <2>4. data[proc[q].fd] = <<>>
    BY <1>8, <2>1 DEF WholeValues
  <2>5. CASE proc[q].fd # n
    BY <1>3, <2>1, <2>3, <2>4, <2>5
  <2>6. CASE proc[q].fd = n
    <3>1. Holds(n, proc[q].key)
      BY <2>2, <2>6 DEF Holds
    <3>2. proc[q].key = c.key
      BY <1>2, <1>4, <3>1 DEF Provenance, OneHolder
    <3>3. q = p
      BY <1>2, <1>8, <2>1, <2>3, <3>2, OneUser
    <3> QED BY <1>3, <1>8, <3>3 DEF Idle
  <2> QED BY <2>5, <2>6
<1> QED BY <1>6, <1>7, <1>8 DEF WholeValues, SoleWriter, Users

LEMMA WholeNext ==
  Provenanced /\ WholeValues /\ [Next]_vars => WholeValues'
<1> SUFFICES ASSUME Typed, Provenance, WholeValues, [Next]_vars PROVE WholeValues'
  BY DEF Provenanced
<1>1. CASE UNCHANGED vars
  BY <1>1 DEF vars, fsys, history, WholeValues, SoleWriter, Users, Holds
<1>2. ASSUME NEW p \in Procs, Start(p) PROVE WholeValues'
  <2>1. Joins(p)
    BY <1>2, StartKeeps
  <2>2. NoNewWrites
    BY <2>1 DEF Joins, NoNewWrites, Idle
  <2> QED BY <2>1, <2>2, JoinsHolds, WholeKept DEF Joins, fsys
<1>3. ASSUME NEW p \in Procs, Step(p) PROVE WholeValues'
  <2>1. StepCases(p) /\ UNCHANGED <<program, tried>>
    BY <1>3, StepKeeps DEF Step
  <2>2. CASE Quiet(p) /\ Drops
    BY <2>1, <2>2, QuietHolds, QuietWrites, WholeKept DEF Drops
  <2>3. ASSUME NEW d \in DOMAIN file, Owner(d) = proc[p].key,
               Opens(p, file[d]), proc'[p].pc = "lseek", UNCHANGED <<file, data>>
        PROVE  WholeValues'
    <3>1. NoNewWrites
      BY <2>3 DEF Opens, Others, NoNewWrites
    <3> QED BY <2>1, <2>3, <3>1, OpensHolds, WholeKept
  <2>4. CASE \E d, n : OpensNew(p, d, n)
    BY <2>1, <2>4, OpensNewWhole
  <2>5. CASE Quiet(p) /\ Write(p)
    BY <2>1, <2>5, WriteWhole
  <2> QED BY <2>1, <2>2, <2>3, <2>4, <2>5 DEF StepCases
<1>4. ASSUME NEW p \in Procs, Crash(p) PROVE WholeValues'
  <2>1. Quiet(p) /\ UNCHANGED <<program, file, data, tried>>
    BY <1>4, CrashKeeps DEF fsys
  <2>2. NoNewHolds /\ NoNewWrites
    BY <2>1, QuietHolds, QuietWrites
  <2> QED BY <2>1, <2>2, WholeKept
<1> QED BY <1>1, <1>2, <1>3, <1>4 DEF Next

(* A get of a key with one writer returns the beginning of one of the      *)
(* values put: whatever comes between its lookup, its lseek and its read,  *)
(* a put of its writer that is half done, a delete by anyone, a file made  *)
(* again, it never shows a mixture of two values.                          *)
THEOREM SingleWriterReads == Spec => []ReadsPrefix
<1> DEFINE Sole == ReadSomething /\ SoleWriter(last.key)
           Good == /\ last.key \in Keys
                   /\ \E v \in tried[last.key] : IsPrefix(last.ret, v)
           IInv == Provenanced /\ WholeValues /\ (Sole => Good)
<1>1. Init => IInv
  <2> SUFFICES ASSUME Init PROVE IInv
    OBVIOUS
  <2>1. Provenanced
    BY TypedInit, ProvenanceInit DEF Provenanced
  <2>2. WholeValues
    <3>1. \A n \in Inodes : \A k : ~Holds(n, k)
      BY DEF Init, Holds
    <3> QED BY <3>1 DEF WholeValues, Init, Idle
  <2> QED BY <2>1, <2>2 DEF Init, ReadSomething
<1>2. IInv /\ [Next]_vars => IInv'
  <2> SUFFICES ASSUME Provenanced, WholeValues, Sole => Good, [Next]_vars, Sole'
               PROVE  Good'
    BY ProvenanceNext, WholeNext
  <2>1. ASSUME UNCHANGED <<last, program>>, \A k \in Keys : tried[k] \subseteq tried'[k]
        PROVE  Good'
    <3>1. Good
      BY <2>1 DEF ReadSomething, SoleWriter, Users
    <3> QED BY <2>1, <3>1
  <2>2. CASE UNCHANGED vars
    BY <2>1, <2>2 DEF vars, history
  <2>3. ASSUME NEW p \in Procs, Start(p) PROVE Good'
    BY <2>1, <2>3, StartKeeps DEF Joins, Provenanced
  <2>4. ASSUME NEW p \in Procs, Crash(p) PROVE Good'
    BY <2>1, <2>4, CrashKeeps DEF Provenanced
  <2>5. ASSUME NEW p \in Procs, Step(p) PROVE Good'
    <3>1. UNCHANGED <<program, tried>>
      BY <2>5 DEF Step
    <3>2. CASE UNCHANGED last
      BY <2>1, <3>1, <3>2
    <3>3. CASE Reads(p)
      <4>1. PICK n, k, m : /\ n \in Inodes /\ k \in Keys /\ Holds(n, k)
                           /\ k = proc[p].key /\ m \in 0..Len(data[n])
                           /\ last'.ret = SubSeq(data[n], 1, m) /\ last'.key = k
        BY <3>3, ReadsLeading DEF Reads, Provenanced
      <4>2. PICK s \in Bytes : s = data[n]
        BY <4>1 DEF Provenanced, Typed, FilesOK
      <4>3. SoleWriter(k)
        BY <3>1, <4>1 DEF SoleWriter, Users
      <4>4. s \in tried[k] \cup {<<>>} /\ tried[k] # {} /\ tried[k] \subseteq Values
        BY <4>1, <4>2, <4>3
        DEF WholeValues, Provenanced, Provenance, Contents, Typed, ProgramOK
      <4>5. m \in 0..m /\ m \in 0..Len(s) /\ last'.ret = SubSeq(s, 1, m)
        BY <4>1, <4>2
      <4>6. IsPrefix(last'.ret, s) /\ last'.ret \in Bytes
        <5>1. IsPrefix(SubSeq(s, 1, m), s) /\ SubSeq(s, 1, m) \in Bytes
          BY <4>5, Leading DEF Bytes
        <5> QED BY <4>5, <5>1
      <4>7. CASE s \in tried[k]
        BY <3>1, <4>1, <4>6, <4>7
      <4>8. CASE s = <<>>
        <5>1. PICK v : v \in tried[k]
          BY <4>4
        <5>2. v \in Bytes
          BY <4>4, <5>1, ValuesAssumption DEF Bytes
        <5>3. IsPrefix(<<>>, v)
          <6>1. Len(<<>>) = 0 /\ Len(v) \in Nat /\ <<>> \in Bytes
            BY <5>2, LenProperties, EmptySeq DEF Bytes
          <6>2. 0 \in 0..Len(v) /\ SubSeq(v, 1, 0) = <<>>
            BY <5>2, <6>1, SubSeqEmpty DEF Bytes
          <6> QED BY <5>2, <6>1, <6>2, PrefixIsLeading DEF Bytes
        <5>4. last'.ret = <<>>
          <6>1. m = 0
            BY <4>5, <4>8
          <6> QED BY <4>5, <4>6, <4>8, <6>1, SubSeqEmpty DEF Bytes
        <5> QED BY <3>1, <4>1, <5>1, <5>3, <5>4
      <4> QED BY <4>4, <4>7, <4>8
    <3> QED BY <2>5, <3>2, <3>3, StepAnswers DEF Provenanced
  <2> QED BY <2>2, <2>3, <2>4, <2>5 DEF Next
<1>3. IInv => ReadsPrefix
  BY DEF ReadSomething, SoleWriter, ReadsPrefix
<1> QED BY <1>1, <1>2, <1>3, PTL DEF Spec

----------------------------------------------------------------------------
(* How many keys a directory can hold.                                     *)

(* A directory that lies above one a put makes: it is made unasked.        *)
IsParent(x) == \E k \in Keys : /\ Users(k, "iPut") # {}
                               /\ Len(k) > Len(x.at) + 1 /\ IsPrefix(x.at, k)
                               /\ k[Len(x.at) + 1] = x.part \o x.name
Counts(x)   == /\ Len(x.name) > 1 \/ IDBPartitionFullProcess = dkStopped
               /\ ~IsParent(x)

(* A put that has seen room in a page has a share of it before it makes    *)
(* its directory; what is taken is what is there and what is so reserved.  *)
Reserved       == {proc[p].place : p \in {q \in Procs : Pending(q)}}
Taken(P, part) == {x \in Page(dirs \cup Reserved, P, part) : Counts(x)}
Limit          == IDBMaxPageCount + Cardinality(Writers) - 1
PagesOK        == \A P, part : Cardinality(Taken(P, part)) <= Limit

WritersReserve == /\ IsFiniteSet(Writers) /\ Cardinality(Writers) \in Nat
                  /\ IsFiniteSet(Reserved) /\ Cardinality(Reserved) \in Nat
                  /\ Cardinality(Reserved) <= Cardinality(Writers)

LEMMA ReservedByWriters == Typed => WritersReserve
<1> SUFFICES ASSUME Typed PROVE WritersReserve
  OBVIOUS
<1> DEFINE Some == {q \in Procs : Pending(q)}
           f == [q \in Some |-> proc[q].place]
<1>1. Writers \in SUBSET Procs
  BY DEF Writers, Users
<1>2. IsFiniteSet(Writers)
  BY <1>1, ProcsAssumption, FS_Subset
<1>3. ASSUME NEW q \in Some PROVE q \in Writers
  <2>1. q \in Procs /\ proc[q].pc \in Making /\ proc[q].pc # "idle"
    BY <1>3 DEF Pending, Making
  <2>2. CallOK(q, proc[q]) /\ proc[q].key \in Keys
    BY <2>1, CallFacts DEF Typed
  <2>3. q \in Users(proc[q].key, "iPut")
    BY <2>1, <2>2 DEF CallOK, FitsOp, FitsProgram
  <2> QED BY <2>2, <2>3 DEF Writers
<1>4. Some \in SUBSET Writers
  BY <1>3
<1>5. IsFiniteSet(Some) /\ Cardinality(Some) <= Cardinality(Writers)
  BY <1>2, <1>4, FS_Subset
<1>6. f \in Surjection(Some, Reserved)
  <2>1. f \in [Some -> Reserved] /\ \A x \in Reserved : \E q \in Some : f[q] = x
    BY DEF Reserved
  <2> HIDE DEF f, Some
  <2> QED BY <2>1 DEF Surjection
<1> HIDE DEF f, Some
<1>7. IsFiniteSet(Reserved) /\ Cardinality(Reserved) <= Cardinality(Some)
  BY <1>5, <1>6, FS_Surjection
<1>8. /\ Cardinality(Writers) \in Nat /\ Cardinality(Some) \in Nat
      /\ Cardinality(Reserved) \in Nat
  BY <1>2, <1>5, <1>7, FS_CardinalityType
<1> QED BY <1>2, <1>5, <1>7, <1>8 DEF WritersReserve

LEMMA TakenFinite ==
  ASSUME Typed, NEW P, NEW part
  PROVE  /\ IsFiniteSet(Taken(P, part)) /\ Cardinality(Taken(P, part)) \in Nat
         /\ IsFiniteSet(Page(dirs, P, part)) /\ Cardinality(Page(dirs, P, part)) \in Nat
         /\ Limit \in Int
<1>1. IsFiniteSet(dirs) /\ IsFiniteSet(Reserved)
  BY ReservedByWriters DEF WritersReserve, Typed, TreeOK
<1>2. IsFiniteSet(dirs \cup Reserved)
  BY <1>1, FS_Union
<1>3. /\ Taken(P, part) \in SUBSET (dirs \cup Reserved)
      /\ Page(dirs, P, part) \in SUBSET dirs
  BY DEF Taken, Page
<1>4. IsFiniteSet(Taken(P, part)) /\ IsFiniteSet(Page(dirs, P, part))
  BY <1>1, <1>2, <1>3, FS_Subset
<1>5. Limit \in Int
  BY ReservedByWriters, OptionAssumption DEF WritersReserve, Limit
<1> QED BY <1>4, <1>5, FS_CardinalityType

(* A page of which nothing more is taken.                                  *)
LEMMA PageKept ==
  ASSUME Typed, PagesOK, UNCHANGED program, NEW P, NEW part,
         Taken(P, part)' \subseteq Taken(P, part)
  PROVE  Cardinality(Taken(P, part)') <= Limit'
<1>1. Limit' = Limit
  BY DEF Limit, Writers, Users
<1>2. /\ IsFiniteSet(Taken(P, part)) /\ Cardinality(Taken(P, part)) \in Nat
      /\ Limit \in Int
  BY TakenFinite
<1>3. /\ IsFiniteSet(Taken(P, part)')
      /\ Cardinality(Taken(P, part)') <= Cardinality(Taken(P, part))
  <2>1. Taken(P, part)' \in SUBSET Taken(P, part)
    OBVIOUS
  <2> QED BY <1>2, <2>1, FS_Subset
<1>4. Cardinality(Taken(P, part)') \in Nat
  BY <1>3, FS_CardinalityType
<1>5. Cardinality(Taken(P, part)) <= Limit
  BY DEF PagesOK
<1> QED BY <1>1, <1>2, <1>3, <1>4, <1>5

(* A page with room takes one more, for everybody who reserves.            *)
LEMMA PageWithRoom ==
  ASSUME Typed, Typed', UNCHANGED program, dirs' \subseteq dirs, NEW P, NEW part,
         iSubkeyCount(dirs, P, part) < IDBMaxPageCount
  PROVE  Cardinality(Taken(P, part)') <= Limit'
<1> DEFINE G == Page(dirs, P, part)
<1>1. Taken(P, part)' \in SUBSET (G \cup Reserved')
  BY DEF Taken, Page
<1>2. /\ IsFiniteSet(G) /\ Cardinality(G) \in Nat /\ Cardinality(G) < IDBMaxPageCount
  BY TakenFinite DEF iSubkeyCount
<1>3. /\ IsFiniteSet(Reserved') /\ Cardinality(Reserved') \in Nat
      /\ Cardinality(Writers') \in Nat
      /\ Cardinality(Reserved') <= Cardinality(Writers')
  <2>1. Typed' => WritersReserve'
    BY ReservedByWriters, PTL
  <2> QED BY <2>1 DEF WritersReserve
<1> HIDE DEF G
<1>4. PICK R : R = Reserved'
  OBVIOUS
<1>5. /\ IsFiniteSet(G \cup R)
      /\ Cardinality(G \cup R) = Cardinality(G) + Cardinality(R) - Cardinality(G \cap R)
  BY <1>2, <1>3, <1>4, FS_Union
<1>6. IsFiniteSet(G \cap R) /\ Cardinality(G \cap R) \in Nat
  BY <1>2, FS_Intersection, FS_CardinalityType, <1>3, <1>4
<1>7. /\ Cardinality(Taken(P, part)') <= Cardinality(G \cup R)
      /\ Cardinality(Taken(P, part)') \in Nat
  BY <1>1, <1>4, <1>5, FS_Subset, FS_CardinalityType
<1>8. PICK g \in Nat, r \in Nat, o \in Nat, t \in Nat, w \in Nat :
        /\ g = Cardinality(G) /\ r = Cardinality(R) /\ o = Cardinality(G \cap R)
        /\ t = Cardinality(Taken(P, part)') /\ w = Cardinality(Writers')
  BY <1>2, <1>3, <1>4, <1>6, <1>7
<1>9. t <= g + r - o /\ r <= w /\ g < IDBMaxPageCount
  BY <1>2, <1>3, <1>4, <1>5, <1>7, <1>8
<1>10. t <= IDBMaxPageCount + w - 1
  BY <1>9, OptionAssumption
<1> QED BY <1>8, <1>10 DEF Limit

LEMMA CountsSame ==
  ASSUME UNCHANGED program, NEW x
  PROVE  Counts(x)' <=> Counts(x)
BY DEF Counts, IsParent, Users, IDBPartitionFullProcess

(* Choosing a place: it was taken already, or there is room for it, or it  *)
(* does not count.                                                         *)
LEMMA ChoicePages ==
  ASSUME Typed, Typed', PagesOK, NEW p \in Procs, UNCHANGED program, dirs' \subseteq dirs,
         \A q \in Procs : Pending(q)' =>
           \/ Pending(q) /\ proc'[q].place = proc[q].place
           \/ q = p /\ Allowed(proc'[q].place)
  PROVE  PagesOK'
<1> DEFINE e == proc'[p].place
<1>1. ASSUME NEW x \in Reserved', x \notin Reserved PROVE x = e /\ Allowed(e)
  <2>1. PICK q \in Procs : Pending(q)' /\ x = proc'[q].place
    BY <1>1 DEF Reserved
  <2>2. ~(Pending(q) /\ proc'[q].place = proc[q].place)
    BY <1>1, <2>1 DEF Reserved
  <2> QED BY <2>1, <2>2
<1>2. ASSUME NEW P, NEW part,
             \A x \in Reserved' : x \in Page(Reserved', P, part) /\ Counts(x)
                                    => x \in dirs \cup Reserved
      PROVE  Cardinality(Taken(P, part)') <= Limit'
  <2>1. Taken(P, part)' \subseteq Taken(P, part)
    BY <1>2, CountsSame DEF Taken, Page
  <2> QED BY <2>1, PageKept
<1>3. ASSUME NEW P, NEW part PROVE Cardinality(Taken(P, part)') <= Limit'
  <2>1. CASE \A x \in Reserved' : x \in Reserved
    BY <1>2, <2>1
  <2>2. CASE Allowed(e)
    <3>1. CASE e \in dirs
      BY <1>1, <1>2, <3>1
    <3>2. CASE iSubkeyCount(dirs, e.at, e.part) < IDBMaxPageCount
      <4>1. CASE P = e.at /\ part = e.part
        <5>1. iSubkeyCount(dirs, P, part) < IDBMaxPageCount
          BY <3>2, <4>1
        <5> QED BY <5>1, PageWithRoom
      <4>2. CASE ~(P = e.at /\ part = e.part)
        <5>1. \A x \in Reserved' : x \in Page(Reserved', P, part) => x \in Reserved
          BY <1>1, <4>2 DEF Page
        <5> QED BY <1>2, <5>1
      <4> QED BY <4>1, <4>2
    <3>3. CASE IDBPartitionFullProcess = dkIgnored /\ Len(e.name) = 1
      <4>1. ~Counts(e)
        BY <3>3 DEF Counts, dkIgnored, dkStopped
      <4> QED BY <1>1, <1>2, <4>1
    <3> QED BY <2>2, <3>1, <3>2, <3>3 DEF Allowed
  <2> QED BY <1>1, <2>1, <2>2
<1>4. \A P, part : Cardinality(Taken(P, part)') <= Limit'
  BY <1>3
<1> QED BY <1>4 DEF PagesOK

(* mkdir makes what is reserved, or what does not count.                   *)
LEMMA MkdirPages ==
  ASSUME Typed, PagesOK, NEW p \in Procs, Mkdir(p), UNCHANGED program, Others(p), Chosen(p)
  PROVE  PagesOK'
<1> DEFINE c == proc[p]
           d == Target(p)
           k == c.key
<1>1. c.pc = "mkdir" /\ CallOK(p, c) /\ k \in Keys /\ c \in CallType
  BY CallFacts DEF Mkdir, Typed
<1>2. k \in Seq(Names) /\ Len(k) \in Nat /\ p \in Users(k, "iPut")
  BY <1>1, KeyParts, LenProperties DEF CallOK, FitsOp, FitsProgram, Making
<1>3. dirs' \subseteq dirs \cup {d}
  BY DEF Mkdir
<1>4. Reserved' \subseteq Reserved
  <2> SUFFICES ASSUME NEW q \in Procs, Pending(q)' PROVE proc'[q].place \in Reserved
    BY DEF Reserved
  <2>1. CASE q = p
    <3>1. proc'[p].place = c.place
      BY <1>1 DEF Mkdir, Typed, ProgramOK, CallType
    <3> QED BY <1>1, <2>1, <3>1 DEF Reserved, Pending
  <2>2. CASE q # p
    BY <2>2 DEF Others, Pending, Reserved
  <2> QED BY <2>1, <2>2
<1>5. d \in Reserved \/ d.name = <<>> \/ ~Counts(d)
  <2>1. d = c.place \/ ParentDir(k, d) \/ LevelDir(k, d)
    BY <1>1, TargetCases
  <2>2. CASE d = c.place
    BY <1>1, <2>2 DEF Reserved, Pending
  <2>3. CASE LevelDir(k, d)
    BY <2>3 DEF LevelDir
  <2>4. CASE ParentDir(k, d)
    <3>1. PICK j \in 1..(Len(k) - 1) :
            d = [at |-> SubSeq(k, 1, j - 1), part |-> <<>>, name |-> k[j]]
      BY <2>4 DEF ParentDir
    <3>2. /\ j - 1 \in 0..Len(k) /\ j - 1 \in 0..(j - 1) /\ j \in 1..Len(k)
          /\ Len(k) > j /\ j - 1 + 1 = j
      BY <1>2, <3>1
    <3>3. PICK i \in Nat : i = j - 1
      BY <3>2
    <3>4. i \in 0..Len(k) /\ i \in 0..i /\ i + 1 = j
      BY <3>2, <3>3
    <3>5. /\ Len(SubSeq(k, 1, i)) = i
          /\ IsPrefix(SubSeq(k, 1, i), k)
      <4> HIDE DEF k
      <4> QED BY <1>2, <3>4, Leading
    <3>6. k[j] \in Names /\ <<>> \o k[j] = k[j]
      <4>1. k[j] \in Names
        BY <1>2, <3>2, ElementOfSeq
      <4> QED BY <4>1, ConcatEmptySeq DEF Names
    <3>7. Len(k) > Len(d.at) + 1 /\ IsPrefix(d.at, k) /\ k[Len(d.at) + 1] = d.part \o d.name
      <4>1. d.at = SubSeq(k, 1, i) /\ d.part = <<>> /\ d.name = k[j]
        BY <3>1, <3>3
      <4>2. Len(d.at) = i /\ IsPrefix(d.at, k)
        BY <3>5, <4>1
      <4>3. Len(d.at) + 1 = j
        BY <3>4, <4>2
      <4> HIDE DEF d, k
      <4> QED BY <3>2, <3>6, <4>1, <4>2, <4>3
    <3>8. IsParent(d)
      BY <1>1, <1>2, <3>7 DEF IsParent
    <3> QED BY <3>8 DEF Counts
  <2> QED BY <2>1, <2>2, <2>3, <2>4
<1>6. ASSUME NEW P, NEW part PROVE Cardinality(Taken(P, part)') <= Limit'
  <2>1. Taken(P, part)' \subseteq Taken(P, part)
    <3> HIDE DEF d
    <3> QED BY <1>3, <1>4, <1>5, CountsSame DEF Taken, Page
  <2> QED BY <2>1, PageKept
<1>7. \A P, part : Cardinality(Taken(P, part)') <= Limit'
  BY <1>6
<1> QED BY <1>7 DEF PagesOK

LEMMA PagesNext == Typed /\ PagesOK /\ [Next]_vars => PagesOK'
<1> SUFFICES ASSUME Typed, PagesOK, [Next]_vars PROVE PagesOK'
  OBVIOUS
<1>0. Typed'
  BY TypedNext
<1>1. CASE UNCHANGED vars
  <2>1. UNCHANGED <<program, dirs, proc>>
    BY <1>1 DEF vars, fsys
  <2>2. Reserved' = Reserved
    BY <2>1 DEF Reserved, Pending
  <2>3. \A P, part : Taken(P, part)' \subseteq Taken(P, part)
    BY <2>1, <2>2, CountsSame DEF Taken, Page
  <2>4. \A P, part : Cardinality(Taken(P, part)') <= Limit'
    BY <2>1, <2>3, PageKept
  <2> QED BY <2>4 DEF PagesOK
<1>2. ASSUME NEW p \in Procs, Start(p) PROVE PagesOK'
  <2>1. Joins(p)
    BY <1>2, StartKeeps
  <2>2. \A q \in Procs : Pending(q)' => Pending(q) /\ proc'[q].place = proc[q].place
    BY <2>1 DEF Joins, Pending, Idle
  <2> QED BY <1>0, <2>1, <2>2, ChoicePages DEF Joins, fsys
<1>3. ASSUME NEW p \in Procs, Step(p) PROVE PagesOK'
  <2>1. StepCases(p) /\ Chosen(p) /\ UNCHANGED <<program, tried>>
    BY <1>3, StepKeeps DEF Step
  <2>2. Others(p)
    BY <2>1, StepProcs
  <2>3. CASE Mkdir(p)
    BY <2>1, <2>2, <2>3, MkdirPages
  <2>4. CASE ~Mkdir(p)
    <3>1. dirs' \subseteq dirs
      BY <1>3, <2>4
      DEF Step, fsys, StatDirect, StatParent, CountLevel, StatLevel, StatRest, StatPlace, OpenWrite, Write,
          OpenDirect, LookLevel, LookRest, OpenPlace, Lseek, ReadFile,
          Unlink, ReadDir, UnlinkDir, Rmdir
    <3>2. \A q \in Procs : Pending(q)' =>
            \/ Pending(q) /\ proc'[q].place = proc[q].place
            \/ q = p /\ Allowed(proc'[q].place)
      BY <2>1, <2>2 DEF Chosen, Others, Pending
    <3> QED BY <1>0, <2>1, <3>1, <3>2, ChoicePages
  <2> QED BY <2>3, <2>4
<1>4. ASSUME NEW p \in Procs, Crash(p) PROVE PagesOK'
  <2>1. Quiet(p) /\ UNCHANGED <<program, fsys>> /\ proc'[p] = Idle
    BY <1>4, CrashKeeps DEF Crash, Typed, ProgramOK
  <2>2. \A q \in Procs : Pending(q)' => Pending(q) /\ proc'[q].place = proc[q].place
    BY <2>1 DEF Quiet, Others, Pending, Idle
  <2> QED BY <1>0, <2>1, <2>2, ChoicePages DEF fsys
<1> QED BY <1>1, <1>2, <1>3, <1>4 DEF Next

(* Nothing is locked between counting a directory and making a key in it:  *)
(* several puts can see the same room.  Each writer but one adds at most   *)
(* one key beyond IDBMaxPageCount to a directory all the same, with any    *)
(* number of writers, since a put holds one reservation at a time, and one *)
(* made while the directory had room.                                      *)
THEOREM ProcsBoundPages == Spec => []PageBound
<1>1. Init => Typed /\ PagesOK
  <2> SUFFICES ASSUME Init PROVE PagesOK
    BY TypedInit
  <2>1. Reserved = {} /\ dirs = {}
    BY DEF Init, Reserved, Pending, Idle
  <2>2. ASSUME NEW P, NEW part PROVE Cardinality(Taken(P, part)) <= Limit
    <3>1. Taken(P, part) = {}
      BY <2>1 DEF Taken, Page
    <3>2. Cardinality(Taken(P, part)) = 0
      BY <3>1, FS_EmptySet
    <3>3. Cardinality(Writers) \in Nat
      BY TypedInit, ReservedByWriters DEF WritersReserve
    <3> QED BY <3>2, <3>3, OptionAssumption DEF Limit
  <2> QED BY <2>2 DEF PagesOK
<1>2. Typed /\ PagesOK => PageBound
  <2> SUFFICES ASSUME Typed, PagesOK PROVE PageBound
    OBVIOUS
  <2>1. ASSUME NEW d \in dirs
        PROVE  Cardinality({x \in Page(dirs, d.at, d.part) : Counts(x)}) <= Limit
    <3> DEFINE A == {x \in Page(dirs, d.at, d.part) : Counts(x)}
    <3>1. A \in SUBSET Taken(d.at, d.part)
      BY DEF Taken, Page
    <3>2. /\ IsFiniteSet(Taken(d.at, d.part))
          /\ Cardinality(Taken(d.at, d.part)) \in Nat /\ Limit \in Int
      BY TakenFinite
    <3>3. IsFiniteSet(A) /\ Cardinality(A) <= Cardinality(Taken(d.at, d.part))
      <4> HIDE DEF A
      <4> QED BY <3>1, <3>2, FS_Subset
    <3>4. Cardinality(A) \in Nat
      BY <3>3, FS_CardinalityType
    <3>5. Cardinality(Taken(d.at, d.part)) <= Limit
      BY DEF PagesOK
    <3> QED BY <3>2, <3>3, <3>4, <3>5
  <2> QED BY <2>1 DEF PageBound, Limit, Counts, IsParent
<1> QED BY <1>1, <1>2, TypedNext, PagesNext, PTL DEF Spec
=============================================================================
