-------------------------- MODULE KeyStore_proofs --------------------------
(***************************************************************************)
(* Theorems about KeyStore, for every set of keys and values, every page   *)
(* count and every setting of the options.                                 *)
(***************************************************************************)
EXTENDS KeyStore, KeyTree_proofs

(* The parent and the name of a key.                                       *)
LEMMA KeyParts ==
  ASSUME NEW K \in Keys
  PROVE  /\ Front(K) \in Seq(Names) /\ Last(K) \in Names
         /\ K \in Seq(Names) /\ K # <<>>
         /\ Plain(K) = Place(Front(K), Last(K), 0)
BY KeysAssumption, FrontLast DEF KeyPaths, Plain

(* A put goes to a place of its key before the last character, or, with    *)
(* dkFixed and dkReserved, to a level.                                     *)
LEMMA PutPlaces ==
  ASSUME NEW K \in Keys, PutPlace(K) # NoDir
  PROVE  \E i \in 0..(Len(Last(K)) - 1) :
           \/ PutPlace(K) = Place(Front(K), Last(K), i)
           \/ ~SoundFullProcess /\ PutPlace(K) = Level(Front(K), Last(K), i)
<1> DEFINE P == Front(K)
           k == Last(K)
           L == PutLevels(Dirs, P, k, IDBMaxPageCount)
           F == iFindKeyDirToPut(Dirs, P, k, IDBMaxPageCount,
                                 IDBPartitionFullProcess)
<1>1. Len(k) \in Nat /\ Len(k) >= 1 /\ 0 \in 0..(Len(k) - 1) /\ Len(k) - 1 \in 0..(Len(k) - 1)
  BY KeyParts, LenProperties, EmptySeq DEF Names
<1>2. CASE ~Paged
  BY <1>1, <1>2, KeyParts DEF PutPlace
<1>3. CASE Paged
  <2>1. PutPlace(K) = F
    BY <1>3 DEF PutPlace
  <2>2. L # {} => Min(L) \in 0..(Len(k) - 1)
    <3> SUFFICES ASSUME L # {} PROVE Min(L) \in 0..(Len(k) - 1)
      OBVIOUS
    <3>1. L \in SUBSET Nat /\ L \subseteq 0..(Len(k) - 1)
      BY <1>1 DEF PutLevels
    <3> HIDE DEF L, k
    <3> QED BY <3>1, MinOfNats
  <2>3. \/ F = Place(P, k, 0)
        \/ F = Place(P, k, Len(k) - 1)
        \/ ~SoundFullProcess /\ F = Level(P, k, Len(k) - 1)
        \/ L # {} /\ F = Place(P, k, Min(L))
    <3>1. CASE ~SoundFullProcess
      BY <2>1, <3>1 DEF iFindKeyDirToPut, SoundFullProcess
    <3>2. CASE SoundFullProcess
      BY <2>1, <3>2 DEF iFindKeyDirToPut, SoundFullProcess, dkIgnored, dkStopped
    <3> QED BY <3>1, <3>2
  <2> HIDE DEF L, k, P, F
  <2>4. \E i \in 0..(Len(k) - 1) :
           F = Place(P, k, i) \/ (~SoundFullProcess /\ F = Level(P, k, i))
    BY <1>1, <2>2, <2>3
  <2> QED BY <2>1, <2>4 DEF k, P
<1> QED BY <1>2, <1>3

(* A put goes to a well-formed directory, if anywhere.                     *)
LEMMA PutPlaceType ==
  ASSUME NEW K \in Keys, PutPlace(K) # NoDir
  PROVE  PutPlace(K) \in DirIds
<1>1. Front(K) \in Seq(Names) /\ Last(K) \in Names /\ Last(K) \in Seq(Char)
  BY KeyParts DEF Names
<1>2. \A i \in 0..(Len(Last(K)) - 1) : i \in 0..Len(Last(K))
  BY <1>1, LenProperties
<1> QED BY <1>1, <1>2, PutPlaces, PlaceType, LevelType

(* Directories stay well formed, values put values, options settings of    *)
(* the program.                                                            *)
LEMMA TypeStep ==
  ASSUME TypeOK, [Next]_vars
  PROVE  TypeOK'
<1> USE DEF TypeOK, Dirs
<1>1. ASSUME NEW K \in Keys, NEW v \in ValuesOf[K], iPut(K, v)
      PROVE  TypeOK'
  <2>1. CASE PutPlace(K) = NoDir
    BY <1>1, <2>1 DEF iPut, options
  <2>2. CASE PutPlace(K) # NoDir
    <3> DEFINE d == PutPlace(K)
    <3>1. /\ fs' = [x \in ForceDirectories(Dirs, d) |->
                      IF x = d THEN v ELSE GetDirValue(x)]
          /\ UNCHANGED options
      BY <1>1, <2>2 DEF iPut, PutAt
    <3>2. DOMAIN fs' \subseteq DirIds
      <4>1. d \in DirIds
        BY <2>2, PutPlaceType
      <4> HIDE DEF d
      <4>2. ForceDirectories(Dirs, d) \subseteq DirIds
        BY <4>1, ForceDirectoriesType
      <4> QED BY <3>1, <4>2
    <3>3. \A x \in DOMAIN fs' : fs'[x] \in Values \cup {NoFile}
      <4>1. v \in Values
        BY ValuesAssumption
      <4> QED BY <3>1, <4>1 DEF GetDirValue
    <3> QED BY <3>1, <3>2, <3>3 DEF options
  <2> QED BY <2>1, <2>2
<1>2. ASSUME NEW K \in Keys, Reads(K) PROVE TypeOK'
  BY <1>2 DEF Reads, options
<1>3. ASSUME NEW K \in Keys, iDelete(K) PROVE TypeOK'
  BY <1>3 DEF iDelete, options
<1>4. ASSUME NEW K \in Keys, iKeyDelete(K) PROVE TypeOK'
  <2>1. CASE DeletePlace(K) \in Dirs
    BY <1>4, <2>1 DEF iKeyDelete, DeleteDir, options
  <2>2. CASE DeletePlace(K) \notin Dirs
    BY <1>4, <2>2 DEF iKeyDelete, options
  <2> QED BY <2>1, <2>2
<1>5. ASSUME NEW n \in PageCounts, NEW p \in FullProcesses, SetOptions(n, p)
      PROVE  TypeOK'
  BY <1>5 DEF SetOptions
<1>6. CASE UNCHANGED vars
  BY <1>6 DEF vars, options
<1> QED BY <1>1, <1>2, <1>3, <1>4, <1>5, <1>6
        DEF Next, Put, Read, Delete, KeyDel, Options

LEMMA TypeInit == Init => TypeOK
<1> SUFFICES ASSUME Init PROVE TypeOK
  OBVIOUS
<1>1. <<>> \in Seq(Names) /\ <<>> \in Seq(Char)
  OBVIOUS
<1>2. DOMAIN fs \subseteq {Root} /\ \A d \in DOMAIN fs : fs[d] = NoFile
  BY DEF Init
<1>3. Root \in DirIds
  BY <1>1 DEF Root, DirIds
<1> QED BY <1>2, <1>3 DEF Init, TypeOK, Dirs

(* In every reachable state the store is well formed.                      *)
THEOREM TypeCorrect == Spec => []TypeOK
BY TypeInit, TypeStep, PTL DEF Spec

(* Without partitions the way to process a full one does not matter.       *)
SoundPut == Paged => SoundFullProcess

(* A put that succeeds is read back from the state it leaves.              *)
LEMMA PutThenGet ==
  ASSUME TypeOK, SoundPut,
         NEW K \in Keys, NEW v \in ValuesOf[K], iPut(K, v), PutPlace(K) # NoDir
  PROVE  iGet(K)' = v
<1> DEFINE P == Front(K)
           k == Last(K)
           T2 == ForceDirectories(Dirs, PutPlace(K))
<1> PICK d : d = PutPlace(K)
  OBVIOUS
<1>1. /\ Dirs' = T2 /\ d \in T2
      /\ fs'[d] = v
      /\ Paged' = Paged
  BY DEF iPut, PutAt, Dirs, ForceDirectories, Paged, options
<1>2. P \in Seq(Names) /\ k \in Names /\ Plain(K) = Place(P, k, 0)
  BY KeyParts
<1>3. v # NoFile
  BY ValuesAssumption
<1>4. GetDirValue(d)' = v
  BY <1>1 DEF GetDirValue
<1>5. CASE d = Plain(K)
  <2>1. GetDirValue(Plain(K))' = v
    BY <1>4, <1>5
  <2> QED BY <1>3, <2>1 DEF iGet
<1>6. CASE d # Plain(K)
  <2>1. Paged
    BY <1>6 DEF PutPlace
  <2>2. /\ IDBMaxPageCount \in Int
        /\ IDBPartitionFullProcess \in {dkIgnored, dkStopped}
    BY <2>1, OptionsAssumption DEF TypeOK, SoundPut, SoundFullProcess
  <2>3. d = iFindKeyDirToPut(Dirs, P, k, IDBMaxPageCount,
                             IDBPartitionFullProcess)
    BY <2>1 DEF PutPlace
  <2> HIDE DEF P, k
  <2>4. PICK i \in 1..(Len(k) - 1) :
          d = Place(P, k, i) /\ FirstFor(Dirs, P, k, i)
    BY <1>2, <1>6, <2>2, <2>3, FindKeyDirToPut
  <2>5. /\ Place(P, k, 0) \notin Dirs
        /\ \A j \in 1..(i - 1) : Place(P, k, j) \notin Dirs
    BY <2>4 DEF FirstFor
  <2>6. iIsKeyDirExists(T2, P, k) = d
    BY <1>2, <2>4, <2>5, LookupFindsPut
  <2>7. 0 \in 0..(i - 1)
    BY <2>4
  <2>8. Plain(K) \notin T2
    BY <1>2, <2>4, <2>7, <2>5, NoNewCopyBefore
  <2> HIDE DEF T2
  <2>9. GetDirValue(Plain(K))' = NoFile
    BY <1>1, <2>8 DEF GetDirValue
  <2>10. Partitioned(K)' = d
    BY <1>1, <2>6 DEF Partitioned, P, k
  <2> QED BY <1>1, <1>4, <2>1, <2>9, <2>10 DEF iGet
<1> QED BY <1>5, <1>6

(* The lookup walk agrees with the put walk: whatever the earlier calls     *)
(* left behind, a get right after a successful put returns its value.      *)
THEOREM ReadsOwnWrites == Spec => ReadYourWrites
<1>1. ASSUME TypeOK, [Next]_vars
      PROVE  [PutIsRead']_vars
  <2>1. ASSUME NEW K \in Keys, NEW v \in ValuesOf[K], iPut(K, v)
        PROVE  PutIsRead'
    <3>1. CASE PutPlace(K) = NoDir
      <4>1. last'.ret = IDB_ERR_PART_FULL
        BY <2>1, <3>1 DEF iPut
      <4> QED BY <4>1 DEF PutIsRead, IDB_ERR_PART_FULL, IDB_OK
    <3>2. CASE PutPlace(K) # NoDir
      <4>1. last'.key = K /\ last'.val = v /\ SoundFullProcess' = SoundFullProcess
        BY <2>1, <3>2 DEF iPut, options, SoundFullProcess
      <4>2. SoundFullProcess => iGet(K)' = v
        BY <1>1, <2>1, <3>2, PutThenGet DEF SoundPut
      <4> QED BY <4>1, <4>2 DEF PutIsRead, iGet, Partitioned
    <3> QED BY <3>1, <3>2
  <2>2. ASSUME NEW K \in Keys, Reads(K) PROVE PutIsRead'
    BY <2>2 DEF Reads, PutIsRead
  <2>3. ASSUME NEW K \in Keys, iDelete(K) PROVE PutIsRead'
    BY <2>3 DEF iDelete, PutIsRead
  <2>4. ASSUME NEW K \in Keys, iKeyDelete(K) PROVE PutIsRead'
    BY <2>4 DEF iKeyDelete, PutIsRead
  <2>5. ASSUME NEW n \in PageCounts, NEW p \in FullProcesses, SetOptions(n, p)
        PROVE  PutIsRead'
    BY <2>5 DEF SetOptions, PutIsRead
  <2> QED BY <1>1, <2>1, <2>2, <2>3, <2>4, <2>5
          DEF Next, Put, Read, Delete, KeyDel, Options
<1> QED BY <1>1, TypeCorrect, PTL DEF Spec, ReadYourWrites

----------------------------------------------------------------------------
(* What the writes do to the tree and to what its directories hold.        *)

LEMMA PutEffect ==
  ASSUME TypeOK, NEW K \in Keys, NEW v \in ValuesOf[K], iPut(K, v)
  PROVE  \/ PutPlace(K) = NoDir /\ UNCHANGED <<fs, options>>
         \/ /\ PutPlace(K) # NoDir /\ PutPlace(K) \in DirIds
            /\ Dirs' = ForceDirectories(Dirs, PutPlace(K))
            /\ \A x : GetDirValue(x)' = IF x = PutPlace(K) THEN v ELSE GetDirValue(x)
            /\ UNCHANGED options
<1>1. CASE PutPlace(K) = NoDir
  BY <1>1 DEF iPut
<1>2. CASE PutPlace(K) # NoDir
  <2> PICK d : d = PutPlace(K)
    OBVIOUS
  <2>1. /\ fs' = [x \in ForceDirectories(Dirs, d) |-> IF x = d THEN v ELSE GetDirValue(x)]
        /\ UNCHANGED options
    BY <1>2 DEF iPut, PutAt
  <2>2. Dirs' = ForceDirectories(Dirs, d) /\ Dirs \subseteq Dirs' /\ d \in Dirs'
    BY <2>1 DEF Dirs, ForceDirectories
  <2>3. ASSUME NEW x PROVE GetDirValue(x)' = IF x = d THEN v ELSE GetDirValue(x)
    <3>1. CASE x \in Dirs'
      BY <2>1, <2>2, <3>1 DEF GetDirValue
    <3>2. CASE x \notin Dirs'
      BY <2>2, <3>2 DEF GetDirValue
    <3> QED BY <3>1, <3>2
  <2> QED BY <1>2, <2>1, <2>2, <2>3, PutPlaceType
<1> QED BY <1>1, <1>2

LEMMA DeleteEffect ==
  ASSUME NEW K \in Keys, iDelete(K)
  PROVE  /\ Dirs' = Dirs
         /\ \A x : GetDirValue(x)' = IF x = DeletePlace(K) THEN NoFile ELSE GetDirValue(x)
         /\ UNCHANGED options
BY DEF iDelete, Dirs, GetDirValue

LEMMA KeyDeleteEffect ==
  ASSUME NEW K \in Keys, iKeyDelete(K)
  PROVE  /\ Dirs' = IF DeletePlace(K) \in Dirs THEN DeleteDir(Dirs, DeletePlace(K)) ELSE Dirs
         /\ Dirs' \subseteq Dirs
         /\ \A x : GetDirValue(x)' = IF x \in Dirs' THEN GetDirValue(x) ELSE NoFile
         /\ UNCHANGED options
BY DEF iKeyDelete, Dirs, DeleteDir, GetDirValue

(* A delete works on a directory of its key, if on any.                    *)
LEMMA DeletePlaces ==
  ASSUME NEW K \in Keys
  PROVE  \/ DeletePlace(K) = NoDir
         \/ \E i \in 0..Len(Last(K)) : DeletePlace(K) = Place(Front(K), Last(K), i)
<1>1. Len(Last(K)) \in Nat /\ Last(K) \in Names /\ Plain(K) = Place(Front(K), Last(K), 0)
  BY KeyParts, LenProperties DEF Names
<1>2. 0 \in 0..Len(Last(K)) /\ \A i \in 1..Len(Last(K)) : i \in 0..Len(Last(K))
  BY <1>1
<1> QED BY <1>1, <1>2, LookupResult DEF DeletePlace, Partitioned

(* What every step does, as the proofs below need it.                      *)
LEMMA StepCases ==
  ASSUME [Next]_vars
  PROVE  \/ \E K \in Keys : \E v \in ValuesOf[K] : iPut(K, v)
         \/ \E K \in Keys : iDelete(K)
         \/ \E K \in Keys : iKeyDelete(K)
         \/ fs' = fs
BY DEF Next, vars, Put, Read, Delete, KeyDel, Options, Reads, SetOptions

----------------------------------------------------------------------------
(* The shape of the tree: it is finite, a directory is made only on the    *)
(* way to a place of a key, and it is never without those above it.        *)

DirsFinite == IsFiniteSet(Dirs)

MadeFor(d, K) == \E i \in 0..(Len(Last(K)) - 1) :
                   LET place == Place(Front(K), Last(K), i)
                   IN  d \in Ancestors(place) \cup {place}

DirsMade == \A d \in Dirs : d = Root \/ \E K \in Keys : MadeFor(d, K)

TreeInv == TypeOK /\ TreeClosed /\ DirsFinite /\ DirsMade

(* A put makes nothing but a place of its key and what is above that.      *)
LEMMA PutWay ==
  ASSUME NEW K \in Keys, PutPlace(K) # NoDir
  PROVE  \E i \in 0..(Len(Last(K)) - 1) :
           LET place == Place(Front(K), Last(K), i)
           IN  /\ PutPlace(K) \in Ancestors(place) \cup {place}
               /\ Ancestors(PutPlace(K)) \subseteq Ancestors(place)
<1> DEFINE P == Front(K)
           k == Last(K)
<1>1. P \in Seq(Names) /\ k \in Names /\ k \in Seq(Char) /\ Len(k) \in Nat
  BY KeyParts, LenProperties DEF Names
<1>2. PICK i \in 0..(Len(k) - 1) : PutPlace(K) \in {Place(P, k, i), Level(P, k, i)}
  BY PutPlaces
<1>3. Place(P, k, i) \in DirIds /\ i \in 0..Len(k)
  BY <1>1, PlaceType
<1>4. Level(P, k, i) \in Ancestors(Place(P, k, i))
  <2>1. CASE i = 0
    <3>1. SubSeq(P, 1, Len(P)) = P /\ Len(P) \in 0..Len(P)
      BY <1>1, SubSeqFull, LenProperties
    <3>2. Plain(P) \in Ancestors(Place(P, k, i))
      BY <3>1 DEF Ancestors, Place
    <3> QED BY <2>1, <3>2 DEF Level
  <2>2. CASE i # 0
    <3>1. i \in 1..Len(k) /\ i \in 1..i
      BY <1>1, <2>2
    <3>2. Level(P, k, i) \in ForceDirectories({}, Place(P, k, i))
      BY <1>1, <3>1, LevelsMade
    <3>3. Level(P, k, i).name = <<>> /\ Place(P, k, i).name # <<>>
      <4>1. Level(P, k, i).name = <<>>
        BY <2>2 DEF Level
      <4>2. i # Len(k)
        BY <1>1
      <4>3. Place(P, k, i).name # <<>>
        BY <1>1, <1>3, <4>2, PlaceParts
      <4> QED BY <4>1, <4>3
    <3> QED BY <3>2, <3>3 DEF ForceDirectories
  <2> QED BY <2>1, <2>2
<1>5. PutPlace(K) \in Ancestors(Place(P, k, i)) \cup {Place(P, k, i)}
  BY <1>2, <1>4
<1>6. Ancestors(PutPlace(K)) \subseteq Ancestors(Place(P, k, i))
  BY <1>3, <1>5, AncestorsTransitive
<1> QED BY <1>5, <1>6

LEMMA PutMakes ==
  ASSUME NEW K \in Keys, PutPlace(K) # NoDir,
         NEW y \in Ancestors(PutPlace(K)) \cup {PutPlace(K)}
  PROVE  MadeFor(y, K)
BY PutWay DEF MadeFor

LEMMA TreeStep ==
  ASSUME TreeInv, [Next]_vars
  PROVE  TreeInv'
<1> USE DEF TreeInv
<1>1. TypeOK' /\ Closed(Dirs) /\ Dirs \subseteq DirIds
  BY TypeStep DEF TreeClosed, Closed, TypeOK
<1>2. ASSUME NEW K \in Keys, NEW v \in ValuesOf[K], iPut(K, v)
      PROVE  Closed(Dirs') /\ DirsFinite' /\ DirsMade'
  <2>1. CASE UNCHANGED fs
    BY <1>1, <2>1 DEF Dirs, DirsFinite, DirsMade
  <2>2. CASE /\ PutPlace(K) # NoDir /\ PutPlace(K) \in DirIds
             /\ Dirs' = ForceDirectories(Dirs, PutPlace(K))
    <3>1. Closed(Dirs')
      BY <1>1, <2>2, ForceDirectoriesClosed
    <3>2. DirsFinite'
      BY <2>2, ForceDirectoriesFinite DEF DirsFinite
    <3>3. \A y \in Dirs' \ Dirs : MadeFor(y, K)
      BY <2>2, PutMakes DEF ForceDirectories
    <3> QED BY <3>1, <3>2, <3>3 DEF DirsMade
  <2> QED BY <1>2, <2>1, <2>2, PutEffect
<1>3. ASSUME NEW K \in Keys, iKeyDelete(K)
      PROVE  Closed(Dirs') /\ DirsFinite' /\ DirsMade'
  <2>1. Dirs' \subseteq Dirs
    BY <1>3, KeyDeleteEffect
  <2>2. DirsFinite' /\ DirsMade'
    BY <2>1, FS_Subset DEF DirsFinite, DirsMade
  <2>3. CASE DeletePlace(K) \in Dirs
    <3>1. DeletePlace(K) # Root
      <4>1. PICK i \in 0..Len(Last(K)) : DeletePlace(K) = Place(Front(K), Last(K), i)
        BY <1>1, <2>3, DeletePlaces, NoDirAssumption
      <4>2. DeletePlace(K).part # <<>> \/ DeletePlace(K).name # <<>>
        <5>1. CASE i = 0
          BY <4>1, <5>1, KeyParts, PlainParts
        <5>2. CASE i # 0
          BY <4>1, <5>2, KeyParts, PlaceParts, EmptySeq
        <5> QED BY <5>1, <5>2
      <4> QED BY <4>2 DEF Root
    <3>2. Closed(DeleteDir(Dirs, DeletePlace(K)))
      BY <1>1, <2>3, <3>1, DeleteDirClosed
    <3> QED BY <1>3, <2>2, <2>3, <3>2, KeyDeleteEffect
  <2>4. CASE DeletePlace(K) \notin Dirs
    BY <1>1, <1>3, <2>2, <2>4, KeyDeleteEffect
  <2> QED BY <2>3, <2>4
<1>4. ASSUME Dirs' = Dirs
      PROVE  Closed(Dirs') /\ DirsFinite' /\ DirsMade'
  BY <1>1, <1>4 DEF DirsFinite, DirsMade
<1>5. Closed(Dirs') /\ DirsFinite' /\ DirsMade'
  <2>1. \/ \E K \in Keys : \E v \in ValuesOf[K] : iPut(K, v)
        \/ \E K \in Keys : iKeyDelete(K)
        \/ Dirs' = Dirs
    BY StepCases, DeleteEffect DEF Dirs
  <2> QED BY <1>2, <1>3, <1>4, <2>1
<1> QED BY <1>1, <1>5 DEF TreeClosed, Closed

LEMMA TreeInit == Init => TreeInv
<1> SUFFICES ASSUME Init PROVE TreeInv
  OBVIOUS
<1>1. Dirs \subseteq {Root}
  BY DEF Init, Dirs
<1>2. DirsFinite
  BY <1>1, FS_Singleton, FS_Subset DEF DirsFinite
<1>3. Ancestors(Root) \subseteq {Root}
  <2>1. Root.at = <<>> /\ Root.part = <<>> /\ Len(<<>>) = 0
    BY EmptySeq DEF Root
  <2>2. \A j \in 0..0 : Plain(SubSeq(<<>>, 1, j)) = Root
    BY SubSeqEmpty DEF Plain
  <2> QED BY <2>1, <2>2 DEF Ancestors
<1>4. TreeClosed
  <2>1. CASE Dirs = {}
    BY <2>1 DEF TreeClosed
  <2>2. CASE Dirs = {Root}
    BY <1>3, <2>2 DEF TreeClosed
  <2> QED BY <1>1, <2>1, <2>2
<1> QED BY <1>1, <1>2, <1>4, TypeInit DEF TreeInv, DirsMade

(* In every reachable state a directory's parents exist, whatever was put, *)
(* forced, deleted and set before.                                         *)
THEOREM ParentsExist == Spec => []TreeClosed
<1>1. Spec => []TreeInv
  BY TreeInit, TreeStep, PTL DEF Spec
<1> QED BY <1>1, PTL DEF TreeInv

----------------------------------------------------------------------------
(* Whose values the directories hold.  With dkFixed and dkReserved a put   *)
(* may write into a partition level, which stands for a shorter name, so   *)
(* this is about programs that set neither.                                *)

SoundSettings == FullProcesses \subseteq {dkIgnored, dkStopped}

\* A value file is in a directory of a key it was put to.
ValuesOwned ==
  \A d \in Dirs : fs[d] # NoFile => /\ Owner(d) \in Keys
                                    /\ fs[d] \in ValuesOf[Owner(d)]

LEMMA KeyOwner ==
  ASSUME NEW K \in Keys, NEW i \in 0..Len(Last(K))
  PROVE  Owner(Place(Front(K), Last(K), i)) = K
BY KeyParts, PlaceOwner, AppendFrontLast

(* A sound put goes to a place of its key.                                 *)
LEMMA SoundPutPlace ==
  ASSUME SoundPut, NEW K \in Keys, PutPlace(K) # NoDir
  PROVE  \E i \in 0..(Len(Last(K)) - 1) :
           PutPlace(K) = Place(Front(K), Last(K), i)
<1>1. CASE SoundFullProcess
  BY <1>1, PutPlaces
<1>2. CASE ~Paged
  <2>1. 0 \in 0..(Len(Last(K)) - 1)
    BY KeyParts, LenProperties, EmptySeq DEF Names
  <2> QED BY <1>2, <2>1, KeyParts DEF PutPlace
<1> QED BY <1>1, <1>2 DEF SoundPut

LEMMA SoundSettingsArePuts ==
  ASSUME SoundSettings, TypeOK
  PROVE  SoundPut
BY DEF SoundSettings, TypeOK, SoundPut, SoundFullProcess

LEMMA NoDirHoldsNothing ==
  ASSUME TypeOK
  PROVE  GetDirValue(NoDir) = NoFile
BY NoDirAssumption DEF TypeOK, GetDirValue

(* A get reads a place of its key, if any.                                 *)
LEMMA GetPlaces ==
  ASSUME TypeOK, NEW K \in Keys
  PROVE  \/ iGet(K) = NoFile
         \/ \E i \in 0..Len(Last(K)) :
              iGet(K) = GetDirValue(Place(Front(K), Last(K), i))
<1>1. /\ Len(Last(K)) \in Nat /\ Last(K) \in Names
      /\ Plain(K) = Place(Front(K), Last(K), 0)
  BY KeyParts, LenProperties DEF Names
<1>2. 0 \in 0..Len(Last(K)) /\ \A i \in 1..Len(Last(K)) : i \in 0..Len(Last(K))
  BY <1>1
<1>3. iGet(K) \in {GetDirValue(Plain(K)), GetDirValue(Partitioned(K))}
  BY DEF iGet
<1> QED BY <1>1, <1>2, <1>3, LookupResult, NoDirHoldsNothing DEF Partitioned

LEMMA ValuesOwnedStep ==
  ASSUME SoundSettings, TypeOK, ValuesOwned, [Next]_vars
  PROVE  ValuesOwned'
<1>1. ASSUME NEW K \in Keys, NEW v \in ValuesOf[K], iPut(K, v)
      PROVE  ValuesOwned'
  <2>1. CASE UNCHANGED fs
    BY <2>1 DEF ValuesOwned, Dirs
  <2>2. CASE /\ PutPlace(K) # NoDir
             /\ Dirs' = ForceDirectories(Dirs, PutPlace(K))
             /\ \A x : GetDirValue(x)' = IF x = PutPlace(K) THEN v ELSE GetDirValue(x)
    <3>1. PICK i \in 0..(Len(Last(K)) - 1) : PutPlace(K) = Place(Front(K), Last(K), i)
      BY <2>2, SoundPutPlace, SoundSettingsArePuts
    <3>2. i \in 0..Len(Last(K))
      BY KeyParts, LenProperties DEF Names
    <3>3. Owner(PutPlace(K)) = K
      BY <3>1, <3>2, KeyOwner
    <3>4. ASSUME NEW d \in Dirs', fs'[d] # NoFile
          PROVE  Owner(d) \in Keys /\ fs'[d] \in ValuesOf[Owner(d)]
      <4>1. fs'[d] = IF d = PutPlace(K) THEN v ELSE GetDirValue(d)
        BY <2>2 DEF GetDirValue
      <4>2. CASE d = PutPlace(K)
        BY <3>3, <4>1, <4>2
      <4>3. CASE d # PutPlace(K)
        BY <3>4, <4>1, <4>3 DEF GetDirValue, ValuesOwned
      <4> QED BY <4>2, <4>3
    <3> QED BY <3>4 DEF ValuesOwned
  <2> QED BY <1>1, <2>1, <2>2, PutEffect
<1>2. ASSUME NEW K \in Keys, iDelete(K)
      PROVE  ValuesOwned'
  BY <1>2 DEF iDelete, ValuesOwned, Dirs
<1>3. ASSUME NEW K \in Keys, iKeyDelete(K)
      PROVE  ValuesOwned'
  BY <1>3 DEF iKeyDelete, DeleteDir, ValuesOwned, Dirs
<1>4. ASSUME fs' = fs
      PROVE  ValuesOwned'
  BY <1>4 DEF ValuesOwned, Dirs
<1> QED BY <1>1, <1>2, <1>3, <1>4, StepCases

LEMMA OwnedValues ==
  ASSUME TypeOK, ValuesOwned
  PROVE  NoForeignValue
<1> SUFFICES ASSUME NEW K \in Keys, iGet(K) # NoFile
             PROVE  iGet(K) \in ValuesOf[K]
  BY DEF NoForeignValue
<1>1. PICK i \in 0..Len(Last(K)) : iGet(K) = GetDirValue(Place(Front(K), Last(K), i))
  BY GetPlaces
<1>2. Owner(Place(Front(K), Last(K), i)) = K
  BY KeyOwner
<1> QED BY <1>1, <1>2 DEF GetDirValue, ValuesOwned

LEMMA ValuesOwnedInit == Init => ValuesOwned
BY DEF Init, ValuesOwned, Dirs

(* No key ever shows a value that was only put to another key, in programs *)
(* that use dkIgnored and dkStopped only.                                  *)
THEOREM ValuesStayHome ==
  ASSUME SoundSettings
  PROVE  Spec => []NoForeignValue
<1>1. TypeOK /\ ValuesOwned /\ [Next]_vars => ValuesOwned'
  BY ValuesOwnedStep
<1>2. TypeOK /\ ValuesOwned => NoForeignValue
  BY OwnedValues
<1> QED BY <1>1, <1>2, ValuesOwnedInit, TypeCorrect, PTL DEF Spec

----------------------------------------------------------------------------
(* A put and the other keys.                                               *)

(* A key has no directory of another key.                                  *)
LEMMA PlacesApart ==
  ASSUME NEW J \in Keys, NEW K \in Keys, J # K,
         NEW m \in 0..Len(Last(J)), NEW i \in 0..Len(Last(K))
  PROVE  Place(Front(J), Last(J), m) # Place(Front(K), Last(K), i)
BY KeyOwner

(* What a get sees: the unpartitioned directory and the partitioned one.   *)
LEMMA GetSame ==
  ASSUME NEW J \in Keys, Paged' = Paged,
         GetDirValue(Plain(J))' = GetDirValue(Plain(J)),
         GetDirValue(Partitioned(J))' = GetDirValue(Partitioned(J))
  PROVE  iGet(J)' = iGet(J)
BY DEF iGet

LEMMA PutLeavesOthers ==
  ASSUME SoundPut, TypeOK, TreeClosed,
         NEW K \in Keys, NEW v \in ValuesOf[K], iPut(K, v), NEW J \in Keys, J # K
  PROVE  iGet(J)' = iGet(J)
<1> DEFINE P == Front(J)
           l == Last(J)
           d == PutPlace(K)
<1>1. P \in Seq(Names) /\ l \in Names /\ Len(l) \in Nat /\ Plain(J) = Place(P, l, 0)
  BY KeyParts, LenProperties DEF Names
<1>2. CASE UNCHANGED <<fs, options>>
  <2>1. \A x : GetDirValue(x)' = GetDirValue(x)
    BY <1>2 DEF GetDirValue, Dirs
  <2>2. Partitioned(J)' = Partitioned(J) /\ Plain(J)' = Plain(J) /\ Paged' = Paged
    BY <1>2 DEF Partitioned, Dirs, options, Paged
  <2> QED BY <2>1, <2>2, GetSame
<1>3. CASE /\ d # NoDir /\ d \in DirIds
           /\ Dirs' = ForceDirectories(Dirs, d)
           /\ \A x : GetDirValue(x)' = IF x = d THEN v ELSE GetDirValue(x)
           /\ UNCHANGED options
  <2>1. PICK i \in 0..Len(Last(K)) : d = Place(Front(K), Last(K), i)
    <3>1. \A i \in 0..(Len(Last(K)) - 1) : i \in 0..Len(Last(K))
      BY KeyParts, LenProperties DEF Names
    <3> QED BY <1>3, <3>1, SoundPutPlace
  <2>2. \A m \in 0..Len(l) : Place(P, l, m) # d
    BY <2>1, PlacesApart
  <2> HIDE DEF P, l, d
  <2>3. \A m \in 0..Len(l) : GetDirValue(Place(P, l, m))' = GetDirValue(Place(P, l, m))
    BY <1>3, <2>2
  <2>4. ASSUME NEW m \in 1..(Len(l) - 1), Place(P, l, m) \in Dirs'
        PROVE  Place(P, l, m) \in Dirs
    <3>1. m \in 0..Len(l) /\ m # 0 /\ m # Len(l)
      BY <1>1
    <3>2. /\ Place(P, l, m).part # <<>>
          /\ Place(P, l, m).name # <<>>
      BY <1>1, <3>1, PlaceParts, EmptySeq
    <3>3. Place(P, l, m) \notin Ancestors(d)
      BY <1>3, <3>2, MadeAbove
    <3> QED BY <1>3, <2>2, <2>4, <3>1, <3>3 DEF ForceDirectories
  <2>5. Closed(Dirs) /\ Dirs \subseteq Dirs'
    BY <1>3 DEF TreeClosed, Closed, ForceDirectories
  <2>6. \/ iIsKeyDirExists(Dirs', P, l) = iIsKeyDirExists(Dirs, P, l)
        \/ /\ iIsKeyDirExists(Dirs, P, l) = NoDir
           /\ iIsKeyDirExists(Dirs', P, l) = Level(P, l, Len(l))
           /\ Level(P, l, Len(l)) \in Dirs' \ Dirs
    BY <1>1, <2>4, <2>5, LookupInGrown
  <2>7. GetDirValue(NoDir) = NoFile
    BY NoDirHoldsNothing
  <2>8. \A x \in {NoDir} \cup {Place(P, l, m) : m \in 0..Len(l)} :
           GetDirValue(x)' = GetDirValue(x)
    BY <1>3, <2>3
  <2>9. Partitioned(J)' = iIsKeyDirExists(Dirs', P, l) /\ Partitioned(J) = iIsKeyDirExists(Dirs, P, l)
    BY DEF Partitioned, P, l
  <2>10. GetDirValue(Partitioned(J))' = GetDirValue(Partitioned(J))
    <3>1. Len(l) \in 0..Len(l) /\ \A m \in 1..Len(l) : m \in 0..Len(l)
      BY <1>1
    <3>2. CASE Partitioned(J)' = Partitioned(J)
      <4>1. Partitioned(J) \in {NoDir} \cup {Place(P, l, m) : m \in 0..Len(l)}
        BY <1>1, <2>9, <3>1, LookupResult
      <4>2. PICK x : x = Partitioned(J) /\ x = Partitioned(J)'
        BY <3>2
      <4>3. GetDirValue(x)' = GetDirValue(x)
        BY <2>8, <4>1, <4>2
      <4> QED BY <4>2, <4>3 DEF GetDirValue
    <3>3. CASE /\ Partitioned(J) = NoDir
               /\ Partitioned(J)' = Level(P, l, Len(l))
               /\ Level(P, l, Len(l)) \notin Dirs
      <4>1. Level(P, l, Len(l)) = Place(P, l, Len(l))
        BY <1>1, PlaceAtEnd
      <4>2. PICK x : x = Level(P, l, Len(l))
        OBVIOUS
      <4>3. GetDirValue(x)' = GetDirValue(x) /\ GetDirValue(x) = NoFile
        BY <2>8, <3>1, <3>3, <4>1, <4>2 DEF GetDirValue
      <4> QED BY <2>7, <3>3, <4>2, <4>3 DEF GetDirValue
    <3> QED BY <2>6, <2>9, <3>2, <3>3
  <2>11. GetDirValue(Plain(J))' = GetDirValue(Plain(J))
    <3>1. PICK x : x = Plain(J)
      OBVIOUS
    <3>2. GetDirValue(x)' = GetDirValue(x)
      BY <1>1, <2>8, <3>1, 0 \in 0..Len(l)
    <3> QED BY <3>1, <3>2 DEF GetDirValue
  <2>12. Paged' = Paged
    BY <1>3 DEF Paged, options
  <2> QED BY <2>10, <2>11, <2>12, GetSame
<1> QED BY <1>2, <1>3, PutEffect

(* A put leaves the value of every other key alone, wherever the partition *)
(* levels it makes lie, in programs that use dkIgnored and dkStopped only. *)
THEOREM PutsKeepOthers ==
  ASSUME SoundSettings
  PROVE  Spec => PutFrame
<1>1. TreeInv /\ [Next]_vars =>
        [last'.op = "iPut" => \A J \in Keys \ {last'.key} : iGet(J)' = iGet(J)]_vars
  <2> SUFFICES ASSUME TreeInv, Next, last'.op = "iPut",
                      NEW J \in Keys \ {last'.key}
               PROVE  iGet(J)' = iGet(J)
    OBVIOUS
  <2>1. CASE \E K \in Keys : \E v \in ValuesOf[K] : iPut(K, v)
    <3>1. PICK K \in Keys : \E v \in ValuesOf[K] : iPut(K, v)
      BY <2>1
    <3>2. last'.key = K
      BY <3>1 DEF iPut
    <3> QED BY <3>1, <3>2, PutLeavesOthers, SoundSettingsArePuts DEF TreeInv
  <2>2. CASE Read
    BY <2>2 DEF Read, Reads
  <2>3. CASE Delete \/ KeyDel \/ Options
    BY <2>3 DEF Delete, KeyDel, Options, iDelete, iKeyDelete, SetOptions
  <2> QED BY <2>1, <2>2, <2>3 DEF Next, Put
<1>2. Spec => []TreeInv
  BY TreeInit, TreeStep, PTL DEF Spec
<1> QED BY <1>1, <1>2, PTL DEF Spec, PutFrame

----------------------------------------------------------------------------
(* A delete and the other keys.                                            *)

LEMMA DeleteValueLeavesOthers ==
  ASSUME TypeOK, NEW K \in Keys, iDelete(K), NEW J \in Keys, J # K
  PROVE  iGet(J)' = iGet(J)
<1> DEFINE P == Front(J)
           l == Last(J)
           Seen == {NoDir} \cup {Place(P, l, m) : m \in 0..Len(l)}
<1>1. l \in Names /\ Len(l) \in Nat /\ Plain(J) = Place(P, l, 0)
  BY KeyParts, LenProperties DEF Names
<1>2. /\ Dirs' = Dirs
      /\ \A x : GetDirValue(x)' = IF x = DeletePlace(K) THEN NoFile ELSE GetDirValue(x)
      /\ Paged' = Paged
  BY DeleteEffect DEF Paged, options
<1>3. Partitioned(J) \in Seen /\ Plain(J) \in Seen
  <2>1. 0 \in 0..Len(l) /\ \A m \in 1..Len(l) : m \in 0..Len(l)
    BY <1>1
  <2> QED BY <1>1, <2>1, LookupResult DEF Partitioned
<1>4. ASSUME NEW x \in Seen PROVE GetDirValue(x)' = GetDirValue(x)
  <2>1. CASE x = NoDir
    BY <1>2, <2>1, NoDirHoldsNothing
  <2>2. CASE x # NoDir
    <3>1. x # DeletePlace(K)
      BY <2>2, DeletePlaces, PlacesApart
    <3> QED BY <1>2, <3>1
  <2> QED BY <2>1, <2>2
<1> HIDE DEF Seen
<1>5. GetDirValue(Plain(J))' = GetDirValue(Plain(J))
  <2>1. PICK x : x = Plain(J)
    OBVIOUS
  <2> QED BY <1>3, <1>4, <2>1 DEF GetDirValue
<1>6. GetDirValue(Partitioned(J))' = GetDirValue(Partitioned(J))
  <2>1. PICK x : x = Partitioned(J) /\ x = Partitioned(J)'
    BY <1>2 DEF Partitioned
  <2>2. GetDirValue(x)' = GetDirValue(x)
    BY <1>3, <1>4, <2>1
  <2> QED BY <2>1, <2>2 DEF GetDirValue
<1> QED BY <1>2, <1>5, <1>6, GetSame

(* A directory of the key is above no directory or level of a key that is  *)
(* no subkey of it and whose name does not begin with the key's.           *)
LEMMA NotBelow ==
  ASSUME NEW K \in Keys, Unambiguous(K), NEW i \in 0..Len(Last(K)),
         NEW J \in Keys, ~IsPrefix(K, J), NEW m \in 0..Len(Last(J)),
         NEW x, \/ x = Place(Front(J), Last(J), m)
                \/ x = Level(Front(J), Last(J), m) /\ m # 0
  PROVE  ~Below(Place(Front(K), Last(K), i), x)
<1> DEFINE P == Front(K)
           k == Last(K)
           Q == Front(J)
           l == Last(J)
           d == Place(P, k, i)
<1>1. /\ k \in Names /\ k \in Seq(Char) /\ Len(k) \in Nat /\ k # <<>>
      /\ l \in Names /\ l \in Seq(Char) /\ Len(l) \in Nat
      /\ P \in Seq(Names) /\ Q \in Seq(Names)
      /\ K \in Seq(Names) /\ J \in Seq(Names)
      /\ Append(P, k) = K /\ Append(Q, l) = J
  BY KeyParts, AppendFrontLast, LenProperties DEF Names
<1>2. J # K
  <2>1. IsPrefix(K, K)
    BY <1>1, PrefixReflexive
  <2> QED BY <2>1
<1>3. x.at = Q /\ x.part = SubSeq(l, 1, m)
  <2>1. CASE x = Place(Q, l, m)
    BY <2>1 DEF Place
  <2>2. CASE x = Level(Q, l, m) /\ m # 0
    BY <2>2 DEF Level
  <2> QED BY <2>1, <2>2
<1>4. x # d \/ (i = Len(k) /\ x.at = P /\ IsPrefix(k, x.part))
  <2>1. CASE x = Place(Q, l, m)
    BY <1>2, <2>1, PlacesApart
  <2>2. CASE x = Level(Q, l, m) /\ m # 0 /\ x = d
    <3>1. x.name = <<>>
      BY <2>2 DEF Level
    <3>2. i = Len(k)
      BY <1>1, <2>2, <3>1, PlaceParts
    <3>3. d.part = k /\ d.at = P
      BY <1>1, <3>2, SubSeqFull DEF Place
    <3>4. IsPrefix(k, k)
      BY <1>1, PrefixReflexive
    <3> QED BY <2>2, <3>2, <3>3, <3>4
  <2> QED BY <2>1, <2>2
<1>5. ~IsPrefix(Append(P, k), x.at)
  <2>1. IsPrefix(Q, J)
    <3>1. Len(J) \in Nat /\ Len(J) >= 1 /\ Len(J) - 1 \in 0..Len(J) /\ 0 \in 0..(Len(J) - 1)
      BY <1>1, KeyParts, LenProperties, EmptySeq
    <3> QED BY <1>1, <3>1, Leading DEF Front
  <2> QED BY <1>1, <1>3, <2>1, PrefixTransitive
<1>6. ~(x.at = P /\ IsPrefix(k, x.part))
  <2> SUFFICES ASSUME Q = P, IsPrefix(k, SubSeq(l, 1, m))
               PROVE  FALSE
    BY <1>3
  <2>1. SubSeq(l, 1, m) \in Seq(Char) /\ IsPrefix(SubSeq(l, 1, m), l)
    <3>1. 0 \in 0..m
      BY <1>1
    <3> QED BY <1>1, <3>1, Leading
  <2>2. IsPrefix(k, l)
    BY <1>1, <2>1, PrefixTransitive
  <2>3. k # l
    BY <1>1, <1>2
  <2>4. Len(J) = Len(P) + 1 /\ Len(K) = Len(P) + 1 /\ J[Len(K)] = l
    BY <1>1, AppendProperties
  <2>5. Len(J) >= Len(K) /\ SubSeq(J, 1, Len(K) - 1) = P
    BY <1>1, <2>4, LenProperties DEF Front
  <2> QED BY <2>2, <2>3, <2>4, <2>5 DEF Unambiguous, IsStrictPrefix
<1>7. d.at = P /\ (d.part = <<>> <=> i = 0) /\ (d.name = <<>> <=> i = Len(k))
  BY <1>1, PlaceParts, EmptySeq
<1>8. (i = 0 => d.name = k) /\ (i = Len(k) => d.part = k)
  BY <1>1, SubSeqFull DEF Place
<1> HIDE DEF P, k, d
<1>9. ~Below(d, x)
  BY <1>4, <1>5, <1>6, <1>7, <1>8 DEF Below
<1> QED BY <1>9 DEF d, P, k

LEMMA KeyDeleteLeavesOthers ==
  ASSUME TypeOK, NEW K \in Keys, iKeyDelete(K), Unambiguous(K),
         NEW J \in Keys, ~IsPrefix(K, J)
  PROVE  iGet(J)' = iGet(J)
<1> DEFINE P == Front(J)
           l == Last(J)
           d == DeletePlace(K)
           Seen == {NoDir} \cup {Place(P, l, m) : m \in 0..Len(l)}
<1>1. l \in Names /\ Len(l) \in Nat /\ Plain(J) = Place(P, l, 0)
  BY KeyParts, LenProperties DEF Names
<1>2. /\ Dirs' = IF d \in Dirs THEN DeleteDir(Dirs, d) ELSE Dirs
      /\ Dirs' \subseteq Dirs
      /\ \A x : GetDirValue(x)' = IF x \in Dirs' THEN GetDirValue(x) ELSE NoFile
      /\ Paged' = Paged
  BY KeyDeleteEffect DEF Paged, options
<1>3. ASSUME NEW x, NEW m \in 0..Len(l),
             \/ x = Place(P, l, m)
             \/ x = Level(P, l, m) /\ m # 0
      PROVE  x \in Dirs' <=> x \in Dirs
  <2>1. CASE d \in Dirs
    <3>1. d # NoDir
      BY <2>1, NoDirAssumption DEF TypeOK
    <3>2. PICK i \in 0..Len(Last(K)) : d = Place(Front(K), Last(K), i)
      BY <3>1, DeletePlaces
    <3>3. ~Below(d, x)
      BY <1>3, <3>2, NotBelow
    <3> QED BY <1>2, <2>1, <3>3 DEF DeleteDir
  <2>2. CASE d \notin Dirs
    BY <1>2, <2>2
  <2> QED BY <2>1, <2>2
<1>4. ASSUME NEW x \in Seen PROVE GetDirValue(x)' = GetDirValue(x)
  <2>1. CASE x = NoDir
    BY <1>2, <2>1, NoDirHoldsNothing
  <2>2. ASSUME NEW m \in 0..Len(l), x = Place(P, l, m)
        PROVE  GetDirValue(x)' = GetDirValue(x)
    <3>1. x \in Dirs' <=> x \in Dirs
      BY <1>3, <2>2
    <3>2. x \notin Dirs => GetDirValue(x) = NoFile
      BY DEF GetDirValue
    <3> QED BY <1>2, <3>1, <3>2
  <2> QED BY <2>1, <2>2
<1>5. Partitioned(J)' = Partitioned(J)
  <2>1. \A m \in 1..Len(l) : m \in 0..Len(l) /\ m # 0
    BY <1>1
  <2>2. \A m \in 1..Len(l) : /\ Level(P, l, m) \in Dirs' <=> Level(P, l, m) \in Dirs
                             /\ Place(P, l, m) \in Dirs' <=> Place(P, l, m) \in Dirs
    BY <1>3, <2>1
  <2> HIDE DEF P, l
  <2>3. iIsKeyDirExists(Dirs', P, l) = iIsKeyDirExists(Dirs, P, l)
    BY <1>1, <2>2, LookupSame
  <2> QED BY <2>3 DEF Partitioned, P, l
<1>6. Partitioned(J) \in Seen /\ Plain(J) \in Seen
  <2>1. 0 \in 0..Len(l) /\ \A m \in 1..Len(l) : m \in 0..Len(l)
    BY <1>1
  <2> QED BY <1>1, <2>1, LookupResult DEF Partitioned
<1> HIDE DEF Seen
<1>7. GetDirValue(Plain(J))' = GetDirValue(Plain(J))
  <2>1. PICK x : x = Plain(J)
    OBVIOUS
  <2> QED BY <1>4, <1>6, <2>1 DEF GetDirValue
<1>8. GetDirValue(Partitioned(J))' = GetDirValue(Partitioned(J))
  <2>1. PICK x : x = Partitioned(J) /\ x = Partitioned(J)'
    BY <1>5
  <2>2. GetDirValue(x)' = GetDirValue(x)
    BY <1>4, <1>6, <2>1
  <2> QED BY <2>1, <2>2 DEF GetDirValue
<1> QED BY <1>2, <1>7, <1>8, GetSame

(* A delete of a key whose name cannot be taken for a partition level      *)
(* leaves every other key but its subkeys alone, whatever the settings.    *)
THEOREM DeletesKeepOthers == Spec => DeleteFrame
<1>1. TypeOK /\ [Next]_vars =>
        [(last'.op \in {"iDelete", "iKeyDelete"} /\ Unambiguous(last'.key))
           => DeletesBelow(last'.key)]_vars
  <2> SUFFICES ASSUME TypeOK, Next, last'.op \in {"iDelete", "iKeyDelete"},
                      Unambiguous(last'.key),
                      NEW J \in Keys, ~IsPrefix(last'.key, J)
               PROVE  iGet(J)' = iGet(J)
    BY DEF DeletesBelow
  <2>1. ASSUME NEW K \in Keys, iDelete(K) PROVE iGet(J)' = iGet(J)
    <3>1. last'.key = K
      BY <2>1 DEF iDelete
    <3>2. IsPrefix(K, K)
      BY KeyParts, PrefixReflexive
    <3> QED BY <2>1, <3>1, <3>2, DeleteValueLeavesOthers
  <2>2. ASSUME NEW K \in Keys, iKeyDelete(K) PROVE iGet(J)' = iGet(J)
    <3>1. last'.key = K
      BY <2>2 DEF iKeyDelete
    <3> QED BY <2>2, <3>1, KeyDeleteLeavesOthers
  <2>3. CASE Put
    BY <2>3 DEF Put, iPut
  <2>4. CASE Read
    BY <2>4 DEF Read, Reads
  <2>5. CASE Options
    BY <2>5 DEF Options, SetOptions
  <2> QED BY <2>1, <2>2, <2>3, <2>4, <2>5 DEF Next, Delete, KeyDel
<1> QED BY <1>1, TypeCorrect, PTL DEF Spec, DeleteFrame

----------------------------------------------------------------------------
(* What a put may make.                                                    *)

(* A named directory that a put makes above its own is that of a key its   *)
(* key is below.                                                           *)
LEMMA MadeForSubkey ==
  ASSUME NEW K \in Keys, PutPlace(K) # NoDir, NEW y \in Ancestors(PutPlace(K)),
         y.name # <<>>
  PROVE  y.part = <<>> /\ y.at # Front(K) /\ IsStrictPrefix(Append(y.at, y.name), K)
<1> DEFINE P == Front(K)
           k == Last(K)
<1>1. /\ P \in Seq(Names) /\ k \in Names /\ K \in Seq(Names)
      /\ Len(k) \in Nat /\ Len(K) \in Nat /\ Len(K) >= 1 /\ Len(P) = Len(K) - 1
  BY KeyParts, FrontLast, LenProperties, EmptySeq DEF Names
<1>2. PICK i \in 0..(Len(k) - 1) : y \in Ancestors(Place(P, k, i))
  BY PutWay
<1>3. Place(P, k, i) \in DirIds /\ Place(P, k, i).at = P
  BY <1>1, PlaceType, i \in 0..Len(k) DEF Place
<1>4. /\ y.part = <<>> /\ y.at # P
      /\ \E j \in 1..Len(P) : Append(y.at, y.name) = SubSeq(P, 1, j)
  BY <1>2, <1>3, MadeAbove
<1>5. PICK j \in 1..Len(P) : Append(y.at, y.name) = SubSeq(P, 1, j)
  BY <1>4
<1>6. /\ j \in 0..Len(K) /\ 0 \in 0..j /\ Len(P) \in 0..Len(K)
      /\ j \in 0..Len(P) /\ j # Len(K)
  BY <1>1
<1>7. SubSeq(P, 1, j) = SubSeq(K, 1, j)
  <2>1. P = SubSeq(K, 1, Len(P))
    BY <1>1 DEF Front
  <2> QED BY <1>1, <1>6, <2>1, Leading
<1>8. IsPrefix(SubSeq(K, 1, j), K) /\ Len(SubSeq(K, 1, j)) = j
  BY <1>1, <1>6, Leading
<1> QED BY <1>4, <1>5, <1>6, <1>7, <1>8 DEF IsStrictPrefix

(* The page a put makes a directory in gains that directory only.          *)
LEMMA PutPage ==
  ASSUME NEW K \in Keys, PutPlace(K) # NoDir, PutPlace(K).at = Front(K), NEW p
  PROVE  Page(ForceDirectories(Dirs, PutPlace(K)), Front(K), p)
           \subseteq Page(Dirs, Front(K), p) \cup {PutPlace(K)}
BY MadeForSubkey DEF Page, ForceDirectories

LEMMA PutWithinBound ==
  ASSUME TreeInv, Paged, NEW K \in Keys, PutPlace(K) # NoDir,
         PutPlace(K) \notin Dirs, PutPlace(K).name # <<>>
  PROVE  LET d == PutPlace(K)
         IN  \/ Cardinality(Page(ForceDirectories(Dirs, d), d.at, d.part)) <= IDBMaxPageCount
             \/ IDBPartitionFullProcess = dkIgnored /\ Len(d.name) = 1
<1> DEFINE P == Front(K)
           k == Last(K)
           max == IDBMaxPageCount
<1>1. /\ P \in Seq(Names) /\ k \in Names /\ k \in Seq(Char) /\ Len(k) \in Nat
      /\ max \in Int /\ max > 0
  BY KeyParts, LenProperties, OptionsAssumption DEF Names, TreeInv, TypeOK, Paged
<1>2. PICK i \in 0..(Len(k) - 1) :
        /\ PutPlace(K) = Place(P, k, i)
        /\ \/ Level(P, k, i) \notin Dirs
           \/ iSubkeyCount(Dirs, P, SubSeq(k, 1, i)) < max
           \/ IDBPartitionFullProcess = dkIgnored /\ i = Len(k) - 1
  <2>1. PutPlace(K) = iFindKeyDirToPut(Dirs, P, k, max, IDBPartitionFullProcess)
    BY DEF PutPlace
  <2> HIDE DEF P, k, max
  <2> QED BY <1>1, <2>1, PutHasRoom
<1>3. /\ i \in 0..Len(k) /\ PutPlace(K).at = P /\ PutPlace(K).part = SubSeq(k, 1, i)
      /\ Len(PutPlace(K).name) = Len(k) - i
  BY <1>1, <1>2, PlaceParts
<1> DEFINE old == Page(Dirs, P, SubSeq(k, 1, i))
           new == Page(ForceDirectories(Dirs, PutPlace(K)), P, SubSeq(k, 1, i))
<1>4. CASE IDBPartitionFullProcess = dkIgnored /\ i = Len(k) - 1
  BY <1>1, <1>3, <1>4
<1>5. CASE Level(P, k, i) \notin Dirs \/ iSubkeyCount(Dirs, P, SubSeq(k, 1, i)) < max
  <2>1. new \subseteq old \cup {PutPlace(K)} /\ PutPlace(K) \notin old
    BY <1>3, PutPage DEF Page
  <2>2. IsFiniteSet(old) /\ IsFiniteSet(old \cup {PutPlace(K)})
    <3>1. IsFiniteSet(Dirs) /\ old \subseteq Dirs
      BY DEF TreeInv, DirsFinite, Page
    <3> QED BY <3>1, FS_Subset, FS_AddElement
  <2> HIDE DEF old, new, max
  <2>3. /\ Cardinality(old) \in Nat /\ Cardinality(new) \in Nat
        /\ Cardinality(new) <= Cardinality(old) + 1
    <3>1. Cardinality(old \cup {PutPlace(K)}) = Cardinality(old) + 1
      BY <2>1, <2>2, FS_AddElement
    <3> QED BY <2>1, <2>2, <3>1, FS_Subset, FS_CardinalityType
  <2>4. Cardinality(old) < max
    <3>1. CASE Level(P, k, i) \notin Dirs
      <4>1. Dirs \subseteq DirIds /\ Closed(Dirs)
        BY DEF TreeInv, TypeOK, TreeClosed, Closed
      <4>2. old = {}
        BY <1>1, <1>3, <3>1, <4>1, PageNeedsLevel DEF old
      <4> QED BY <1>1, <4>2, FS_EmptySet
    <3>2. CASE iSubkeyCount(Dirs, P, SubSeq(k, 1, i)) < max
      BY <3>2 DEF iSubkeyCount, old
    <3> QED BY <1>5, <3>1, <3>2
  <2>5. Cardinality(new) <= max
    BY <1>1, <2>3, <2>4
  <2> QED BY <1>3, <2>5 DEF new, max
<1> QED BY <1>2, <1>4, <1>5

(* No page grows past the limit, but for the two exceptions PageBound      *)
(* names; the settings may change at any time and be any.                  *)
THEOREM PagesBounded == Spec => PageBound
<1> DEFINE Bound ==
      LET key == last'.key IN
      last'.op = "iPut" /\ Paged =>
        \A d \in {e \in Dirs' \ Dirs : e.name # <<>>} :
          \/ Cardinality(Page(Dirs', d.at, d.part)) <= IDBMaxPageCount
          \/ IDBPartitionFullProcess = dkIgnored /\ d = PutPlace(key) /\ Len(d.name) = 1
          \/ d.part = <<>> /\ IsStrictPrefix(Append(d.at, d.name), key)
<1>1. ASSUME TreeInv, [Next]_vars
      PROVE  [Bound]_vars
  <2>1. ASSUME NEW K \in Keys, NEW v \in ValuesOf[K], iPut(K, v), Paged,
               NEW d \in Dirs' \ Dirs, d.name # <<>>
        PROVE  \/ Cardinality(Page(Dirs', d.at, d.part)) <= IDBMaxPageCount
               \/ IDBPartitionFullProcess = dkIgnored /\ d = PutPlace(K) /\ Len(d.name) = 1
               \/ d.part = <<>> /\ IsStrictPrefix(Append(d.at, d.name), K)
    <3>1. PutPlace(K) # NoDir /\ Dirs' = ForceDirectories(Dirs, PutPlace(K))
      <4>1. Dirs' # Dirs
        BY <2>1
      <4> QED BY <1>1, <2>1, <4>1, PutEffect DEF TreeInv, Dirs
    <3>2. CASE d = PutPlace(K)
      BY <1>1, <2>1, <3>1, <3>2, PutWithinBound
    <3>3. CASE d # PutPlace(K)
      BY <2>1, <3>1, <3>3, MadeForSubkey DEF ForceDirectories
    <3> QED BY <3>2, <3>3
  <2>2. ASSUME NEW K \in Keys, NEW v \in ValuesOf[K], iPut(K, v)
        PROVE  Bound
    <3>1. last'.key = K
      BY <2>2 DEF iPut
    <3> QED BY <2>1, <2>2, <3>1
  <2>3. CASE fs' = fs
    BY <2>3 DEF Dirs
  <2>4. CASE Delete \/ KeyDel
    BY <2>4 DEF Delete, KeyDel, iDelete, iKeyDelete
  <2>5. CASE Read \/ Options
    BY <2>3, <2>5 DEF Read, Reads, Options, SetOptions
  <2> QED BY <1>1, <2>2, <2>4, <2>5 DEF Next, Put
<1>2. Spec => []TreeInv
  BY TreeInit, TreeStep, PTL DEF Spec
<1> QED BY <1>1, <1>2, PTL DEF Spec, PageBound
=============================================================================
