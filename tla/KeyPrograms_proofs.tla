------------------------- MODULE KeyPrograms_proofs -------------------------
(***************************************************************************)
(* Theorems about the programs for which KeyStore is what it looks like:   *)
(* one directory per key, and the promise of KVStore.                      *)
(***************************************************************************)
EXTENDS KeyStore_proofs

(* While no directory is removed, a level that was full stays full.  So a  *)
(* directory inside a partition level proves the levels before it full:    *)
(* this is what keeps a put from making a second directory before the one  *)
(* its key has.                                                            *)
FullBefore(T, d) ==
  \A j \in 0..(Len(d.part) - 1) :
    Paged /\ ~(iSubkeyCount(T, d.at, SubSeq(d.part, 1, j)) < IDBMaxPageCount)

LevelsFull == \A d \in Dirs : FullBefore(Dirs, d)

SteadyInv == TreeInv /\ LevelsFull /\ NoDuplicateKey

(* A put that makes the directory of its key passes full levels only, none *)
(* of which holds the key.                                                 *)
LEMMA PutPasses ==
  ASSUME TypeOK, NEW K \in Keys, PutPlace(K) # NoDir, PutPlace(K) \notin Dirs
  PROVE  \E i \in 0..(Len(Last(K)) - 1) :
           /\ PutPlace(K) = Place(Front(K), Last(K), i)
           /\ \A j \in 0..(i - 1) :
                /\ Place(Front(K), Last(K), j) \notin Dirs
                /\ Paged
                /\ ~(iSubkeyCount(Dirs, Front(K), SubSeq(Last(K), 1, j)) < IDBMaxPageCount)
           /\ Paged => \/ Level(Front(K), Last(K), i) \notin Dirs
                       \/ iSubkeyCount(Dirs, Front(K), SubSeq(Last(K), 1, i)) < IDBMaxPageCount
                       \/ i = Len(Last(K)) - 1
<1> DEFINE P == Front(K)
           k == Last(K)
           max == IDBMaxPageCount
<1>1. k \in Names /\ Plain(K) = Place(P, k, 0) /\ 0 \in 0..(Len(k) - 1)
  BY KeyParts, LenProperties, EmptySeq DEF Names
<1>2. CASE Paged
  <2>1. PutPlace(K) = iFindKeyDirToPut(Dirs, P, k, max, IDBPartitionFullProcess)
    BY <1>2 DEF PutPlace
  <2> HIDE DEF P, k, max
  <2>2. PICK i \in 0..(Len(k) - 1) :
          /\ PutPlace(K) = Place(P, k, i)
          /\ FullTo(Dirs, P, k, i, max)
          /\ \/ Level(P, k, i) \notin Dirs
             \/ iSubkeyCount(Dirs, P, SubSeq(k, 1, i)) < max
             \/ IDBPartitionFullProcess = dkIgnored /\ i = Len(k) - 1
    BY <1>1, <2>1, PutHasRoom
  <2> QED BY <1>2, <2>2 DEF P, k, max, FullTo
<1>3. CASE ~Paged
  <2>1. PutPlace(K) = Place(Front(K), Last(K), 0)
    BY <1>1, <1>3 DEF PutPlace
  <2>2. \A j \in 0..(0 - 1) : FALSE
    OBVIOUS
  <2> QED BY <1>1, <1>3, <2>1, <2>2
<1> QED BY <1>2, <1>3

(* Pages grow with the tree.                                               *)
LEMMA FullStays ==
  ASSUME NEW T, NEW U, T \subseteq U, IsFiniteSet(U), NEW d,
         IDBMaxPageCount \in Int, FullBefore(T, d)
  PROVE  FullBefore(U, d)
<1> SUFFICES ASSUME NEW j \in 0..(Len(d.part) - 1)
             PROVE  ~(iSubkeyCount(U, d.at, SubSeq(d.part, 1, j)) < IDBMaxPageCount)
  BY DEF FullBefore
<1> DEFINE p == SubSeq(d.part, 1, j)
           A == Page(T, d.at, p)
           B == Page(U, d.at, p)
<1>1. A \subseteq B /\ B \subseteq U
  BY DEF Page
<1> HIDE DEF A, B
<1>2. Cardinality(A) \in Nat /\ Cardinality(B) \in Nat /\ Cardinality(A) <= Cardinality(B)
  BY <1>1, FS_Subset, FS_CardinalityType
<1>3. ~(Cardinality(A) < IDBMaxPageCount)
  BY DEF A, FullBefore, iSubkeyCount
<1>4. ~(Cardinality(B) < IDBMaxPageCount)
  BY <1>2, <1>3
<1> QED BY <1>4 DEF B, iSubkeyCount

(* What a put makes lies behind full levels.                               *)
LEMMA PutMakesFull ==
  ASSUME TypeOK, NEW K \in Keys, PutPlace(K) # NoDir, PutPlace(K) \notin Dirs,
         NEW y \in Ancestors(PutPlace(K)) \cup {PutPlace(K)}
  PROVE  FullBefore(Dirs, y)
<1> DEFINE P == Front(K)
           k == Last(K)
<1>1. P \in Seq(Names) /\ k \in Names /\ k \in Seq(Char) /\ Len(k) \in Nat
  BY KeyParts, LenProperties DEF Names
<1>2. PICK i \in 0..(Len(k) - 1) :
           /\ PutPlace(K) = Place(P, k, i)
           /\ \A j \in 0..(i - 1) :
                Paged /\ ~(iSubkeyCount(Dirs, P, SubSeq(k, 1, j)) < IDBMaxPageCount)
  BY PutPasses
<1> DEFINE d == Place(P, k, i)
<1>3. i \in 0..Len(k)
  BY <1>1
<1>4. d \in DirIds /\ d.at = P /\ d.part = SubSeq(k, 1, i) /\ Len(d.part) = i /\ d.part \in Seq(Char)
  BY <1>1, <1>3, PlaceType, PlaceParts
<1> HIDE DEF P, k, d
<1>5. ASSUME NEW n \in 0..i, y.at = P, y.part = SubSeq(k, 1, n), Len(y.part) = n
      PROVE  FullBefore(Dirs, y)
  <2>1. ASSUME NEW j \in 0..(n - 1)
        PROVE  SubSeq(y.part, 1, j) = SubSeq(k, 1, j) /\ j \in 0..(i - 1)
    <3>1. n \in 0..Len(k) /\ j \in 0..n /\ j \in 0..(i - 1)
      BY <1>1, <1>3
    <3> QED BY <1>1, <1>5, <3>1, Leading
  <2> QED BY <1>2, <1>5, <2>1 DEF FullBefore
<1>6. CASE y = d
  <2>1. i \in 0..i
    BY <1>3
  <2> QED BY <1>4, <1>5, <1>6, <2>1
<1>7. ASSUME y.part = <<>> PROVE FullBefore(Dirs, y)
  <2>1. \A j \in 0..(0 - 1) : FALSE
    OBVIOUS
  <2> QED BY <1>7, <2>1, EmptySeq DEF FullBefore
<1>8. ASSUME NEW n \in 1..Len(d.part),
             y = [at |-> d.at, part |-> SubSeq(d.part, 1, n), name |-> <<>>]
      PROVE  FullBefore(Dirs, y)
  <2>1. n \in 0..i /\ i \in 0..Len(k) /\ n \in 0..Len(k) /\ 0 \in 0..n
    BY <1>1, <1>3, <1>4
  <2>2. SubSeq(d.part, 1, n) = SubSeq(k, 1, n) /\ Len(SubSeq(k, 1, n)) = n
    BY <1>1, <1>4, <2>1, Leading
  <2>3. y.at = d.at /\ y.part = SubSeq(d.part, 1, n)
    BY <1>8
  <2> QED BY <1>4, <1>5, <2>1, <2>2, <2>3
<1>9. CASE y \in Ancestors(d)
  <2>1. \/ y.part = <<>>
        \/ \E n \in 1..Len(d.part) :
             y = [at |-> d.at, part |-> SubSeq(d.part, 1, n), name |-> <<>>]
    BY <1>4, <1>9, AncestorCases DEF Root
  <2> QED BY <1>7, <1>8, <2>1
<1> QED BY <1>2, <1>6, <1>9 DEF d

(* A new directory of a key without subkeys is the place of a put to it.   *)
LEMMA NewPlaceIsPut ==
  ASSUME NEW K \in Keys, PutPlace(K) # NoDir,
         NEW J \in Keys, Leaf(J), NEW i \in 0..(Len(Last(J)) - 1),
         Place(Front(J), Last(J), i) \in ForceDirectories(Dirs, PutPlace(K)) \ Dirs
  PROVE  Place(Front(J), Last(J), i) = PutPlace(K)
<1> DEFINE x == Place(Front(J), Last(J), i)
<1>1. /\ Front(J) \in Seq(Names) /\ Last(J) \in Names /\ Last(J) \in Seq(Char)
      /\ Len(Last(J)) \in Nat /\ i \in 0..Len(Last(J)) /\ i # Len(Last(J))
      /\ J \in Seq(Names) /\ J # <<>>
  BY KeyParts, LenProperties DEF Names
<1>2. x.name # <<>> /\ x.at = Front(J) /\ Len(x.part) = i
  BY <1>1, PlaceParts
<1>3. CASE x \in Ancestors(PutPlace(K))
  <2>1. x.part = <<>> /\ IsStrictPrefix(Append(x.at, x.name), K)
    BY <1>2, <1>3, MadeForSubkey
  <2>2. i = 0
    BY <1>2, <2>1, EmptySeq
  <2>3. x.name = Last(J)
    BY <1>1, <2>2, SubSeqFull DEF Place
  <2>4. Append(x.at, x.name) = J
    BY <1>1, <1>2, <2>3, AppendFrontLast
  <2> QED BY <2>1, <2>4 DEF Leaf
<1> QED BY <1>3 DEF ForceDirectories

(* A put never makes a second directory for its key.                       *)
LEMMA PutMakesOne ==
  ASSUME SteadyInv, NEW K \in Keys, PutPlace(K) # NoDir, PutPlace(K) \notin Dirs,
         NEW j \in 0..(Len(Last(K)) - 1)
  PROVE  Place(Front(K), Last(K), j) \notin Dirs
<1> DEFINE P == Front(K)
           k == Last(K)
<1>1. P \in Seq(Names) /\ k \in Names /\ k \in Seq(Char) /\ Len(k) \in Nat /\ j \in 0..Len(k)
  BY KeyParts, LenProperties DEF Names
<1> SUFFICES ASSUME Place(P, k, j) \in Dirs PROVE FALSE
  OBVIOUS
<1>2. PICK i \in 0..(Len(k) - 1) :
           /\ PutPlace(K) = Place(P, k, i)
           /\ \A n \in 0..(i - 1) : Place(P, k, n) \notin Dirs
           /\ Paged => \/ Level(P, k, i) \notin Dirs
                       \/ iSubkeyCount(Dirs, P, SubSeq(k, 1, i)) < IDBMaxPageCount
                       \/ i = Len(k) - 1
  BY PutPasses DEF SteadyInv, TreeInv
<1>3. Place(P, k, j).at = P /\ Place(P, k, j).part = SubSeq(k, 1, j) /\ Len(Place(P, k, j).part) = j
  BY <1>1, PlaceParts
<1>4. Place(P, k, i) \notin Dirs
  BY <1>2
<1> HIDE DEF P, k
<1>5. i < j /\ i \in 0..(j - 1) /\ i \in 0..j /\ i \in 0..Len(k) /\ i # Len(k) - 1
  <2>1. j # i /\ ~(j \in 0..(i - 1))
    BY <1>2, <1>4
  <2> QED BY <1>1, <2>1 DEF k
<1>6. SubSeq(SubSeq(k, 1, j), 1, i) = SubSeq(k, 1, i)
  BY <1>1, <1>5, Leading
<1>7. FullBefore(Dirs, Place(P, k, j))
  BY DEF SteadyInv, LevelsFull
<1>8. Paged /\ ~(iSubkeyCount(Dirs, P, SubSeq(k, 1, i)) < IDBMaxPageCount)
  BY <1>3, <1>5, <1>6, <1>7 DEF FullBefore
<1>9. Level(P, k, i) \in Dirs
  <2>1. Closed(Dirs)
    BY DEF SteadyInv, TreeInv, TreeClosed, Closed
  <2>2. CASE i = 0
    <3>1. SubSeq(P, 1, Len(P)) = P /\ Len(P) \in 0..Len(P)
      BY <1>1, SubSeqFull, LenProperties
    <3>2. Plain(P) \in Ancestors(Place(P, k, j))
      BY <1>3, <3>1 DEF Ancestors
    <3> QED BY <2>1, <2>2, <3>1, <3>2 DEF Closed, Level
  <2>3. CASE i # 0
    <3>1. j \in 1..Len(k) /\ i \in 1..j
      BY <1>1, <1>5, <2>3
    <3> QED BY <1>1, <2>1, <3>1, LevelsAbove
  <2> QED BY <2>2, <2>3
<1> QED BY <1>2, <1>5, <1>8, <1>9

LEMMA NameBounds ==
  ASSUME NEW K \in Keys
  PROVE  /\ Len(Last(K)) \in Nat
         /\ \A i \in 0..(Len(Last(K)) - 1) : i \in 0..Len(Last(K)) /\ i # Len(Last(K))
<1>1. Len(Last(K)) \in Nat
  BY KeyParts, LenProperties DEF Names
<1> QED BY <1>1

LEMMA SamePlace ==
  ASSUME NEW K \in Keys, NEW i \in 0..(Len(Last(K)) - 1), NEW j \in 0..(Len(Last(K)) - 1),
         Place(Front(K), Last(K), i) = Place(Front(K), Last(K), j)
  PROVE  i = j
BY KeyParts, NameBounds, PlaceInjective

LEMMA SteadyStep ==
  ASSUME SteadyInv, [SteadyNext]_vars
  PROVE  SteadyInv'
<1> USE DEF SteadyInv
<1>1. [Next]_vars /\ TypeOK /\ TreeInv'
  <2>1. [Next]_vars
    BY DEF SteadyNext, Next
  <2> QED BY <2>1, TreeStep DEF TreeInv
<1>2. IDBMaxPageCount' = IDBMaxPageCount /\ IDBMaxPageCount \in Int /\ Paged' = Paged
  <2>1. IDBMaxPageCount' = IDBMaxPageCount
    BY DEF SteadyNext, Put, iPut, Read, Reads, Delete, iDelete, KeyDel, iKeyDelete,
           options, vars
  <2> QED BY <1>1, <2>1, OptionsAssumption DEF TypeOK, Paged
<1>3. ASSUME NEW K \in Keys, NEW v \in ValuesOf[K], iPut(K, v)
      PROVE  LevelsFull' /\ NoDuplicateKey'
  <2>1. CASE Dirs' = Dirs
    BY <1>2, <2>1 DEF LevelsFull, FullBefore, NoDuplicateKey
  <2>2. CASE /\ PutPlace(K) # NoDir /\ PutPlace(K) \notin Dirs
             /\ Dirs' = ForceDirectories(Dirs, PutPlace(K))
    <3>1. ASSUME NEW d \in Dirs' PROVE FullBefore(Dirs, d)
      BY <1>1, <2>2, PutMakesFull DEF LevelsFull, ForceDirectories
    <3>2. ASSUME NEW d \in Dirs' PROVE FullBefore(Dirs', d)
      BY <1>1, <1>2, <2>2, <3>1, FullStays DEF TreeInv, DirsFinite, ForceDirectories
    <3>3. LevelsFull'
      BY <1>2, <3>2 DEF LevelsFull, FullBefore
    <3>4. ASSUME NEW J \in Keys, Leaf(J),
                 NEW i \in 0..(Len(Last(J)) - 1), NEW j \in 0..(Len(Last(J)) - 1),
                 Place(Front(J), Last(J), i) \in Dirs',
                 Place(Front(J), Last(J), j) \in Dirs'
          PROVE  i = j
      <4>1. \A n \in 0..(Len(Last(J)) - 1) :
               Place(Front(J), Last(J), n) \in Dirs' \ Dirs
                 => Place(Front(J), Last(J), n) = PutPlace(K)
        BY <2>2, <3>4, NewPlaceIsPut
      <4>2. CASE J = K
        <5>1. \A n \in 0..(Len(Last(J)) - 1) : Place(Front(J), Last(J), n) \notin Dirs
          BY <2>2, <4>2, PutMakesOne
        <5>2. Place(Front(J), Last(J), i) = Place(Front(J), Last(J), j)
          BY <3>4, <4>1, <5>1
        <5> QED BY <5>2, SamePlace
      <4>3. CASE J # K
        <5>1. \A n \in 0..(Len(Last(J)) - 1) : Place(Front(J), Last(J), n) # PutPlace(K)
          <6>1. PICK m \in 0..(Len(Last(K)) - 1) : PutPlace(K) = Place(Front(K), Last(K), m)
            BY <1>1, <2>2, PutPasses
          <6> QED BY <4>3, <6>1, PlacesApart, NameBounds
        <5> QED BY <3>4, <4>1, <5>1 DEF NoDuplicateKey
      <4> QED BY <4>2, <4>3
    <3>5. NoDuplicateKey'
      BY <3>4 DEF NoDuplicateKey
    <3> QED BY <3>3, <3>5
  <2>3. CASE /\ PutPlace(K) # NoDir /\ PutPlace(K) \in Dirs
             /\ Dirs' = ForceDirectories(Dirs, PutPlace(K))
    <3>1. Dirs' = Dirs
      BY <1>1, <2>3 DEF TreeInv, TreeClosed, ForceDirectories
    <3> QED BY <2>1, <3>1
  <2> QED BY <1>1, <1>3, <2>1, <2>2, <2>3, PutEffect DEF Dirs
<1>4. ASSUME NEW K \in Keys, iKeyDelete(K), ~Paged
      PROVE  LevelsFull' /\ NoDuplicateKey'
  <2>1. Dirs' \subseteq Dirs
    BY <1>4, KeyDeleteEffect
  <2>2. \A d \in Dirs : 0..(Len(d.part) - 1) = {}
    BY <1>4 DEF LevelsFull, FullBefore
  <2>3. LevelsFull'
    BY <2>1, <2>2 DEF LevelsFull, FullBefore
  <2>4. NoDuplicateKey'
    BY <2>1 DEF NoDuplicateKey
  <2> QED BY <2>3, <2>4
<1>5. ASSUME Dirs' = Dirs
      PROVE  LevelsFull' /\ NoDuplicateKey'
  BY <1>2, <1>5 DEF LevelsFull, FullBefore, NoDuplicateKey
<1>6. \/ \E K \in Keys : \E v \in ValuesOf[K] : iPut(K, v)
      \/ \E K \in Keys : iKeyDelete(K) /\ ~Paged
      \/ Dirs' = Dirs
  BY DeleteEffect DEF SteadyNext, Put, Read, Reads, Delete, KeyDel, vars, Dirs
<1> QED BY <1>1, <1>3, <1>4, <1>5, <1>6

LEMMA SteadyInit == Init => SteadyInv
<1> SUFFICES ASSUME Init PROVE SteadyInv
  OBVIOUS
<1>1. Dirs \subseteq {Root}
  BY DEF Init, Dirs
<1>2. LevelsFull
  <2>1. \A j \in 0..(0 - 1) : FALSE
    OBVIOUS
  <2> QED BY <1>1, <2>1, EmptySeq DEF LevelsFull, FullBefore, Root
<1>3. NoDuplicateKey
  <2>1. ASSUME NEW J \in Keys, NEW i \in 0..(Len(Last(J)) - 1)
        PROVE  Place(Front(J), Last(J), i) # Root
    <3>1. Last(J) \in Names /\ i \in 0..Len(Last(J)) /\ i # Len(Last(J))
      BY KeyParts, NameBounds
    <3> QED BY <3>1, PlaceParts DEF Root
  <2> QED BY <1>1, <2>1 DEF NoDuplicateKey
<1> QED BY <1>2, <1>3, TreeInit DEF SteadyInv

(* A key without subkeys never gets a second directory, in programs that   *)
(* leave the options alone and remove no directory from partitions.        *)
THEOREM OneDirectory == SteadySpec => []NoDuplicateKey
<1>1. SteadySpec => []SteadyInv
  BY SteadyInit, SteadyStep, PTL DEF SteadySpec
<1> QED BY <1>1, PTL DEF SteadyInv

----------------------------------------------------------------------------
(* What the keys look like from outside: which exist, and with what value. *)

LEMMA PrefixOfParent ==
  ASSUME NEW S, NEW s \in Seq(S), NEW t \in Seq(S), t # <<>>
  PROVE  IsStrictPrefix(s, t) <=> IsPrefix(s, Front(t))
<1>1. /\ Front(t) \in Seq(S) /\ Len(Front(t)) = Len(t) - 1
      /\ Len(s) \in Nat /\ Len(t) \in Nat /\ Len(t) >= 1
      /\ Len(t) - 1 \in 0..Len(t) /\ 0 \in 0..(Len(t) - 1)
  BY FrontLast, LenProperties, EmptySeq
<1>2. Front(t) = SubSeq(t, 1, Len(t) - 1)
  BY DEF Front
<1>3. ASSUME IsStrictPrefix(s, t) PROVE IsPrefix(s, Front(t))
  <2>1. Len(s) \in 0..Len(t) /\ s = SubSeq(t, 1, Len(s)) /\ s # t
    BY <1>3, PrefixIsLeading DEF IsStrictPrefix
  <2>2. Len(s) # Len(t)
    BY <2>1, SubSeqFull
  <2>3. Len(s) \in 0..(Len(t) - 1)
    <3> PICK n : n = Len(s)
      OBVIOUS
    <3>1. n \in Nat /\ n <= Len(t) /\ n # Len(t)
      BY <1>1, <2>1, <2>2
    <3> QED BY <1>1, <3>1
  <2>4. SubSeq(Front(t), 1, Len(s)) = SubSeq(t, 1, Len(s))
    BY <1>1, <1>2, <2>3, Leading
  <2> QED BY <1>1, <2>1, <2>3, <2>4, PrefixIsLeading
<1>4. ASSUME IsPrefix(s, Front(t)) PROVE IsStrictPrefix(s, t)
  <2>1. IsPrefix(Front(t), t)
    BY <1>1, <1>2, Leading
  <2>2. IsPrefix(s, t)
    BY <1>1, <1>4, <2>1, PrefixTransitive
  <2>3. Len(s) \in 0..Len(Front(t))
    BY <1>1, <1>4, PrefixIsLeading
  <2>4. s # t
    BY <1>1, <2>3
  <2> QED BY <2>2, <2>4 DEF IsStrictPrefix
<1> QED BY <1>3, <1>4

(* What lies above a key's directory.                                      *)
LEMMA PlainAbove ==
  ASSUME NEW J \in Keys, NEW K \in Keys, IsStrictPrefix(J, K),
         NEW d \in DirIds, d.at = Front(K)
  PROVE  Plain(J) \in Ancestors(d)
<1>1. J \in Seq(Names) /\ K \in Seq(Names) /\ K # <<>> /\ Front(K) \in Seq(Names)
  BY KeyParts
<1>2. IsPrefix(J, Front(K))
  BY <1>1, PrefixOfParent
<1>3. Len(J) \in 0..Len(Front(K)) /\ J = SubSeq(Front(K), 1, Len(J))
  BY <1>1, <1>2, PrefixIsLeading
<1> QED BY <1>3 DEF Ancestors

(* Nothing is ever made that has the name of a key but is a level.         *)
LEMMA NoLevelHasName ==
  ASSUME NEW J \in Keys, Unambiguous(J), NEW K \in Keys, NEW d, MadeFor(d, K)
  PROVE  d # Level(Front(J), Last(J), Len(Last(J)))
<1> DEFINE P == Front(K)
           k == Last(K)
           Q == Front(J)
           l == Last(J)
<1>1. /\ P \in Seq(Names) /\ k \in Names /\ k \in Seq(Char) /\ Len(k) \in Nat
      /\ Q \in Seq(Names) /\ l \in Names /\ l \in Seq(Char) /\ Len(l) \in Nat /\ Len(l) >= 1
      /\ K \in Seq(Names) /\ J \in Seq(Names)
      /\ Append(P, k) = K /\ Append(Q, l) = J
  <2>1. /\ P \in Seq(Names) /\ k \in Names /\ k \in Seq(Char)
        /\ Q \in Seq(Names) /\ l \in Names /\ l \in Seq(Char) /\ l # <<>>
        /\ K \in Seq(Names) /\ J \in Seq(Names)
    BY KeyParts DEF Names
  <2>2. Append(P, k) = K /\ Append(Q, l) = J
    BY KeyParts, AppendFrontLast
  <2> HIDE DEF P, k, Q, l
  <2>3. Len(k) \in Nat /\ Len(l) \in Nat /\ Len(l) >= 1
    BY <2>1, LenProperties, EmptySeq
  <2> QED BY <2>1, <2>2, <2>3
<1> SUFFICES ASSUME d = Level(Q, l, Len(l)) PROVE FALSE
  OBVIOUS
<1>2. PICK i \in 0..(Len(k) - 1) : d \in Ancestors(Place(P, k, i)) \cup {Place(P, k, i)}
  BY DEF MadeFor
<1>3. i \in 0..Len(k) /\ i # Len(k) /\ Len(l) \in 0..Len(l) /\ Len(l) \in 1..Len(l)
  BY <1>1
<1>4. d = [at |-> Q, part |-> l, name |-> <<>>] /\ l # <<>>
  <2>1. SubSeq(l, 1, Len(l)) = l
    BY <1>1, SubSeqFull
  <2> PICK n : n = Len(l)
    OBVIOUS
  <2> HIDE DEF Q, l
  <2>2. n \in 1..Len(l) /\ l \in Seq(Char)
    BY <1>1, <1>3
  <2>3. Level(Q, l, n) = [at |-> Q, part |-> SubSeq(l, 1, n), name |-> <<>>]
    BY <2>2, LevelParts
  <2> QED BY <1>1, <2>1, <2>3, EmptySeq
<1> DEFINE x == Place(P, k, i)
<1>5. /\ x \in DirIds /\ x.at = P /\ x.part = SubSeq(k, 1, i) /\ Len(x.part) = i
      /\ x.part \in Seq(Char) /\ x.name # <<>>
  BY <1>1, <1>3, PlaceType, PlaceParts
<1> HIDE DEF P, k, Q, l, x
<1>6. d.at = Q /\ d.part = l /\ d.name = <<>>
  BY <1>4
<1>7. d \in Ancestors(x)
  BY <1>2, <1>5, <1>6 DEF x
<1>8. PICK n \in 1..Len(x.part) :
         d = [at |-> x.at, part |-> SubSeq(x.part, 1, n), name |-> <<>>]
  <2>1. d # Root
    BY <1>4, <1>6 DEF Root
  <2>2. ASSUME NEW j \in 1..Len(x.at),
               d = [at |-> SubSeq(x.at, 1, j - 1), part |-> <<>>, name |-> x.at[j]]
        PROVE  FALSE
    <3>1. d.part = <<>>
      BY <2>2
    <3> QED BY <1>4, <1>6, <3>1
  <2> QED BY <1>5, <1>7, <2>1, <2>2, AncestorCases
<1>9. n \in 0..Len(k) /\ n \in 0..i /\ 0 \in 0..n /\ n # Len(k)
  BY <1>1, <1>3, <1>5
<1>10. Q = P /\ l = SubSeq(k, 1, n)
  <2>1. d.at = x.at /\ d.part = SubSeq(x.part, 1, n)
    BY <1>8
  <2> QED BY <1>1, <1>3, <1>5, <1>6, <1>9, <2>1, Leading
<1>11. IsPrefix(l, k) /\ Len(l) = n
  BY <1>1, <1>9, <1>10, Leading
<1>12. IsStrictPrefix(l, k)
  BY <1>9, <1>11 DEF IsStrictPrefix
<1>13. Len(K) = Len(P) + 1 /\ Len(J) = Len(P) + 1 /\ K[Len(J)] = k
  BY <1>1, <1>10, AppendProperties
<1>14. Len(K) >= Len(J) /\ SubSeq(K, 1, Len(J) - 1) = P
  <2>1. Len(P) \in Nat /\ Len(K) = Len(J)
    BY <1>1, <1>13, LenProperties
  <2>2. P = SubSeq(K, 1, Len(K) - 1)
    BY DEF Front, P
  <2> QED BY <1>13, <2>1, <2>2
<1> QED BY <1>10, <1>12, <1>13, <1>14 DEF Unambiguous, Q, l

(* A key that exists in the partitions has a directory there.              *)
LEMMA PartitionedExists ==
  ASSUME NEW J \in Keys, NEW T, T \subseteq DirIds
  PROVE  iIsKeyDirExists(T, Front(J), Last(J)) \in T
           <=> iIsKeyDirExists(T, Front(J), Last(J)) # NoDir
<1>1. Last(J) \in Names
  BY KeyParts
<1> QED BY <1>1, LookupResult, NoDirAssumption

(* A put makes its key exist and those it is below, and no other.          *)
LEMMA PutKeys ==
  ASSUME Clean, TreeInv, TreeInv', NEW K \in Keys, NEW v \in ValuesOf[K], iPut(K, v),
         PutPlace(K) # NoDir, NEW J \in Keys
  PROVE  iKeyIsExists(J)' <=> iKeyIsExists(J) \/ IsPrefix(J, K)
<1> DEFINE d == PutPlace(K)
           Q == Front(J)
           l == Last(J)
<1>1. /\ Q \in Seq(Names) /\ l \in Names /\ Len(l) \in Nat
      /\ J \in Seq(Names) /\ K \in Seq(Names)
      /\ Plain(J) = Place(Q, l, 0)
  BY KeyParts, LenProperties DEF Names
<1>2. /\ d \in DirIds /\ Dirs' = ForceDirectories(Dirs, d)
      /\ Paged' = Paged /\ Dirs \subseteq Dirs' /\ d \in Dirs'
  <2>2. /\ fs' = [x \in ForceDirectories(Dirs, d) |-> IF x = d THEN v ELSE GetDirValue(x)]
        /\ UNCHANGED options
    BY DEF iPut, PutAt
  <2>3. Dirs' = ForceDirectories(Dirs, d) /\ d \in Dirs' /\ Dirs \subseteq Dirs'
    BY <2>2 DEF Dirs, ForceDirectories
  <2> QED BY <2>2, <2>3, PutPlaceType DEF options, Paged
<1>3. PICK i \in 0..(Len(Last(K)) - 1) : d = Place(Front(K), Last(K), i)
  BY SoundPutPlace DEF Clean, SoundPut
<1>4. i \in 0..Len(Last(K)) /\ d.at = Front(K)
  BY <1>3, NameBounds DEF Place
<1>5. CASE J = K
  <2>1. iGet(K)' = v /\ v # NoFile
    BY PutThenGet, ValuesAssumption DEF TreeInv, Clean, SoundPut
  <2>2. iKeyIsExists(K)'
    BY <2>1 DEF iGet, iKeyIsExists, GetDirValue
  <2> QED BY <1>1, <1>5, <2>2, PrefixReflexive
<1>6. CASE J # K
  <2>1. \A m \in 0..Len(l) : Place(Q, l, m) # d
    BY <1>3, <1>4, <1>6, PlacesApart
  <2> HIDE DEF d, Q, l
  <2>2. Plain(J) \in Dirs' <=> Plain(J) \in Dirs \/ IsPrefix(J, K)
    <3>1. ASSUME IsPrefix(J, K) PROVE Plain(J) \in Dirs'
      <4>1. Plain(J) \in Ancestors(d)
        BY <1>2, <1>4, <1>6, <3>1, PlainAbove DEF IsStrictPrefix
      <4> QED BY <1>2, <4>1 DEF ForceDirectories
    <3>2. ASSUME Plain(J) \in Dirs' \ Dirs PROVE IsPrefix(J, K)
      <4>1. Plain(J) # d
        BY <1>1, <2>1
      <4>2. Plain(J) \in Ancestors(d)
        BY <1>2, <3>2, <4>1 DEF ForceDirectories
      <4>3. Plain(J).at = Q /\ Plain(J).name = l /\ l # <<>>
        BY <1>1, KeyParts, PlainParts DEF Q, l
      <4>4. IsStrictPrefix(Append(Q, l), K)
        BY <4>2, <4>3, MadeForSubkey DEF d
      <4>5. Append(Q, l) = J
        BY KeyParts, AppendFrontLast DEF Q, l
      <4> QED BY <4>4, <4>5 DEF IsStrictPrefix
    <3> QED BY <1>2, <3>1, <3>2
  <2>3. CASE ~Paged
    BY <1>2, <2>2, <2>3 DEF iKeyIsExists
  <2>4. CASE Paged
    <3>1. ASSUME NEW m \in 1..(Len(l) - 1), Place(Q, l, m) \in Dirs'
          PROVE  Place(Q, l, m) \in Dirs
      <4>1. m \in 0..Len(l) /\ m # 0 /\ m # Len(l)
        BY <1>1
      <4>2. Place(Q, l, m).part # <<>> /\ Place(Q, l, m).name # <<>>
        BY <1>1, <4>1, PlaceParts, EmptySeq
      <4>3. Place(Q, l, m) \notin Ancestors(d)
        BY <1>2, <4>2, MadeAbove
      <4> QED BY <1>2, <2>1, <3>1, <4>1, <4>3 DEF ForceDirectories
    <3>2. Closed(Dirs) /\ Dirs \subseteq DirIds /\ Dirs' \subseteq DirIds
      BY DEF TreeInv, TreeClosed, Closed, TypeOK
    <3>3. Level(Q, l, Len(l)) \notin Dirs' \ Dirs
      <4>1. Unambiguous(J)
        BY <2>4 DEF Clean
      <4>2. ASSUME NEW x \in Dirs' \ Dirs PROVE MadeFor(x, K)
        BY <1>2, <4>2, PutMakes DEF d, ForceDirectories
      <4> QED BY <4>1, <4>2, NoLevelHasName DEF Q, l
    <3>4. iIsKeyDirExists(Dirs', Q, l) = iIsKeyDirExists(Dirs, Q, l)
      BY <1>1, <1>2, <3>1, <3>2, <3>3, LookupInGrown
    <3>5. iIsKeyDirExists(Dirs', Q, l) \in Dirs' <=> iIsKeyDirExists(Dirs, Q, l) \in Dirs
      BY <3>2, <3>4, PartitionedExists DEF Q, l
    <3> QED BY <1>2, <2>2, <2>4, <3>5 DEF iKeyIsExists, Partitioned, Q, l
  <2> QED BY <2>3, <2>4
<1> QED BY <1>5, <1>6

(* A key whose directory is there unpartitioned has no value elsewhere.    *)
LEMMA PlainHidesNothing ==
  ASSUME SteadyInv, Clean, Paged, NEW K \in Keys, Leaf(K), Plain(K) \in Dirs
  PROVE  Partitioned(K) = NoDir
<1> DEFINE P == Front(K)
           k == Last(K)
<1>1. k \in Names /\ Len(k) \in Nat /\ Plain(K) = Place(P, k, 0) /\ 0 \in 0..(Len(k) - 1)
  BY KeyParts, LenProperties, EmptySeq DEF Names
<1>2. ASSUME NEW i \in 1..Len(k), Place(P, k, i) \in Dirs PROVE FALSE
  <2>1. CASE i = Len(k)
    <3>1. Level(P, k, Len(k)) \in Dirs
      BY <1>1, <1>2, <2>1, PlaceAtEnd
    <3>2. Level(P, k, Len(k)) # Root
      BY <1>1, <1>2, <2>1, PlaceAtEnd, PlaceParts, EmptySeq DEF Root
    <3>3. PICK J \in Keys : MadeFor(Level(P, k, Len(k)), J)
      BY <3>1, <3>2 DEF SteadyInv, TreeInv, DirsMade
    <3> QED BY <3>3, NoLevelHasName DEF Clean
  <2>2. CASE i # Len(k)
    <3>1. i \in 0..(Len(k) - 1) /\ i # 0
      BY <1>1, <2>2
    <3> QED BY <1>1, <1>2, <3>1 DEF SteadyInv, NoDuplicateKey
  <2> QED BY <2>1, <2>2
<1> QED BY <1>1, <1>2, LookupResult DEF Partitioned

(* A careful delete takes the value of its key, and tells whether it did.  *)
LEMMA DeleteTakes ==
  ASSUME SteadyInv, Clean, NEW K \in Keys, Paged => Leaf(K), iDelete(K)
  PROVE  /\ iGet(K)' = NoFile
         /\ (GetDirValue(DeletePlace(K)) # NoFile) = (iGet(K) # NoFile)
<1>1. /\ Dirs' = Dirs /\ Paged' = Paged
      /\ \A x : GetDirValue(x)' = IF x = DeletePlace(K) THEN NoFile ELSE GetDirValue(x)
  BY DeleteEffect DEF Paged, options
<1>2. PICK p : p = Plain(K) /\ p = Plain(K)'
  OBVIOUS
<1>3. PICK q : q = Partitioned(K) /\ q = Partitioned(K)'
  BY <1>1 DEF Partitioned
<1>4. GetDirValue(NoDir) = NoFile
  BY NoDirHoldsNothing DEF SteadyInv, TreeInv
<1>5. p \notin Dirs => GetDirValue(p) = NoFile
  BY DEF GetDirValue
<1>6. iGet(K) = IF GetDirValue(p) # NoFile \/ ~Paged THEN GetDirValue(p) ELSE GetDirValue(q)
  BY <1>2, <1>3 DEF iGet
<1>7. iGet(K)' = IF GetDirValue(p)' # NoFile \/ ~Paged THEN GetDirValue(p)' ELSE GetDirValue(q)'
  <2>1. GetDirValue(Plain(K))' = GetDirValue(p)' /\ GetDirValue(Partitioned(K))' = GetDirValue(q)'
    BY <1>2, <1>3 DEF GetDirValue
  <2> QED BY <1>1, <2>1 DEF iGet
<1>8. CASE ~Paged
  BY <1>1, <1>2, <1>6, <1>7, <1>8 DEF DeletePlace
<1>9. CASE Paged /\ p \notin Dirs
  <2>1. DeletePlace(K) = q
    BY <1>2, <1>3, <1>9 DEF DeletePlace
  <2> QED BY <1>1, <1>5, <1>6, <1>7, <1>9, <2>1
<1>10. CASE Paged /\ p \in Dirs
  <2>1. DeletePlace(K) = p /\ q = NoDir
    BY <1>2, <1>3, <1>10, PlainHidesNothing DEF DeletePlace
  <2> QED BY <1>1, <1>4, <1>6, <1>7, <1>10, <2>1
<1> QED BY <1>8, <1>9, <1>10

(* Without partitions iKeyDelete removes the key and its subkeys, only.    *)
LEMMA KeyDeleteTakes ==
  ASSUME TreeInv, ~Paged, NEW K \in Keys, iKeyDelete(K), NEW J \in Keys
  PROVE  /\ iKeyIsExists(J)' <=> iKeyIsExists(J) /\ ~IsPrefix(K, J)
         /\ iGet(J)' = IF IsPrefix(K, J) THEN NoFile ELSE iGet(J)
<1>1. /\ Dirs' = IF Plain(K) \in Dirs THEN DeleteDir(Dirs, Plain(K)) ELSE Dirs
      /\ \A x : GetDirValue(x)' = IF x \in Dirs' THEN GetDirValue(x) ELSE NoFile
      /\ Paged' = Paged
  <2>1. DeletePlace(K) = Plain(K)
    BY DEF DeletePlace
  <2> QED BY <2>1, KeyDeleteEffect DEF Paged, options
<1>2. PICK x : x = Plain(J) /\ x = Plain(J)'
  OBVIOUS
<1>3. /\ J \in Seq(Names) /\ K \in Seq(Names) /\ J # <<>> /\ K # <<>>
      /\ x = [at |-> Front(J), part |-> <<>>, name |-> Last(J)]
      /\ Plain(K) = [at |-> Front(K), part |-> <<>>, name |-> Last(K)]
      /\ Last(K) # <<>> /\ x \in DirIds
      /\ Append(Front(K), Last(K)) = K /\ Append(Front(J), Last(J)) = J
  BY <1>2, KeyParts, PlainParts, PlainType, AppendFrontLast
<1>4. IsPrefix(K, J) <=> Below(Plain(K), x)
  <2>1. IsPrefix(K, J) <=> K = J \/ IsPrefix(K, Front(J))
    BY <1>3, PrefixOfParent, PrefixReflexive DEF IsStrictPrefix
  <2>2. /\ Plain(K).at = Front(K) /\ Plain(K).part = <<>> /\ Plain(K).name = Last(K)
        /\ x.at = Front(J) /\ x.name = Last(J)
    BY <1>3
  <2>3. x = Plain(K) <=> J = K
    BY <1>2, <1>3, <2>2
  <2> QED BY <1>3, <2>1, <2>2, <2>3 DEF Below
<1>5. x \in Dirs' <=> x \in Dirs /\ ~IsPrefix(K, J)
  <2>1. CASE Plain(K) \in Dirs
    BY <1>1, <1>4, <2>1 DEF DeleteDir
  <2>2. CASE Plain(K) \notin Dirs
    <3>1. ASSUME x \in Dirs, IsPrefix(K, J) PROVE FALSE
      <4>1. CASE K = J
        BY <1>2, <2>2, <3>1, <4>1
      <4>2. CASE K # J
        <5>1. x.at = Front(J)
          BY <1>3
        <5>2. Plain(K) \in Ancestors(x)
          BY <1>3, <3>1, <4>2, <5>1, PlainAbove DEF IsStrictPrefix
        <5> QED BY <2>2, <3>1, <5>2 DEF TreeInv, TreeClosed
      <4> QED BY <4>1, <4>2
    <3> QED BY <1>1, <2>2, <3>1
  <2> QED BY <2>1, <2>2
<1>6. iKeyIsExists(J)' <=> iKeyIsExists(J) /\ ~IsPrefix(K, J)
  BY <1>1, <1>2, <1>5 DEF iKeyIsExists
<1>7. iGet(J) = GetDirValue(x) /\ iGet(J)' = GetDirValue(x)'
  BY <1>1, <1>2 DEF iGet, GetDirValue
<1>8. x \notin Dirs => GetDirValue(x) = NoFile
  BY DEF GetDirValue
<1> QED BY <1>1, <1>5, <1>6, <1>7, <1>8

----------------------------------------------------------------------------
(* The store implements KVStore: every step of a careful program is a step *)
(* of the abstract store, or changes nothing that it knows.                *)

Existing == {K \in Keys : iKeyIsExists(K)}
Shown    == [K \in Keys |-> iGet(K)]

CarefulInv == SteadyInv /\ Clean

LEMMA CarefulStep ==
  ASSUME CarefulInv, [CarefulNext]_vars
  PROVE  CarefulInv'
<1>1. [SteadyNext]_vars
  BY DEF CarefulNext, CarefulDelete, SteadyNext, Delete
<1>2. options' = options \/ UNCHANGED vars
  BY DEF CarefulNext, CarefulDelete, Put, iPut, Read, Reads, iDelete, KeyDel, iKeyDelete
<1>3. Clean'
  BY <1>2 DEF CarefulInv, Clean, Paged, SoundFullProcess, options, vars
<1> QED BY <1>1, <1>3, SteadyStep DEF CarefulInv

LEMMA PutImplements ==
  ASSUME CarefulInv, CarefulInv', NEW K \in Keys, NEW v \in ValuesOf[K], iPut(K, v)
  PROVE  Promise!Put(K, v) \/ Promise!PutRefused(K, v)
<1>1. CASE PutPlace(K) = NoDir
  <2>1. UNCHANGED <<fs, options>>
    BY <1>1 DEF iPut
  <2>2. Existing' = Existing /\ Shown' = Shown
    BY <2>1 DEF Existing, Shown, iKeyIsExists, iGet, GetDirValue, Partitioned, Dirs,
                Paged, options
  <2>3. Promise!PutRefused(K, v)
    BY <1>1, <2>2 DEF iPut, Promise!PutRefused, Promise!PartFull, IDB_ERR_PART_FULL,
                      Existing, Shown
  <2> QED BY <2>3
<1>2. CASE PutPlace(K) # NoDir
  <2>1. \A J \in Keys : iKeyIsExists(J)' <=> iKeyIsExists(J) \/ IsPrefix(J, K)
    BY <1>2, PutKeys DEF CarefulInv, SteadyInv
  <2>2. \A J \in Keys : iGet(J)' = IF J = K THEN v ELSE iGet(J)
    BY <1>2, PutThenGet, PutLeavesOthers
       DEF CarefulInv, SteadyInv, TreeInv, Clean, SoundPut
  <2>3. Existing' = Existing \cup {J \in Keys : IsPrefix(J, K)}
    BY <2>1 DEF Existing
  <2>4. Shown' = [Shown EXCEPT ![K] = v]
    BY <2>2 DEF Shown
  <2>5. last' = [op |-> "iPut", key |-> K, val |-> v, ret |-> 0]
    BY <1>2 DEF iPut, IDB_OK
  <2>6. Promise!Put(K, v)
    BY <2>3, <2>4, <2>5 DEF Promise!Put, Promise!IsPrefix, IsPrefix, Existing, Shown
  <2> QED BY <2>6
<1> QED BY <1>1, <1>2

LEMMA ReadImplements ==
  ASSUME NEW K \in Keys, Reads(K)
  PROVE  Promise!Get(K) \/ Promise!IsExists(K) \/ Promise!KeyIsExists(K)
<1>1. Existing' = Existing /\ Shown' = Shown
  BY DEF Reads, Existing, Shown, iKeyIsExists, iGet, GetDirValue, Partitioned, Dirs,
         Paged, options
<1>2. Shown[K] = iGet(K) /\ (K \in Existing) = iKeyIsExists(K)
  BY DEF Shown, Existing, iKeyIsExists
<1>3. iIsExists(K) = (iGet(K) # NoFile)
  BY DEF iIsExists, iGet
<1> QED BY <1>1, <1>2, <1>3
        DEF Reads, Promise!Get, Promise!IsExists, Promise!KeyIsExists, Existing, Shown

LEMMA DeleteImplements ==
  ASSUME CarefulInv, NEW K \in Keys, CarefulDelete(K)
  PROVE  Promise!Delete(K)
<1>1. /\ \A J \in Keys : iGet(J)' = IF J = K THEN NoFile ELSE iGet(J)
      /\ (GetDirValue(DeletePlace(K)) # NoFile) = (iGet(K) # NoFile)
  BY DeleteTakes, DeleteValueLeavesOthers
     DEF CarefulDelete, CarefulInv, SteadyInv, TreeInv
<1>2. Shown' = [Shown EXCEPT ![K] = NoFile] /\ Shown[K] = iGet(K)
  BY <1>1 DEF Shown
<1>3. Existing' = Existing
  <2>1. Dirs' = Dirs /\ Paged' = Paged
    BY DeleteEffect DEF CarefulDelete, Paged, options
  <2> QED BY <2>1 DEF Existing, iKeyIsExists, Partitioned
<1>4. last' = [op |-> "iDelete", key |-> K, ret |-> Shown[K] # NoFile]
  BY <1>1, <1>2 DEF CarefulDelete, iDelete
<1> QED BY <1>2, <1>3, <1>4 DEF Promise!Delete, Existing, Shown

LEMMA KeyDeleteImplements ==
  ASSUME CarefulInv, ~Paged, NEW K \in Keys, iKeyDelete(K)
  PROVE  Promise!KeyDelete(K)
<1>1. \A J \in Keys : /\ iKeyIsExists(J)' <=> iKeyIsExists(J) /\ ~IsPrefix(K, J)
                      /\ iGet(J)' = IF IsPrefix(K, J) THEN NoFile ELSE iGet(J)
  BY KeyDeleteTakes DEF CarefulInv, SteadyInv
<1>2. Existing' = {J \in Existing : ~IsPrefix(K, J)}
  BY <1>1 DEF Existing
<1>3. /\ Shown' = [J \in Keys |-> IF IsPrefix(K, J) THEN NoFile ELSE Shown[J]]
  BY <1>1 DEF Shown
<1>4. last' = [op |-> "iKeyDelete", key |-> K, ret |-> K \in Existing]
  <2>1. (DeletePlace(K) \in Dirs) = (K \in Existing)
    BY DEF DeletePlace, Existing, iKeyIsExists
  <2> QED BY <2>1 DEF iKeyDelete
<1> QED BY <1>2, <1>3, <1>4
        DEF Promise!KeyDelete, Promise!IsPrefix, IsPrefix, Existing, Shown

LEMMA InitImplements ==
  ASSUME Init
  PROVE  Promise!Init
<1>1. Dirs \subseteq {Root} /\ \A x : GetDirValue(x) = NoFile
  BY DEF Init, Dirs, GetDirValue
<1>2. ASSUME NEW K \in Keys PROVE ~iKeyIsExists(K) /\ iGet(K) = NoFile
  <2>1. \A i \in 0..Len(Last(K)) : Place(Front(K), Last(K), i) # Root
    <3>1. ASSUME NEW i \in 0..Len(Last(K)) PROVE Place(Front(K), Last(K), i) # Root
      <4>1. Last(K) \in Names /\ Len(Last(K)) \in Nat /\ Len(Last(K)) >= 1
        BY KeyParts, LenProperties, EmptySeq DEF Names
      <4>2. Len(Place(Front(K), Last(K), i).part) = i
            /\ Len(Place(Front(K), Last(K), i).name) = Len(Last(K)) - i
        BY <4>1, PlaceParts
      <4> QED BY <4>1, <4>2, EmptySeq DEF Root
    <3> QED BY <3>1
  <2>2. Plain(K) = Place(Front(K), Last(K), 0) /\ Last(K) \in Names /\ Len(Last(K)) \in Nat
    BY KeyParts, LenProperties DEF Names
  <2>3. 0 \in 0..Len(Last(K)) /\ \A i \in 1..Len(Last(K)) : i \in 0..Len(Last(K))
    BY <2>2
  <2>4. Plain(K) \notin Dirs
    BY <1>1, <2>1, <2>2, <2>3
  <2>5. Partitioned(K) \notin Dirs
    <3>1. NoDir \notin Dirs
      BY TypeInit, NoDirAssumption DEF TypeOK
    <3> QED BY <1>1, <2>1, <2>2, <2>3, <3>1, LookupResult DEF Partitioned
  <2> QED BY <1>1, <2>4, <2>5 DEF iKeyIsExists, iGet
<1>3. Existing = {} /\ Shown = [K \in Keys |-> NoFile]
  BY <1>2 DEF Existing, Shown
<1> QED BY <1>3 DEF Init, Promise!Init, Existing, Shown

(* The partitioned tree is a key/value store: for programs that do not     *)
(* change the options, whose names cannot be taken for partition levels,   *)
(* and that delete from partitions nothing but values of keys without      *)
(* subkeys, every call has the effect and the answer KVStore gives it.     *)
THEOREM StoreImplementsKVStore == CarefulSpec => ImplementsKVStore
<1>1. CarefulInit => CarefulInv
  BY SteadyInit DEF CarefulInit, CarefulInv
<1>2. CarefulInv /\ [CarefulNext]_vars => CarefulInv'
  BY CarefulStep
<1>3. CarefulInit => Promise!Init
  BY InitImplements DEF CarefulInit
<1>4. CarefulInv /\ CarefulInv' /\ [CarefulNext]_vars => [Promise!Next]_(Promise!vars)
  <2> SUFFICES ASSUME CarefulInv, CarefulInv', [CarefulNext]_vars
               PROVE  [Promise!Next]_(Promise!vars)
    OBVIOUS
  <2>1. ASSUME NEW K \in Keys, NEW v \in ValuesOf[K], iPut(K, v)
        PROVE  Promise!Next
    <3>1. v \in Values
      BY ValuesAssumption
    <3> QED BY <2>1, <3>1, PutImplements DEF Promise!Next
  <2>2. ASSUME NEW K \in Keys, Reads(K) PROVE Promise!Next
    BY <2>2, ReadImplements DEF Promise!Next
  <2>3. ASSUME NEW K \in Keys, CarefulDelete(K) PROVE Promise!Next
    BY <2>3, DeleteImplements DEF Promise!Next
  <2>4. ASSUME NEW K \in Keys, ~Paged, iKeyDelete(K) PROVE Promise!Next
    BY <2>4, KeyDeleteImplements DEF Promise!Next
  <2>5. CASE UNCHANGED vars
    <3>1. Existing' = Existing /\ Shown' = Shown /\ last' = last
      BY <2>5 DEF vars, Existing, Shown, iKeyIsExists, iGet, GetDirValue, Partitioned,
                  Dirs, Paged, options
    <3> QED BY <3>1 DEF Promise!vars, Existing, Shown
  <2> QED BY <2>1, <2>2, <2>3, <2>4, <2>5 DEF CarefulNext, Put, Read, KeyDel
<1> QED BY <1>1, <1>2, <1>3, <1>4, PTL DEF CarefulSpec, ImplementsKVStore, Promise!Spec
=============================================================================
