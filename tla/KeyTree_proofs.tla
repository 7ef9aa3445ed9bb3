--------------------------- MODULE KeyTree_proofs ---------------------------
(***************************************************************************)
(* Lemmas about the directory tree and the two walks of KeyTree.           *)
(***************************************************************************)
EXTENDS KeyTree, FiniteSetTheorems, SequenceTheorems, WellFoundedInduction,
        TLAPS

(* A non-empty set of naturals has a least element: among the sets of the  *)
(* elements below a given one, take one that is minimal under inclusion.   *)
LEMMA MinOfNats ==
  ASSUME NEW S \in SUBSET Nat, S # {}
  PROVE  /\ Min(S) \in S
         /\ \A y \in S : Min(S) <= y
<1> DEFINE Smaller(x) == {y \in S : y < x}
           All == {Smaller(x) : x \in S}
<1>1. All \subseteq FiniteSubsetsOf(Nat)
  <2> SUFFICES ASSUME NEW x \in S PROVE IsFiniteSet(Smaller(x))
    BY DEF FiniteSubsetsOf
  <2> QED BY FS_BoundedSetOfNaturals, x \in Nat, Smaller(x) \subseteq Nat,
             \A y \in Smaller(x) : y <= x
<1>2. PICK x \in S : \A y \in S :
        <<Smaller(y), Smaller(x)>> \notin StrictSubsetOrdering(Nat)
  <2>1. All # {}
    OBVIOUS
  <2> HIDE DEF All
  <2>2. PICK A \in All : \A B \in All : <<B, A>> \notin StrictSubsetOrdering(Nat)
    BY <1>1, <2>1, FS_StrictSubsetOrderingWellFounded, WFMin
  <2> QED BY <2>2 DEF All
<1>3. \A y \in S : x <= y
  <2> SUFFICES ASSUME NEW y \in S, y < x PROVE FALSE
    OBVIOUS
  <2>1. Smaller(y) \subseteq Smaller(x)
    <3> SUFFICES ASSUME NEW z \in S, z < y PROVE z < x
      OBVIOUS
    <3> QED BY x \in Nat, y \in Nat, z \in Nat
  <2>2. y \in Smaller(x) /\ ~(y < y)
    BY y \in Nat
  <2>3. Smaller(y) \in SUBSET Nat /\ Smaller(x) \in SUBSET Nat
    OBVIOUS
  <2> QED BY <1>2, <2>1, <2>2, <2>3 DEF StrictSubsetOrdering
<1> QED BY <1>3 DEF Min

(* The parts of a key path and of a name.                                  *)
LEMMA FrontLast ==
  ASSUME NEW S, NEW s \in Seq(S), s # <<>>
  PROVE  /\ Front(s) \in Seq(S)
         /\ Len(Front(s)) = Len(s) - 1
         /\ Last(s) \in S
<1>1. Len(s) \in Nat /\ Len(s) >= 1
  BY EmptySeq, LenProperties
<1>2. \A i \in 1..(Len(s) - 1) : s[i] \in S
  BY <1>1, ElementOfSeq
<1>3. /\ SubSeq(s, 1, Len(s) - 1) \in Seq(S)
      /\ Len(SubSeq(s, 1, Len(s) - 1)) =
           IF 1 <= Len(s) - 1 THEN Len(s) - 1 - 1 + 1 ELSE 0
  BY <1>1, <1>2, SubSeqProperties
<1>4. s[Len(s)] \in S
  BY <1>1, ElementOfSeq
<1>5. Len(SubSeq(s, 1, Len(s) - 1)) = Len(s) - 1
  <2> DEFINE n == Len(s)
             m == Len(SubSeq(s, 1, n - 1))
  <2>1. n \in Nat /\ n >= 1 /\ m = IF 1 <= n - 1 THEN n - 1 - 1 + 1 ELSE 0
    BY <1>1, <1>3
  <2> HIDE DEF n, m
  <2>2. m = n - 1
    BY <2>1
  <2> QED BY <2>2 DEF m, n
<1> QED BY <1>3, <1>4, <1>5 DEF Front, Last

LEMMA NameParts ==
  ASSUME NEW k \in Names, NEW i \in 0..Len(k)
  PROVE  /\ SubSeq(k, 1, i) \in Seq(Char)
         /\ Len(SubSeq(k, 1, i)) = i
         /\ SubSeq(k, i + 1, Len(k)) \in Seq(Char)
         /\ Len(SubSeq(k, i + 1, Len(k))) = Len(k) - i
<1>1. k \in Seq(Char) /\ Len(k) \in Nat /\ i \in Nat
  BY LenProperties DEF Names
<1>2. \A j \in 1..Len(k) : k[j] \in Char
  BY <1>1, ElementOfSeq
<1>3. /\ SubSeq(k, 1, i) \in Seq(Char)
      /\ Len(SubSeq(k, 1, i)) = IF 1 <= i THEN i - 1 + 1 ELSE 0
  BY <1>1, <1>2, SubSeqProperties
<1>4. /\ SubSeq(k, i + 1, Len(k)) \in Seq(Char)
      /\ Len(SubSeq(k, i + 1, Len(k))) =
           IF i + 1 <= Len(k) THEN Len(k) - (i + 1) + 1 ELSE 0
  BY <1>1, <1>2, SubSeqProperties
<1> QED BY <1>1, <1>3, <1>4

(* The directories of a key are well formed.                               *)
LEMMA PlaceType ==
  ASSUME NEW P \in Seq(Names), NEW k \in Names, NEW i \in 0..Len(k)
  PROVE  Place(P, k, i) \in DirIds
BY NameParts DEF Place, DirIds

LEMMA PlainType ==
  ASSUME NEW K \in Seq(Names)
  PROVE  Plain(K) \in DirIds
<1>1. CASE K = <<>>
  <2>1. <<>> \in Seq(Names) /\ <<>> \in Seq(Char)
    OBVIOUS
  <2> QED BY <1>1, <2>1 DEF Plain, Root, DirIds
<1>2. CASE K # <<>>
  <2>1. Front(K) \in Seq(Names) /\ Last(K) \in Names
    BY <1>2, FrontLast
  <2>2. 0 \in 0..Len(Last(K))
    BY <2>1, LenProperties DEF Names
  <2> QED BY <1>2, <2>1, <2>2, PlaceType DEF Plain
<1> QED BY <1>1, <1>2

LEMMA LevelType ==
  ASSUME NEW P \in Seq(Names), NEW k \in Seq(Char), NEW i \in 0..Len(k)
  PROVE  Level(P, k, i) \in DirIds
<1>1. CASE i = 0
  BY <1>1, PlainType DEF Level
<1>2. CASE i # 0
  <2>1. i \in Nat /\ Len(k) \in Nat /\ \A j \in 1..i : k[j] \in Char
    BY LenProperties, ElementOfSeq
  <2>2. SubSeq(k, 1, i) \in Seq(Char)
    BY <2>1, SubSeqProperties
  <2> QED BY <1>2, <2>2 DEF Level, DirIds
<1> QED BY <1>1, <1>2

LEMMA AncestorsType ==
  ASSUME NEW d \in DirIds
  PROVE  Ancestors(d) \subseteq DirIds
<1>1. d.at \in Seq(Names) /\ d.part \in Seq(Char)
  BY DEF DirIds
<1>2. ASSUME NEW j \in 0..Len(d.at) PROVE Plain(SubSeq(d.at, 1, j)) \in DirIds
  <2>1. j \in Nat /\ Len(d.at) \in Nat /\ \A i \in 1..j : d.at[i] \in Names
    BY <1>1, LenProperties, ElementOfSeq
  <2>2. SubSeq(d.at, 1, j) \in Seq(Names)
    BY <2>1, SubSeqProperties
  <2> QED BY <2>2, PlainType
<1>3. ASSUME NEW j \in 1..Len(d.part) PROVE Level(d.at, d.part, j) \in DirIds
  <2>1. j \in 0..Len(d.part)
    OBVIOUS
  <2> QED BY <1>1, <2>1, LevelType
<1> QED BY <1>2, <1>3 DEF Ancestors

LEMMA ForceDirectoriesType ==
  ASSUME NEW T, T \subseteq DirIds, NEW d \in DirIds
  PROVE  ForceDirectories(T, d) \subseteq DirIds
BY AncestorsType DEF ForceDirectories

(* Level i is the first one below P that may hold name k: the levels       *)
(* before it exist and do not hold it.                                     *)
FirstFor(T, P, k, i) ==
  /\ Place(P, k, 0) \notin T
  /\ \A j \in 1..(i - 1) : Level(P, k, j) \in T /\ Place(P, k, j) \notin T

(* What the put walk decides: the unpartitioned directory, or a level      *)
(* before the last character that is the first for the key.                *)
LEMMA FindKeyDirToPut ==
  ASSUME NEW T, NEW P, NEW k \in Names, NEW max,
         NEW full \in {dkIgnored, dkStopped},
         NEW d, d = iFindKeyDirToPut(T, P, k, max, full), d # NoDir
  PROVE  \/ d = Place(P, k, 0)
         \/ \E i \in 1..(Len(k) - 1) :
              d = Place(P, k, i) /\ FirstFor(T, P, k, i)
<1> DEFINE L == PutLevels(T, P, k, max)
           Direct == \/ Place(P, k, 0) \in T
                     \/ Plain(P) \notin T
                     \/ iSubkeyCount(T, P, <<>>) < max
<1>1. Len(k) \in Nat /\ Len(k) >= 1
  BY EmptySeq, LenProperties DEF Names
<1>2. \A j \in 1..(Len(k) - 1) : j \notin L =>
         Level(P, k, j) \in T /\ Place(P, k, j) \notin T
  BY DEF PutLevels, PutStops
<1>3. CASE Direct
  BY <1>3 DEF iFindKeyDirToPut
<1>4. CASE ~Direct /\ L # {}
  <2>1. d = Place(P, k, Min(L))
    BY <1>4 DEF iFindKeyDirToPut
  <2>2. L \in SUBSET Nat /\ L \subseteq 1..(Len(k) - 1)
    BY <1>1 DEF PutLevels
  <2> HIDE DEF L
  <2>3. Min(L) \in L /\ \A y \in L : Min(L) <= y
    BY <1>4, <2>2, MinOfNats
  <2>4. ASSUME NEW j \in 1..(Min(L) - 1)
        PROVE  j \in 1..(Len(k) - 1) /\ j \notin L
    <3>1. Min(L) \in Nat /\ Min(L) <= Len(k) - 1
      <4>1. Min(L) \in 1..(Len(k) - 1)
        BY <2>2, <2>3
      <4> QED BY <1>1, <4>1
    <3>2. j < Min(L)
      BY <3>1
    <3>3. j \notin L
      <4> SUFFICES ASSUME j \in L PROVE FALSE
        OBVIOUS
      <4>1. Min(L) <= j
        BY <2>3
      <4> QED BY <3>1, <3>2, <4>1
    <3> QED BY <1>1, <3>1, <3>3
  <2>5. Min(L) \in 1..(Len(k) - 1)
    BY <2>2, <2>3
  <2>6. \A j \in 1..(Min(L) - 1) :
           Level(P, k, j) \in T /\ Place(P, k, j) \notin T
    BY <1>2, <2>4
  <2> QED BY <1>4, <2>1, <2>5, <2>6 DEF FirstFor
<1>5. CASE ~Direct /\ L = {}
  <2>1. d = Place(P, k, Len(k) - 1)
    BY <1>5 DEF iFindKeyDirToPut, dkIgnored, dkStopped
  <2>2. CASE Len(k) = 1
    BY <2>1, <2>2
  <2>3. CASE Len(k) > 1
    <3>1. Len(k) - 1 \in 1..(Len(k) - 1)
      BY <1>1, <2>3
    <3>2. \A j \in 1..(Len(k) - 1 - 1) : j \in 1..(Len(k) - 1)
      BY <1>1
    <3>3. \A j \in 1..(Len(k) - 1 - 1) :
             Level(P, k, j) \in T /\ Place(P, k, j) \notin T
      BY <1>2, <1>5, <3>2
    <3> QED BY <1>5, <2>1, <3>1, <3>3 DEF FirstFor
  <2>4. Len(k) = 1 \/ Len(k) > 1
    <3> DEFINE n == Len(k)
    <3>1. n \in Nat /\ n >= 1
      BY <1>1
    <3> HIDE DEF n
    <3>2. n = 1 \/ n > 1
      BY <3>1
    <3> QED BY <3>2 DEF n
  <2> HIDE DEF FirstFor
  <2> QED BY <2>2, <2>3, <2>4
<1> HIDE DEF L, Direct
<1> QED BY <1>3, <1>4, <1>5

(* Making the directory of a key at level i adds no directory that could   *)
(* hold the same key at an earlier level.                                  *)
LEMMA NoNewCopyBefore ==
  ASSUME NEW T, NEW P \in Seq(Names), NEW k \in Names,
         NEW i \in 1..(Len(k) - 1), NEW j \in 0..(i - 1),
         Place(P, k, j) \notin T
  PROVE  Place(P, k, j) \notin ForceDirectories(T, Place(P, k, i))
<1> DEFINE d == Place(P, k, i)
           x == Place(P, k, j)
<1>1. /\ i \in 0..Len(k) /\ j \in 0..Len(k) /\ i \in Nat /\ j \in Nat
      /\ Len(k) \in Nat /\ j < i /\ i < Len(k)
  BY LenProperties DEF Names
<1>2. /\ d.at = P /\ x.at = P
      /\ Len(d.part) = i /\ Len(x.part) = j
      /\ Len(x.name) = Len(k) - j
  BY <1>1, NameParts DEF Place
<1>3. x.name # <<>> /\ x # d
  BY <1>1, <1>2
<1>4. ASSUME NEW m \in 0..Len(P) PROVE x # Plain(SubSeq(P, 1, m))
  <2> DEFINE Q == SubSeq(P, 1, m)
  <2>1. /\ m \in Nat /\ Len(P) \in Nat /\ m <= Len(P)
        /\ \A n \in 1..m : P[n] \in Names
    BY LenProperties, ElementOfSeq
  <2>2. Q \in Seq(Names) /\ Len(Q) = IF 1 <= m THEN m - 1 + 1 ELSE 0
    BY <2>1, SubSeqProperties
  <2>3. CASE Q = <<>>
    BY <2>3, <1>3 DEF Plain, Root
  <2>4. CASE Q # <<>>
    <3>1. Plain(Q).at = Front(Q) /\ Len(Front(Q)) = Len(Q) - 1
      BY <2>2, <2>4, FrontLast DEF Plain, Place
    <3>2. Len(Plain(Q).at) < Len(P)
      BY <2>1, <2>2, <3>1
    <3> QED BY <1>2, <2>1, <3>2
  <2> QED BY <2>3, <2>4
<1>5. ASSUME NEW m \in 1..Len(d.part) PROVE x # Level(P, d.part, m)
  <2>1. Level(P, d.part, m).name = <<>>
    BY <1>1, <1>2 DEF Level
  <2> QED BY <1>3, <2>1
<1> QED BY <1>2, <1>3, <1>4, <1>5 DEF ForceDirectories, Ancestors

(* Every level on the way to a place is made with it.                      *)
LEMMA LevelsMade ==
  ASSUME NEW T, NEW P \in Seq(Names), NEW k \in Names,
         NEW i \in 1..Len(k), NEW j \in 1..i
  PROVE  Level(P, k, j) \in ForceDirectories(T, Place(P, k, i))
<1> DEFINE d == Place(P, k, i)
<1>1. /\ i \in 0..Len(k) /\ i \in Nat /\ j \in Nat /\ Len(k) \in Nat
      /\ k \in Seq(Char) /\ 1 <= j /\ j <= i /\ i <= Len(k)
  BY LenProperties DEF Names
<1>2. d.at = P /\ d.part = SubSeq(k, 1, i) /\ Len(d.part) = i
  BY <1>1, NameParts DEF Place
<1>3. SubSeq(SubSeq(k, 1, i), 1, j) = SubSeq(k, 1, j)
  <2>1. /\ 1 \in 1..Len(k) /\ i \in 1..Len(k)
        /\ 1 \in 1..(i - 1 + 1) /\ j \in 1..(i - 1 + 1)
    BY <1>1
  <2>2. SubSeq(SubSeq(k, 1, i), 1, j) = SubSeq(k, 1 + 1 - 1, 1 + j - 1)
    BY <1>1, <2>1, SubSeqOfSubSeq
  <2> QED BY <1>1, <2>2
<1>4. Level(d.at, d.part, j) = Level(P, k, j)
  BY <1>1, <1>2, <1>3 DEF Level
<1>5. j \in 1..Len(d.part)
  BY <1>1, <1>2
<1> QED BY <1>4, <1>5 DEF ForceDirectories, Ancestors

(* The lookup walk stops where the put walk placed a key: nothing before   *)
(* that level holds the key, and every level up to it exists.              *)
LEMMA LookupFindsPut ==
  ASSUME NEW T, NEW P \in Seq(Names), NEW k \in Names,
         NEW i \in 1..(Len(k) - 1),
         \A j \in 1..(i - 1) : Place(P, k, j) \notin T
  PROVE  iIsKeyDirExists(ForceDirectories(T, Place(P, k, i)), P, k)
           = Place(P, k, i)
<1> DEFINE T2 == ForceDirectories(T, Place(P, k, i))
           E  == LookupEnds(T2, P, k)
<1>1. /\ i \in 1..Len(k) /\ Len(k) \in Nat /\ i \in Nat
      /\ \A j \in 1..(i - 1) : j \in 1..i /\ j \in 0..(i - 1)
  BY LenProperties DEF Names
<1>2. Place(P, k, i) \in T2 /\ Level(P, k, i) \in T2
  BY <1>1, LevelsMade, i \in 1..i DEF ForceDirectories
<1>3. \A j \in 1..(i - 1) : Level(P, k, j) \in T2 /\ Place(P, k, j) \notin T2
  BY <1>1, LevelsMade, NoNewCopyBefore
<1>4. /\ E \in SUBSET Nat /\ i \in E
      /\ \A j \in 1..(i - 1) : j \notin E
  BY <1>1, <1>2, <1>3 DEF LookupEnds
<1> HIDE DEF E, T2
<1>5. Min(E) \in E /\ \A y \in E : Min(E) <= y
  BY <1>4, MinOfNats
<1>6. Min(E) >= 1
  BY <1>5 DEF E, LookupEnds
<1>7. Min(E) \in Nat /\ Min(E) <= i
  BY <1>4, <1>5
<1>8. Min(E) \notin 1..(i - 1)
  BY <1>4, <1>5
<1>9. Min(E) = i
  BY <1>1, <1>6, <1>7, <1>8
<1> QED BY <1>2, <1>9 DEF iIsKeyDirExists, E, T2

----------------------------------------------------------------------------
(* Paths and the directories above a directory.                            *)

(* Leading parts of leading parts.                                         *)
LEMMA Leading ==
  ASSUME NEW S, NEW s \in Seq(S), NEW i \in 0..Len(s), NEW j \in 0..i
  PROVE  /\ SubSeq(s, 1, i) \in Seq(S)
         /\ Len(SubSeq(s, 1, i)) = i
         /\ SubSeq(SubSeq(s, 1, i), 1, j) = SubSeq(s, 1, j)
         /\ IsPrefix(SubSeq(s, 1, i), s)
<1>1. Len(s) \in Nat /\ i \in Nat /\ j \in Nat /\ j <= i /\ i <= Len(s)
  BY LenProperties
<1>2. ASSUME NEW n \in 0..Len(s)
      PROVE  /\ SubSeq(s, 1, n) \in Seq(S)
             /\ Len(SubSeq(s, 1, n)) = n
             /\ \A m \in 1..n : SubSeq(s, 1, n)[m] = s[m]
  <2>1. n \in Int /\ n >= 0 /\ \A m \in 1..n : s[m] \in S
    BY <1>1, ElementOfSeq
  <2>2. /\ SubSeq(s, 1, n) \in Seq(S)
        /\ Len(SubSeq(s, 1, n)) = IF 1 <= n THEN n - 1 + 1 ELSE 0
        /\ \A m \in 1..(n - 1 + 1) : SubSeq(s, 1, n)[m] = s[1 + m - 1]
    BY <2>1, SubSeqProperties
  <2>3. n - 1 + 1 = n /\ (~(1 <= n) => n = 0)
    BY <2>1
  <2>4. \A m \in 1..n : 1 + m - 1 = m
    BY <2>1
  <2> QED BY <2>1, <2>2, <2>3, <2>4
<1>3. j \in 0..Len(s) /\ i \in 0..Len(s)
  BY <1>1
<1>4. SubSeq(SubSeq(s, 1, i), 1, j) = SubSeq(s, 1, j)
  <2> DEFINE t == SubSeq(s, 1, i)
             u == SubSeq(t, 1, j)
             v == SubSeq(s, 1, j)
  <2>1. t \in Seq(S) /\ Len(t) = i /\ \A m \in 1..i : t[m] = s[m]
    BY <1>2, <1>3
  <2>2. v \in Seq(S) /\ Len(v) = j /\ \A m \in 1..j : v[m] = s[m]
    BY <1>2, <1>3
  <2> HIDE DEF t, v
  <2>3. \A m \in 1..j : m \in 1..Len(t) /\ t[m] \in S
    BY <1>1, <2>1, ElementOfSeq
  <2>4. /\ u \in Seq(S)
        /\ Len(u) = IF 1 <= j THEN j - 1 + 1 ELSE 0
        /\ \A m \in 1..(j - 1 + 1) : u[m] = t[1 + m - 1]
    BY <1>1, <2>3, SubSeqProperties
  <2> HIDE DEF u
  <2>5. Len(u) = j /\ \A m \in 1..j : u[m] = t[m]
    BY <1>1, <2>4
  <2>6. \A m \in 1..Len(u) : u[m] = v[m]
    BY <1>1, <2>1, <2>2, <2>5
  <2>7. u = v
    BY <2>2, <2>4, <2>5, <2>6, SeqEqual
  <2> QED BY <2>7 DEF u, t, v
<1>5. IsPrefix(SubSeq(s, 1, i), s)
  <2> DEFINE t == SubSeq(s, 1, i)
  <2>1. t \in Seq(S) /\ Len(t) = i
    BY <1>2, <1>3
  <2>2. SubSeq(t, 1, Len(t)) = t
    BY <2>1, SubSeqFull
  <2> QED BY <1>1, <2>1, <2>2 DEF IsPrefix
<1> QED BY <1>2, <1>3, <1>4, <1>5

(* "Is a leading part of" is what its name says.                           *)
LEMMA PrefixIsLeading ==
  ASSUME NEW S, NEW s \in Seq(S), NEW t \in Seq(S)
  PROVE  IsPrefix(s, t) <=> Len(s) \in 0..Len(t) /\ s = SubSeq(t, 1, Len(s))
BY SubSeqFull, LenProperties DEF IsPrefix

LEMMA PrefixReflexive ==
  ASSUME NEW S, NEW s \in Seq(S)
  PROVE  IsPrefix(s, s)
<1>1. SubSeq(s, 1, Len(s)) = s /\ Len(s) \in 0..Len(s)
  BY SubSeqFull, LenProperties
<1> QED BY <1>1, PrefixIsLeading

LEMMA PrefixTransitive ==
  ASSUME NEW S, NEW s \in Seq(S), NEW t \in Seq(S), NEW u \in Seq(S),
         IsPrefix(s, t), IsPrefix(t, u)
  PROVE  IsPrefix(s, u)
<1>1. Len(s) \in 0..Len(t) /\ s = SubSeq(t, 1, Len(s))
  BY PrefixIsLeading
<1>2. Len(t) \in 0..Len(u) /\ t = SubSeq(u, 1, Len(t))
  BY PrefixIsLeading
<1>3. SubSeq(SubSeq(u, 1, Len(t)), 1, Len(s)) = SubSeq(u, 1, Len(s))
  BY <1>1, <1>2, Leading
<1>4. s = SubSeq(u, 1, Len(s)) /\ Len(s) \in 0..Len(u)
  BY <1>1, <1>2, <1>3, LenProperties
<1> QED BY <1>4, PrefixIsLeading

(* The parts of the directories of a key and of its levels.                *)
LEMMA PlainParts ==
  ASSUME NEW Q \in Seq(Names), Q # <<>>
  PROVE  /\ Plain(Q) = [at |-> Front(Q), part |-> <<>>, name |-> Last(Q)]
         /\ Last(Q) \in Names /\ Last(Q) # <<>>
         /\ Front(Q) \in Seq(Names)
<1>1. Front(Q) \in Seq(Names) /\ Last(Q) \in Names
  BY FrontLast
<1>2. SubSeq(Last(Q), 1, 0) = <<>> /\ SubSeq(Last(Q), 0 + 1, Len(Last(Q))) = Last(Q)
  BY <1>1, SubSeqEmpty, SubSeqFull DEF Names
<1> QED BY <1>1, <1>2 DEF Plain, Place, Names

LEMMA LevelParts ==
  ASSUME NEW P, NEW k \in Seq(Char), NEW i \in 1..Len(k)
  PROVE  /\ Level(P, k, i) = [at |-> P, part |-> SubSeq(k, 1, i), name |-> <<>>]
         /\ SubSeq(k, 1, i) \in Seq(Char) /\ Len(SubSeq(k, 1, i)) = i
         /\ SubSeq(k, 1, i) # <<>>
<1>1. i \in 0..Len(k) /\ i # 0 /\ 0 \in 0..i
  BY LenProperties
<1>2. SubSeq(k, 1, i) \in Seq(Char) /\ Len(SubSeq(k, 1, i)) = i
  BY <1>1, Leading
<1> QED BY <1>1, <1>2, EmptySeq DEF Level

LEMMA PlaceParts ==
  ASSUME NEW P, NEW k \in Names, NEW i \in 0..Len(k)
  PROVE  /\ Place(P, k, i).at = P
         /\ Place(P, k, i).part = SubSeq(k, 1, i)
         /\ Len(Place(P, k, i).part) = i
         /\ Place(P, k, i).part \in Seq(Char)
         /\ Place(P, k, i).name \in Seq(Char)
         /\ Len(Place(P, k, i).name) = Len(k) - i
         /\ Place(P, k, i).name = <<>> <=> i = Len(k)
<1> DEFINE rest == Place(P, k, i).name
<1>1. Len(k) \in Nat /\ i \in Nat
  BY LenProperties DEF Names
<1>2. rest \in Seq(Char) /\ Len(rest) = Len(k) - i
  BY NameParts DEF Place
<1>3. rest = <<>> <=> Len(rest) = 0
  BY <1>2, EmptySeq
<1>4. Len(rest) = 0 <=> i = Len(k)
  BY <1>1, <1>2
<1>5. /\ Place(P, k, i).at = P
      /\ Place(P, k, i).part = SubSeq(k, 1, i)
  BY DEF Place
<1> QED BY <1>2, <1>3, <1>4, <1>5, NameParts

(* After the last character the rest of the name is the level itself.      *)
LEMMA PlaceAtEnd ==
  ASSUME NEW P, NEW k \in Names
  PROVE  Place(P, k, Len(k)) = Level(P, k, Len(k))
<1>1. Len(k) \in Nat /\ Len(k) >= 1 /\ k \in Seq(Char)
  BY LenProperties, EmptySeq DEF Names
<1>2. SubSeq(k, Len(k) + 1, Len(k)) = <<>>
  BY <1>1, SubSeqEmpty
<1> QED BY <1>1, <1>2 DEF Place, Level

(* A key path is its parent and its name.                                  *)
LEMMA AppendFrontLast ==
  ASSUME NEW S, NEW s \in Seq(S), s # <<>>
  PROVE  Append(Front(s), Last(s)) = s
<1>1. Len(s) \in Nat /\ Len(s) >= 1
  BY EmptySeq, LenProperties
<1>2. Front(s) \in Seq(S) /\ Last(s) \in S
  BY FrontLast
<1>3. SubSeq(s, 1, Len(s)) = SubSeq(s, 1, Len(s) - 1) \o <<s[Len(s)]>>
  BY <1>1, SubSeqRecursiveSecond, 1 \in 1..Len(s), Len(s) \in 1..Len(s)
<1>4. SubSeq(s, 1, Len(s)) = s
  BY SubSeqFull
<1>5. Append(Front(s), Last(s)) = Front(s) \o <<Last(s)>>
  BY <1>2, AppendIsConcat
<1> QED BY <1>3, <1>4, <1>5 DEF Front, Last

LEMMA LeadingParts ==
  ASSUME NEW S, NEW s \in Seq(S), NEW j \in 1..Len(s)
  PROVE  /\ SubSeq(s, 1, j) # <<>>
         /\ Front(SubSeq(s, 1, j)) = SubSeq(s, 1, j - 1)
         /\ Last(SubSeq(s, 1, j)) = s[j]
         /\ Append(SubSeq(s, 1, j - 1), s[j]) = SubSeq(s, 1, j)
<1> DEFINE Q == SubSeq(s, 1, j)
<1>1. /\ Len(s) \in Nat /\ j \in Nat /\ j >= 1 /\ j \in 0..Len(s)
      /\ j - 1 \in 0..Len(s) /\ j - 1 \in 0..j /\ 0 \in 0..j
  BY LenProperties
<1>2. Q \in Seq(S) /\ Len(Q) = j
  BY <1>1, Leading
<1>3. Q # <<>>
  BY <1>1, <1>2, EmptySeq
<1>4. Front(Q) = SubSeq(s, 1, j - 1)
  BY <1>1, <1>2, Leading DEF Front
<1>5. Last(Q) = s[j]
  <2>1. \A i \in 1..j : s[i] \in S
    BY <1>1, ElementOfSeq
  <2>2. \A i \in 1..(j - 1 + 1) : SubSeq(s, 1, j)[i] = s[1 + i - 1]
    BY <1>1, <2>1, SubSeqProperties
  <2>3. SubSeq(s, 1, j)[j] = s[1 + j - 1] /\ 1 + j - 1 = j
    BY <1>1, <2>2
  <2> QED BY <1>2, <2>3 DEF Last
<1>6. Append(Front(Q), Last(Q)) = Q
  BY <1>2, <1>3, AppendFrontLast
<1> QED BY <1>3, <1>4, <1>5, <1>6

(* What is above a directory: the root, the directories of the keys its    *)
(* parent key begins with, and the levels before its own.                  *)
LEMMA AncestorCases ==
  ASSUME NEW d \in DirIds, NEW y \in Ancestors(d)
  PROVE  \/ y = Root
         \/ \E j \in 1..Len(d.at) :
              y = [at |-> SubSeq(d.at, 1, j - 1), part |-> <<>>, name |-> d.at[j]]
         \/ \E j \in 1..Len(d.part) :
              y = [at |-> d.at, part |-> SubSeq(d.part, 1, j), name |-> <<>>]
<1>1. d.at \in Seq(Names) /\ d.part \in Seq(Char) /\ Len(d.at) \in Nat
  BY LenProperties DEF DirIds
<1>2. ASSUME NEW j \in 0..Len(d.at), y = Plain(SubSeq(d.at, 1, j))
      PROVE  \/ y = Root
             \/ \E i \in 1..Len(d.at) :
                  y = [at |-> SubSeq(d.at, 1, i - 1), part |-> <<>>, name |-> d.at[i]]
  <2>1. CASE j = 0
    BY <1>2, <2>1, SubSeqEmpty DEF Plain
  <2>2. CASE j # 0
    <3>1. j \in 1..Len(d.at)
      BY <1>1, <2>2
    <3>2. SubSeq(d.at, 1, j) \in Seq(Names)
      BY <1>1, Leading, 0 \in 0..j
    <3>3. /\ SubSeq(d.at, 1, j) # <<>>
          /\ Front(SubSeq(d.at, 1, j)) = SubSeq(d.at, 1, j - 1)
          /\ Last(SubSeq(d.at, 1, j)) = d.at[j]
      BY <1>1, <3>1, LeadingParts
    <3> QED BY <1>2, <3>1, <3>2, <3>3, PlainParts
  <2> QED BY <2>1, <2>2
<1>3. ASSUME NEW j \in 1..Len(d.part), y = Level(d.at, d.part, j)
      PROVE  y = [at |-> d.at, part |-> SubSeq(d.part, 1, j), name |-> <<>>]
  BY <1>1, <1>3, LevelParts
<1> QED BY <1>2, <1>3 DEF Ancestors

(* A directory has above it what is above those above it.                  *)
LEMMA AncestorsTransitive ==
  ASSUME NEW d \in DirIds, NEW y \in Ancestors(d)
  PROVE  Ancestors(y) \subseteq Ancestors(d)
<1>1. /\ d.at \in Seq(Names) /\ d.part \in Seq(Char)
      /\ Len(d.at) \in Nat /\ Len(d.part) \in Nat
  BY LenProperties DEF DirIds
<1>2. ASSUME NEW i \in 0..Len(d.at), NEW P, P = SubSeq(d.at, 1, i), NEW m \in 0..Len(P)
      PROVE  Plain(SubSeq(P, 1, m)) \in Ancestors(d)
  <2>1. Len(P) = i
    BY <1>1, <1>2, Leading, 0 \in 0..i
  <2>2. m \in 0..i /\ m \in 0..Len(d.at)
    BY <1>1, <2>1
  <2>3. SubSeq(P, 1, m) = SubSeq(d.at, 1, m)
    BY <1>1, <1>2, <2>2, Leading
  <2> QED BY <2>2, <2>3 DEF Ancestors
<1>3. CASE y = Root
  <2>1. SubSeq(d.at, 1, 0) = <<>> /\ 0 \in 0..Len(d.at)
    BY <1>1, SubSeqEmpty
  <2>2. \A m \in 0..Len(Root.at) : Plain(SubSeq(Root.at, 1, m)) \in Ancestors(d)
    BY <1>2, <2>1 DEF Root
  <2>3. 1..Len(Root.part) = {}
    BY EmptySeq DEF Root
  <2> QED BY <1>3, <2>2, <2>3 DEF Ancestors
<1>4. ASSUME NEW j \in 1..Len(d.at),
             y = [at |-> SubSeq(d.at, 1, j - 1), part |-> <<>>, name |-> d.at[j]]
      PROVE  Ancestors(y) \subseteq Ancestors(d)
  <2>1. j - 1 \in 0..Len(d.at)
    BY <1>1
  <2>2. \A m \in 0..Len(y.at) : Plain(SubSeq(y.at, 1, m)) \in Ancestors(d)
    BY <1>2, <1>4, <2>1
  <2>3. 1..Len(y.part) = {}
    BY <1>4, EmptySeq
  <2> QED BY <2>2, <2>3 DEF Ancestors
<1>5. ASSUME NEW j \in 1..Len(d.part),
             y = [at |-> d.at, part |-> SubSeq(d.part, 1, j), name |-> <<>>]
      PROVE  Ancestors(y) \subseteq Ancestors(d)
  <2>1. j \in 0..Len(d.part) /\ j \in Nat
    BY <1>1
  <2>2. /\ SubSeq(d.part, 1, j) \in Seq(Char) /\ Len(SubSeq(d.part, 1, j)) = j
        /\ y.at = d.at /\ y.part = SubSeq(d.part, 1, j)
    BY <1>1, <1>5, <2>1, Leading, 0 \in 0..j
  <2>3. ASSUME NEW m \in 1..j
        PROVE  Level(y.at, y.part, m) = Level(d.at, d.part, m) /\ m \in 1..Len(d.part)
    <3>1. m \in 1..Len(d.part) /\ m \in 0..j /\ m \in 1..Len(y.part)
      BY <1>1, <2>1, <2>2
    <3>2. SubSeq(y.part, 1, m) = SubSeq(d.part, 1, m)
      BY <1>1, <2>1, <2>2, <3>1, Leading
    <3>3. m # 0
      BY <2>1
    <3> QED BY <2>2, <3>1, <3>2, <3>3 DEF Level
  <2>4. \A m \in 0..Len(y.at) : Plain(SubSeq(y.at, 1, m)) \in Ancestors(d)
    BY <2>2 DEF Ancestors
  <2>5. \A m \in 1..Len(y.part) : Level(y.at, y.part, m) \in Ancestors(d)
    BY <2>2, <2>3 DEF Ancestors
  <2> QED BY <2>4, <2>5 DEF Ancestors
<1> QED BY <1>3, <1>4, <1>5, AncestorCases

(* No directory without those above it.                                    *)
Closed(T) == \A d \in T : Ancestors(d) \subseteq T

LEMMA ForceDirectoriesClosed ==
  ASSUME NEW T, T \subseteq DirIds, Closed(T), NEW d \in DirIds
  PROVE  Closed(ForceDirectories(T, d))
BY AncestorsTransitive DEF Closed, ForceDirectories

(* What is below a directory is below those above it, too.                 *)
LEMMA BelowUpward ==
  ASSUME NEW d \in DirIds, d # Root, NEW x \in DirIds, NEW y \in Ancestors(x),
         Below(d, y)
  PROVE  Below(d, x)
<1>1. /\ x.at \in Seq(Names) /\ x.part \in Seq(Char)
      /\ Len(x.at) \in Nat /\ Len(x.part) \in Nat
      /\ d.at \in Seq(Names) /\ d.part \in Seq(Char)
  BY LenProperties DEF DirIds
<1>2. CASE y = Root
  <2>1. y # d
    BY <1>2
  <2>2. ~IsPrefix(Append(d.at, d.name), Root.at) \/ d.name = <<>>
    <3> SUFFICES ASSUME d.name # <<>> PROVE ~IsPrefix(Append(d.at, d.name), Root.at)
      OBVIOUS
    <3>1. d.name \in Names
      BY DEF DirIds, Names
    <3>2. Len(Append(d.at, d.name)) = Len(d.at) + 1 /\ Len(d.at) \in Nat
      BY <1>1, <3>1, AppendProperties, LenProperties
    <3>3. Len(Root.at) = 0
      BY EmptySeq DEF Root
    <3> QED BY <3>2, <3>3 DEF IsPrefix
  <2>3. ~IsPrefix(d.part, Root.part) \/ d.part = <<>>
    <3> SUFFICES ASSUME d.part # <<>> PROVE ~IsPrefix(d.part, Root.part)
      OBVIOUS
    <3>1. Len(d.part) \in Nat \ {0} /\ Len(Root.part) = 0
      BY <1>1, EmptySeq DEF Root
    <3> QED BY <3>1 DEF IsPrefix
  <2> QED BY <1>2, <2>1, <2>2, <2>3 DEF Below
<1>3. ASSUME NEW j \in 1..Len(x.at),
             y = [at |-> SubSeq(x.at, 1, j - 1), part |-> <<>>, name |-> x.at[j]]
      PROVE  Below(d, x)
  <2>1. j \in 0..Len(x.at) /\ j - 1 \in 0..Len(x.at) /\ 0 \in 0..j /\ 0 \in 0..(j - 1)
    BY <1>1
  <2>2. /\ IsPrefix(SubSeq(x.at, 1, j), x.at) /\ IsPrefix(SubSeq(x.at, 1, j - 1), x.at)
        /\ SubSeq(x.at, 1, j - 1) \in Seq(Names)
    BY <1>1, <2>1, Leading
  <2>3. CASE y = d
    <3>1. Append(d.at, d.name) = SubSeq(x.at, 1, j)
      BY <1>1, <1>3, <2>3, LeadingParts
    <3>2. d.part = <<>> /\ d.name \in Names
      BY <1>1, <1>3, <2>3, ElementOfSeq
    <3> QED BY <2>2, <3>1, <3>2 DEF Below, Names
  <2>4. CASE d.part = <<>> /\ d.name # <<>> /\ IsPrefix(Append(d.at, d.name), y.at)
    <3>1. Append(d.at, d.name) \in Seq(Names)
      BY <1>1, <2>4, AppendProperties DEF DirIds, Names
    <3>2. IsPrefix(Append(d.at, d.name), x.at)
      BY <1>1, <1>3, <2>2, <2>4, <3>1, PrefixTransitive
    <3> QED BY <2>4, <3>2 DEF Below
  <2>5. CASE d.part # <<>> /\ IsPrefix(d.part, y.part)
    <3>1. Len(d.part) \in Nat \ {0} /\ Len(y.part) = 0
      BY <1>1, <1>3, <2>5, EmptySeq
    <3> QED BY <2>5, <3>1 DEF IsPrefix
  <2> QED BY <2>3, <2>4, <2>5 DEF Below
<1>4. ASSUME NEW j \in 1..Len(x.part),
             y = [at |-> x.at, part |-> SubSeq(x.part, 1, j), name |-> <<>>]
      PROVE  Below(d, x)
  <2>1. j \in 0..Len(x.part) /\ 0 \in 0..j
    BY <1>1
  <2>2. /\ IsPrefix(SubSeq(x.part, 1, j), x.part)
        /\ SubSeq(x.part, 1, j) \in Seq(Char) /\ SubSeq(x.part, 1, j) # <<>>
    BY <1>1, <2>1, Leading, LeadingParts
  <2>3. CASE y = d
    <3>1. d.at = x.at /\ d.name = <<>> /\ d.part = SubSeq(x.part, 1, j)
      BY <1>4, <2>3
    <3> QED BY <2>2, <3>1 DEF Below
  <2>4. CASE d.part = <<>> /\ d.name # <<>> /\ IsPrefix(Append(d.at, d.name), y.at)
    BY <1>4, <2>4 DEF Below
  <2>5. CASE d.part # <<>> /\ d.name = <<>> /\ y.at = d.at /\ IsPrefix(d.part, y.part)
    <3>1. IsPrefix(d.part, x.part)
      BY <1>1, <1>4, <2>2, <2>5, PrefixTransitive
    <3> QED BY <1>4, <2>5, <3>1 DEF Below
  <2> QED BY <2>3, <2>4, <2>5 DEF Below
<1> QED BY <1>2, <1>3, <1>4, AncestorCases

LEMMA DeleteDirClosed ==
  ASSUME NEW T, T \subseteq DirIds, Closed(T), NEW d \in DirIds, d # Root
  PROVE  Closed(DeleteDir(T, d))
BY BelowUpward DEF Closed, DeleteDir

(* A put and a tree without missing parents leave one.                     *)
LEMMA LevelsAbove ==
  ASSUME NEW T, Closed(T), NEW P \in Seq(Names), NEW k \in Names,
         NEW i \in 1..Len(k), Place(P, k, i) \in T, NEW j \in 1..i
  PROVE  Level(P, k, j) \in T
<1>1. Level(P, k, j) \in ForceDirectories(T, Place(P, k, i))
  BY LevelsMade
<1> QED BY <1>1 DEF ForceDirectories, Closed

(* What is on a page needs the page's level.                               *)
LEMMA PageNeedsLevel ==
  ASSUME NEW T, T \subseteq DirIds, Closed(T), NEW P \in Seq(Names),
         NEW k \in Seq(Char), NEW i \in 0..Len(k),
         Page(T, P, SubSeq(k, 1, i)) # {}
  PROVE  Level(P, k, i) \in T
<1>1. PICK x \in T : x.at = P /\ x.part = SubSeq(k, 1, i)
  BY DEF Page
<1>2. CASE i = 0
  <2>1. Len(P) \in 0..Len(P) /\ SubSeq(P, 1, Len(P)) = P
    BY LenProperties, SubSeqFull
  <2>2. Plain(P) \in Ancestors(x)
    BY <1>1, <2>1 DEF Ancestors
  <2> QED BY <1>1, <1>2, <2>2 DEF Closed, Level
<1>3. CASE i # 0
  <2>1. i \in 1..Len(k) /\ Len(x.part) = i /\ i \in 1..i /\ i \in 0..i /\ i \in Nat
    BY <1>1, <1>3, Leading, LenProperties, 0 \in 0..i
  <2>2. SubSeq(x.part, 1, i) = SubSeq(k, 1, i)
    BY <1>1, <2>1, Leading
  <2>3. Level(x.at, x.part, i) = Level(P, k, i)
    BY <1>1, <1>3, <2>2 DEF Level
  <2>4. Level(x.at, x.part, i) \in Ancestors(x)
    BY <2>1 DEF Ancestors
  <2> QED BY <1>1, <2>3, <2>4 DEF Closed
<1> QED BY <1>2, <1>3

LEMMA AncestorsFinite ==
  ASSUME NEW d \in DirIds
  PROVE  IsFiniteSet(Ancestors(d))
<1>1. Len(d.at) \in Nat /\ Len(d.part) \in Nat
  BY LenProperties DEF DirIds
<1> DEFINE A == {Plain(SubSeq(d.at, 1, j)) : j \in 0..Len(d.at)}
           B == {Level(d.at, d.part, j) : j \in 1..Len(d.part)}
           f == [j \in 0..Len(d.at) |-> Plain(SubSeq(d.at, 1, j))]
           g == [j \in 1..Len(d.part) |-> Level(d.at, d.part, j)]
<1>2. f \in Surjection(0..Len(d.at), A) /\ g \in Surjection(1..Len(d.part), B)
  BY DEF Surjection
<1> HIDE DEF f, g, A, B
<1>3. IsFiniteSet(0..Len(d.at)) /\ IsFiniteSet(1..Len(d.part))
  <2>1. 0 \in Int /\ 1 \in Int /\ Len(d.at) \in Int /\ Len(d.part) \in Int
    BY <1>1
  <2> QED BY <2>1, FS_Interval
<1>4. IsFiniteSet(A) /\ IsFiniteSet(B)
  BY <1>2, <1>3, FS_Surjection
<1>5. IsFiniteSet(A \cup B)
  BY <1>4, FS_Union
<1> QED BY <1>5 DEF Ancestors, A, B

LEMMA ForceDirectoriesFinite ==
  ASSUME NEW T, IsFiniteSet(T), NEW d \in DirIds
  PROVE  IsFiniteSet(ForceDirectories(T, d))
<1>1. IsFiniteSet(T \cup Ancestors(d))
  BY AncestorsFinite, FS_Union
<1> QED BY <1>1, FS_AddElement DEF ForceDirectories

----------------------------------------------------------------------------
(* Keys and their directories.                                             *)

(* The key path a directory stands for.                                    *)
Owner(d) == Append(d.at, d.part \o d.name)

LEMMA PlaceOwner ==
  ASSUME NEW P \in Seq(Names), NEW k \in Names, NEW i \in 0..Len(k)
  PROVE  Owner(Place(P, k, i)) = Append(P, k)
<1>1. k \in Seq(Char) /\ Len(k) \in Nat /\ i \in Nat
  BY LenProperties DEF Names
<1>2. 1 \in 1..(Len(k) + 1) /\ i \in (1 - 1)..Len(k) /\ Len(k) \in i..Len(k)
  BY <1>1
<1>3. SubSeq(k, 1, i) \o SubSeq(k, i + 1, Len(k)) = SubSeq(k, 1, Len(k))
  BY <1>1, <1>2, ConcatAdjacentSubSeq
<1>4. SubSeq(k, 1, Len(k)) = k
  BY <1>1, SubSeqFull
<1> QED BY <1>3, <1>4 DEF Owner, Place

(* Two keys never share a directory, nor does one have two at a level.     *)
LEMMA PlaceInjective ==
  ASSUME NEW P \in Seq(Names), NEW k \in Names, NEW i \in 0..Len(k),
         NEW Q \in Seq(Names), NEW l \in Names, NEW j \in 0..Len(l),
         Place(P, k, i) = Place(Q, l, j)
  PROVE  P = Q /\ k = l /\ i = j
<1>1. Append(P, k) = Append(Q, l)
  BY PlaceOwner
<1>2. P = Q /\ k = l
  BY <1>1, AppendInjective
<1>3. i = j
  BY PlaceParts
<1> QED BY <1>2, <1>3

(* The lookup walk ends at the first level that ends it.                   *)
LEMMA LookupAt ==
  ASSUME NEW T, NEW P, NEW k \in Names, NEW i \in LookupEnds(T, P, k),
         \A j \in 1..(i - 1) : j \notin LookupEnds(T, P, k)
  PROVE  iIsKeyDirExists(T, P, k) = IF Level(P, k, i) \in T THEN Place(P, k, i) ELSE NoDir
<1> DEFINE E == LookupEnds(T, P, k)
<1>1. E \in SUBSET Nat /\ \A j \in E : j >= 1
  BY LenProperties DEF LookupEnds, Names
<1> HIDE DEF E
<1>2. Min(E) \in E /\ \A j \in E : Min(E) <= j
  BY <1>1, MinOfNats DEF E
<1>3. Min(E) \notin 1..(i - 1) /\ Min(E) <= i /\ Min(E) >= 1 /\ Min(E) \in Nat /\ i \in Nat
  BY <1>1, <1>2 DEF E
<1>4. Min(E) = i
  BY <1>3
<1> QED BY <1>4 DEF iIsKeyDirExists, E

LEMMA LookupEndsSomewhere ==
  ASSUME NEW T, NEW P, NEW k \in Names
  PROVE  \E i \in 1..Len(k) :
           /\ i \in LookupEnds(T, P, k)
           /\ \A j \in 1..(i - 1) : j \notin LookupEnds(T, P, k)
           /\ iIsKeyDirExists(T, P, k) = IF Level(P, k, i) \in T THEN Place(P, k, i) ELSE NoDir
<1> DEFINE E == LookupEnds(T, P, k)
<1>1. Len(k) \in Nat /\ Len(k) \in 1..Len(k)
  BY LenProperties, EmptySeq DEF Names
<1>2. Len(k) \in E
  BY <1>1, PlaceAtEnd DEF LookupEnds
<1>3. E \in SUBSET Nat /\ E \subseteq 1..Len(k)
  BY <1>1 DEF LookupEnds
<1> HIDE DEF E
<1>4. Min(E) \in E /\ \A j \in E : Min(E) <= j
  BY <1>2, <1>3, MinOfNats
<1>5. \A j \in 1..(Min(E) - 1) : j \notin E
  <2> SUFFICES ASSUME NEW j \in 1..(Min(E) - 1), j \in E PROVE FALSE
    OBVIOUS
  <2>1. Min(E) \in Nat /\ Min(E) <= j
    BY <1>3, <1>4
  <2>2. j \in Nat /\ j <= Min(E) - 1
    BY <2>1
  <2> QED BY <2>1, <2>2
<1>6. iIsKeyDirExists(T, P, k) = IF Level(P, k, Min(E)) \in T THEN Place(P, k, Min(E)) ELSE NoDir
  BY <1>4, <1>5, LookupAt DEF E
<1> QED BY <1>3, <1>4, <1>5, <1>6 DEF E

(* A lookup returns a directory of the key, or nothing.                    *)
LEMMA LookupResult ==
  ASSUME NEW T, NEW P, NEW k \in Names
  PROVE  \/ iIsKeyDirExists(T, P, k) = NoDir
         \/ \E i \in 1..Len(k) : /\ iIsKeyDirExists(T, P, k) = Place(P, k, i)
                                 /\ Place(P, k, i) \in T
BY LookupEndsSomewhere DEF LookupEnds

(* A lookup sees the key's levels and places only.                         *)
LEMMA LookupSame ==
  ASSUME NEW T, NEW U, NEW P, NEW k \in Names,
         \A i \in 1..Len(k) : /\ Level(P, k, i) \in T <=> Level(P, k, i) \in U
                              /\ Place(P, k, i) \in T <=> Place(P, k, i) \in U
  PROVE  iIsKeyDirExists(T, P, k) = iIsKeyDirExists(U, P, k)
<1>1. LookupEnds(T, P, k) = LookupEnds(U, P, k)
  BY DEF LookupEnds
<1>2. PICK i \in 1..Len(k) :
        /\ i \in LookupEnds(T, P, k)
        /\ \A j \in 1..(i - 1) : j \notin LookupEnds(T, P, k)
        /\ iIsKeyDirExists(T, P, k) = IF Level(P, k, i) \in T THEN Place(P, k, i) ELSE NoDir
  BY LookupEndsSomewhere
<1>3. iIsKeyDirExists(U, P, k) = IF Level(P, k, i) \in U THEN Place(P, k, i) ELSE NoDir
  BY <1>1, <1>2, LookupAt
<1> QED BY <1>2, <1>3

(* When a tree grows, but not by a place of the key, a lookup that found   *)
(* nothing may find a new level that has the key's name; else it stays.    *)
LEMMA LookupInGrown ==
  ASSUME NEW T, Closed(T), NEW U, T \subseteq U, NEW P \in Seq(Names), NEW k \in Names,
         \A i \in 1..(Len(k) - 1) : Place(P, k, i) \in U => Place(P, k, i) \in T
  PROVE  \/ iIsKeyDirExists(U, P, k) = iIsKeyDirExists(T, P, k)
         \/ /\ iIsKeyDirExists(T, P, k) = NoDir
            /\ iIsKeyDirExists(U, P, k) = Level(P, k, Len(k))
            /\ Level(P, k, Len(k)) \in U \ T
<1>1. Len(k) \in Nat /\ Len(k) >= 1
  BY LenProperties, EmptySeq DEF Names
<1>2. PICK e \in 1..Len(k) :
        /\ e \in LookupEnds(T, P, k)
        /\ \A j \in 1..(e - 1) : j \notin LookupEnds(T, P, k)
        /\ iIsKeyDirExists(T, P, k) = IF Level(P, k, e) \in T THEN Place(P, k, e) ELSE NoDir
  BY LookupEndsSomewhere
<1>3. PICK i \in 1..Len(k) :
        /\ i \in LookupEnds(U, P, k)
        /\ \A j \in 1..(i - 1) : j \notin LookupEnds(U, P, k)
        /\ iIsKeyDirExists(U, P, k) = IF Level(P, k, i) \in U THEN Place(P, k, i) ELSE NoDir
  BY LookupEndsSomewhere
<1>4. \A j \in 1..(e - 1) : Level(P, k, j) \in T /\ Place(P, k, j) \notin T /\ j \in 1..(Len(k) - 1)
  BY <1>1, <1>2 DEF LookupEnds
<1>5. \A j \in 1..(i - 1) : Level(P, k, j) \in U /\ Place(P, k, j) \notin U
  BY <1>1, <1>3 DEF LookupEnds
<1>6. CASE Level(P, k, e) \in T
  <2>1. Place(P, k, e) \in T
    BY <1>2, <1>6 DEF LookupEnds
  <2>2. ~(e \in 1..(i - 1))
    BY <1>5, <2>1
  <2>3. ~(i \in 1..(e - 1))
    <3> SUFFICES ASSUME i \in 1..(e - 1) PROVE FALSE
      OBVIOUS
    <3>1. Level(P, k, i) \in T /\ Place(P, k, i) \notin T /\ i \in 1..(Len(k) - 1)
      BY <1>4
    <3>2. Place(P, k, i) \in U
      BY <1>3, <3>1 DEF LookupEnds
    <3> QED BY <3>1, <3>2
  <2>4. e = i
    BY <1>1, <2>2, <2>3
  <2> QED BY <1>2, <1>3, <1>6, <2>4
<1>7. CASE Level(P, k, e) \notin T
  <2>1. iIsKeyDirExists(T, P, k) = NoDir
    BY <1>2, <1>7
  <2>2. ASSUME NEW n \in 1..Len(k), Place(P, k, n) \in T PROVE FALSE
    <3>1. ~(e \in 1..n)
      BY <1>7, <2>2, LevelsAbove
    <3>2. n \in 1..(e - 1)
      BY <1>1, <3>1
    <3> QED BY <1>4, <2>2, <3>2
  <2>3. CASE Level(P, k, i) \notin U
    BY <1>3, <2>1, <2>3
  <2>4. CASE Level(P, k, i) \in U
    <3>1. Place(P, k, i) \in U
      BY <1>3, <2>4 DEF LookupEnds
    <3>2. i \notin 1..(Len(k) - 1)
      BY <2>2, <3>1
    <3>3. i = Len(k)
      BY <1>1, <3>2
    <3>4. Place(P, k, i) = Level(P, k, Len(k))
      BY <3>3, PlaceAtEnd
    <3> QED BY <1>3, <2>1, <2>2, <2>4, <3>1, <3>4
  <2> QED BY <2>3, <2>4
<1> QED BY <1>6, <1>7

(* The levels before level i exist, are full and do not hold name k.       *)
FullTo(T, P, k, i, max) ==
  \A j \in 0..(i - 1) :
    /\ Level(P, k, j) \in T
    /\ Place(P, k, j) \notin T
    /\ ~(iSubkeyCount(T, P, SubSeq(k, 1, j)) < max)

(* A put that makes the directory of the key makes it where there is room: *)
(* in a new level, in one that is not full, or at the last level by force. *)
LEMMA PutHasRoom ==
  ASSUME NEW T, NEW P, NEW k \in Names, NEW max, NEW full,
         NEW d, d = iFindKeyDirToPut(T, P, k, max, full), d # NoDir, d \notin T
  PROVE  \E i \in 0..(Len(k) - 1) :
           /\ d = Place(P, k, i)
           /\ FullTo(T, P, k, i, max)
           /\ \/ Level(P, k, i) \notin T
              \/ iSubkeyCount(T, P, SubSeq(k, 1, i)) < max
              \/ full = dkIgnored /\ i = Len(k) - 1
<1> DEFINE L == PutLevels(T, P, k, max)
           Passed(j) == /\ Level(P, k, j) \in T
                        /\ Place(P, k, j) \notin T
                        /\ ~(iSubkeyCount(T, P, SubSeq(k, 1, j)) < max)
<1>1. Len(k) \in Nat /\ Len(k) >= 1 /\ 0 \in 0..(Len(k) - 1) /\ Len(k) - 1 \in 0..(Len(k) - 1)
  BY EmptySeq, LenProperties DEF Names
<1>2. SubSeq(k, 1, 0) = <<>> /\ Level(P, k, 0) = Plain(P)
  BY SubSeqEmpty DEF Level
<1>3. \A j \in 1..(Len(k) - 1) : j \notin L => Passed(j)
  BY DEF PutLevels, PutStops
<1>4. CASE ~Passed(0)
  <2>1. d = Place(P, k, 0)
    BY <1>2, <1>4 DEF iFindKeyDirToPut
  <2>2. Level(P, k, 0) \notin T \/ iSubkeyCount(T, P, SubSeq(k, 1, 0)) < max
    BY <1>4, <2>1
  <2>3. \A j \in 0..(0 - 1) : FALSE
    OBVIOUS
  <2> QED BY <1>1, <2>1, <2>2, <2>3 DEF FullTo
<1>5. CASE Passed(0)
  <2>1. CASE L # {}
    <3> PICK m : m = Min(L)
      OBVIOUS
    <3>1. d = Place(P, k, m)
      BY <1>2, <1>5, <2>1 DEF iFindKeyDirToPut
    <3>2. L \in SUBSET Nat /\ L \subseteq 1..(Len(k) - 1)
      BY <1>1 DEF PutLevels
    <3> HIDE DEF L
    <3>3. m \in L /\ \A y \in L : m <= y
      BY <2>1, <3>2, MinOfNats
    <3>4. PutStops(T, P, k, m, max)
      BY <3>3 DEF L, PutLevels
    <3> HIDE DEF Passed
    <3>5. m \in 1..(Len(k) - 1) /\ m \in Nat
      BY <3>2, <3>3
    <3>6. ASSUME NEW j \in 0..(m - 1) PROVE Passed(j)
      <4>1. j \notin L
        BY <3>2, <3>3, <3>5
      <4>2. j = 0 \/ j \in 1..(Len(k) - 1)
        BY <1>1, <3>5
      <4> QED BY <1>3, <1>5, <4>1, <4>2
    <3>7. m \in 0..(Len(k) - 1)
      BY <1>1, <3>5
    <3>8. Level(P, k, m) \notin T \/ iSubkeyCount(T, P, SubSeq(k, 1, m)) < max
      BY <3>1, <3>4 DEF PutStops
    <3> QED BY <3>1, <3>6, <3>7, <3>8 DEF Passed, FullTo
  <2>2. CASE L = {}
    <3>1. d = IF full = dkIgnored THEN Place(P, k, Len(k) - 1)
              ELSE IF full = dkStopped THEN NoDir ELSE Level(P, k, Len(k) - 1)
      BY <1>2, <1>5, <2>2 DEF iFindKeyDirToPut, dkIgnored, dkStopped
    <3> HIDE DEF Passed, L
    <3>2. \A j \in 0..(Len(k) - 1) : Passed(j)
      <4>1. \A j \in 0..(Len(k) - 1) : j = 0 \/ j \in 1..(Len(k) - 1)
        BY <1>1
      <4> QED BY <1>3, <1>5, <2>2, <4>1
    <3>3. d # Level(P, k, Len(k) - 1)
      BY <1>1, <3>2 DEF Passed
    <3>4. \A j \in 0..(Len(k) - 1 - 1) : j \in 0..(Len(k) - 1)
      BY <1>1
    <3>5. d = Place(P, k, Len(k) - 1) /\ full = dkIgnored
      BY <3>1, <3>3
    <3>6. \A j \in 0..(Len(k) - 1 - 1) : Passed(j)
      BY <3>2, <3>4
    <3> QED BY <1>1, <3>5, <3>6 DEF Passed, FullTo
  <2> QED BY <2>1, <2>2
<1> QED BY <1>4, <1>5

(* What is made with a directory, but for the directory itself: levels,    *)
(* and directories of keys its parent key begins with.                     *)
LEMMA MadeAbove ==
  ASSUME NEW d \in DirIds, NEW y \in Ancestors(d), y.name # <<>>
  PROVE  /\ y.part = <<>>
         /\ y.at # d.at
         /\ \E j \in 1..Len(d.at) : Append(y.at, y.name) = SubSeq(d.at, 1, j)
<1>1. d.at \in Seq(Names) /\ Len(d.at) \in Nat
  BY LenProperties DEF DirIds
<1>2. PICK j \in 1..Len(d.at) :
        y = [at |-> SubSeq(d.at, 1, j - 1), part |-> <<>>, name |-> d.at[j]]
  BY AncestorCases DEF Root
<1>3. Append(y.at, y.name) = SubSeq(d.at, 1, j)
  BY <1>1, <1>2, LeadingParts
<1>4. Len(y.at) = j - 1
  <2>1. j - 1 \in 0..Len(d.at) /\ 0 \in 0..(j - 1)
    BY <1>1
  <2> QED BY <1>1, <1>2, <2>1, Leading
<1>5. y.at # d.at
  BY <1>1, <1>4
<1> QED BY <1>2, <1>3, <1>5
=============================================================================
