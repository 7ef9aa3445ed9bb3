------------------------ MODULE StoreAnswers_proofs ------------------------
(***************************************************************************)
(* Proofs about what the processes on one store answer: what a call that   *)
(* nobody disturbs finds, and what stays of a put that has succeeded,      *)
(* while other processes make and remove directories around it.            *)
(*                                                                         *)
(* The invariant is Whole.  It joins what StoreProcs_proofs knows of the   *)
(* tree and the inodes (Provenanced) with what the calls know of each      *)
(* other (Promises) and of the tree (Known): KeyKnows says what lookups    *)
(* find of a key between the calls on it, PutKnows, GetKnows and           *)
(* DeleteKnows what a call under way has learned and may rely on while     *)
(* nobody disturbs it.  A step of one call is followed in three ways: in   *)
(* the call itself, one lemma per operation; in the other calls and the    *)
(* keys it does not change, which see no directory come or go that they    *)
(* look at; and in the key it does change.                                 *)
(***************************************************************************)
EXTENDS StoreProcs_proofs

----------------------------------------------------------------------------
(* Where a key can be, and whose a directory is.                           *)

\* The directory of key k after i partition levels, and how many there can be.
Spot(k, i) == Place(Front(k), Last(k), i)
Depths(k)  == 0..(Len(Last(k)) - 1)

\* The key path of a directory; a partition level counts for its parent key.
PathOf(d) == IF d.name = <<>> THEN d.at ELSE Owner(d)

\* No directory but the root has neither name nor level.
Proper(d) == d \in DirIds /\ (d.name # <<>> \/ d.part # <<>>)

LEMMA SpotFacts ==
  ASSUME NEW k \in Keys, NEW i \in Depths(k)
  PROVE  /\ i \in Nat /\ i \in 0..Len(Last(k)) /\ i < Len(Last(k))
         /\ Spot(k, i) \in DirIds /\ Proper(Spot(k, i))
         /\ Spot(k, i).at = Front(k) /\ Spot(k, i).part = SubSeq(Last(k), 1, i)
         /\ Len(Spot(k, i).part) = i
         /\ Spot(k, i).name # <<>>
         /\ Owner(Spot(k, i)) = k /\ PathOf(Spot(k, i)) = k
<1>1. Len(Last(k)) \in Nat \ {0} /\ Last(k) \in Names
  BY KeyParts
<1>2. i \in Nat /\ i \in 0..Len(Last(k)) /\ i < Len(Last(k)) /\ i # Len(Last(k))
  BY <1>1 DEF Depths
<1>3. /\ Spot(k, i) \in DirIds
      /\ Owner(Spot(k, i)) = k
      /\ Spot(k, i).name # <<>>
  BY <1>2, PlaceOf DEF Spot
<1>4. /\ Spot(k, i).at = Front(k) /\ Spot(k, i).part = SubSeq(Last(k), 1, i)
      /\ Len(Spot(k, i).part) = i
  BY <1>1, <1>2, PlaceParts DEF Spot
<1> QED BY <1>2, <1>3, <1>4 DEF PathOf, Proper

LEMMA SpotInjective ==
  ASSUME NEW k \in Keys, NEW i \in Depths(k), NEW j \in Keys, NEW n \in Depths(j),
         Spot(k, i) = Spot(j, n)
  PROVE  k = j /\ i = n
<1>1. Owner(Spot(k, i)) = k /\ Owner(Spot(j, n)) = j
      /\ Len(Spot(k, i).part) = i /\ Len(Spot(j, n).part) = n
  BY SpotFacts
<1> QED BY <1>1

LEMMA PathType ==
  ASSUME NEW d, Proper(d)
  PROVE  /\ PathOf(d) \in Seq(Names) /\ d.at \in Seq(Names)
         /\ IsPrefix(d.at, PathOf(d))
         /\ d.name # <<>> => Len(PathOf(d)) = Len(d.at) + 1
<1>1. d.at \in Seq(Names) /\ d.part \in Seq(Char) /\ d.name \in Seq(Char)
  BY DEF Proper, DirIds
<1>2. CASE d.name = <<>>
  BY <1>1, <1>2, PrefixReflexive DEF PathOf
<1>3. CASE d.name # <<>>
  <2> DEFINE x == d.part \o d.name
  <2>1. x \in Seq(Char) /\ Len(x) = Len(d.part) + Len(d.name)
    BY <1>1, ConcatProperties
  <2>2. Len(d.part) \in Nat /\ Len(d.name) \in Nat \ {0}
    BY <1>1, <1>3, LenProperties, EmptySeq
  <2>3. x \in Names
    BY <2>1, <2>2, EmptySeq DEF Names
  <2> HIDE DEF x
  <2>4. /\ Append(d.at, x) \in Seq(Names)
        /\ Len(Append(d.at, x)) = Len(d.at) + 1
        /\ \A i \in 1..Len(d.at) : Append(d.at, x)[i] = d.at[i]
    BY <1>1, <2>3, AppendProperties
  <2>5. IsPrefix(d.at, Append(d.at, x))
    <3>1. Append(d.at, x) = d.at \o <<x>> /\ <<x>> \in Seq(Names) /\ Len(d.at) \in Nat
      BY <1>1, <2>3, AppendIsConcat, LenProperties
    <3>2. SubSeq(d.at \o <<x>>, 1, Len(d.at)) = d.at
      BY <1>1, <3>1, ConcatSimplifications, SubSeqOfConcat1, SubSeqFull
    <3> QED BY <1>1, <2>4, <3>1, <3>2, SubSeqFull DEF IsPrefix
  <2> QED BY <1>1, <1>3, <2>4, <2>5 DEF PathOf, Owner, x
<1> QED BY <1>2, <1>3

LEMMA PlainPath ==
  ASSUME NEW Q \in Seq(Names)
  PROVE  PathOf(Plain(Q)) = Q
<1>1. CASE Q = <<>>
  BY <1>1 DEF Plain, Root, PathOf
<1>2. CASE Q # <<>>
  <2>1. /\ Plain(Q) = [at |-> Front(Q), part |-> <<>>, name |-> Last(Q)]
        /\ Last(Q) # <<>> /\ Last(Q) \in Seq(Char)
    BY <1>2, PlainParts DEF Names
  <2>2. <<>> \o Last(Q) = Last(Q)
    BY <2>1, ConcatEmptySeq
  <2>3. Append(Front(Q), Last(Q)) = Q
    BY <1>2, AppendFrontLast
  <2> QED BY <2>1, <2>2, <2>3 DEF PathOf, Owner
<1> QED BY <1>1, <1>2

LEMMA LevelOfLeading ==
  ASSUME NEW P, NEW l \in Seq(Char), NEW i \in 0..Len(l), NEW j \in 0..i
  PROVE  Level(P, SubSeq(l, 1, i), j) = Level(P, l, j)
<1>1. SubSeq(SubSeq(l, 1, i), 1, j) = SubSeq(l, 1, j)
  BY Leading
<1> QED BY <1>1 DEF Level

(* What is directly above a directory.                                     *)
LEMMA UpSpot ==
  ASSUME NEW k \in Keys, NEW i \in Depths(k)
  PROVE  Up(Spot(k, i)) = Level(Front(k), Last(k), i)
<1> DEFINE d == Spot(k, i)
<1>1. /\ d.at = Front(k) /\ d.part = SubSeq(Last(k), 1, i) /\ Len(d.part) = i
      /\ d.name # <<>> /\ i \in 0..Len(Last(k)) /\ i \in Nat
  BY SpotFacts
<1>2. Up(d) = Level(Front(k), SubSeq(Last(k), 1, i), i)
  BY <1>1 DEF Up
<1>3. Last(k) \in Seq(Char) /\ i \in 0..i
  BY <1>1, KeyParts
<1> QED BY <1>1, <1>2, <1>3, LevelOfLeading

LEMMA UpLevel ==
  ASSUME NEW P \in Seq(Names), NEW l \in Seq(Char), NEW n \in 1..Len(l)
  PROVE  Up(Level(P, l, n)) = Level(P, l, n - 1)
<1>1. /\ Level(P, l, n) = [at |-> P, part |-> SubSeq(l, 1, n), name |-> <<>>]
      /\ Len(SubSeq(l, 1, n)) = n
  BY LevelParts
<1>2. Up(Level(P, l, n)) = Level(P, SubSeq(l, 1, n), n - 1)
  BY <1>1 DEF Up
<1>3. n \in 0..Len(l) /\ n - 1 \in 0..n
  BY LenProperties
<1> QED BY <1>2, <1>3, LevelOfLeading

LEMMA UpPlain ==
  ASSUME NEW Q \in Seq(Names), Q # <<>>
  PROVE  Up(Plain(Q)) = Plain(Front(Q))
<1>1. /\ Plain(Q) = [at |-> Front(Q), part |-> <<>>, name |-> Last(Q)]
      /\ Last(Q) # <<>>
  BY PlainParts
<1>2. Up(Plain(Q)) = Level(Front(Q), <<>>, Len(<<>>))
  BY <1>1 DEF Up
<1>3. Len(<<>>) = 0
  OBVIOUS
<1> QED BY <1>2, <1>3 DEF Level

LEMMA UpPath ==
  ASSUME NEW x, Proper(x)
  PROVE  PathOf(Up(x)) = x.at
<1>1. /\ x.at \in Seq(Names) /\ x.part \in Seq(Char) /\ Len(x.part) \in Nat
      /\ x.part # <<>> => Len(x.part) # 0
  BY LenProperties, EmptySeq DEF Proper, DirIds
<1> DEFINE n == IF x.name = <<>> THEN Len(x.part) - 1 ELSE Len(x.part)
<1>2. n \in 0..Len(x.part)
  BY <1>1 DEF Proper
<1>3. Up(x) = Level(x.at, x.part, n)
  BY DEF Up
<1> HIDE DEF n
<1>4. CASE n = 0
  BY <1>1, <1>3, <1>4, PlainPath DEF Level
<1>5. CASE n # 0
  <2>1. n \in 1..Len(x.part)
    BY <1>1, <1>2, <1>5
  <2>2. PICK P, l : P = x.at /\ l = x.part
    OBVIOUS
  <2>3. Level(P, l, n) = [at |-> P, part |-> SubSeq(l, 1, n), name |-> <<>>]
    BY <1>1, <2>1, <2>2, LevelParts
  <2> QED BY <1>3, <2>2, <2>3 DEF PathOf
<1> QED BY <1>4, <1>5

(* What is above a directory on the way to a key is on that way, and what  *)
(* a key's directory holds is below the key.                               *)
LEMMA UpOnWay ==
  ASSUME NEW x, Proper(x), NEW k \in Keys, IsPrefix(PathOf(x), k)
  PROVE  IsPrefix(PathOf(Up(x)), k)
<1>1. PathOf(x) \in Seq(Names) /\ x.at \in Seq(Names) /\ IsPrefix(x.at, PathOf(x))
  BY PathType
<1>2. k \in Seq(Names)
  BY KeyParts
<1> QED BY <1>1, <1>2, UpPath, PrefixTransitive

LEMMA InsideIsBelow ==
  ASSUME NEW x, Proper(x), NEW k \in Keys, IsPrefix(k, PathOf(Up(x)))
  PROVE  IsPrefix(k, x.at) /\ IsPrefix(k, PathOf(x))
<1>1. PathOf(x) \in Seq(Names) /\ x.at \in Seq(Names) /\ IsPrefix(x.at, PathOf(x))
  BY PathType
<1>2. k \in Seq(Names)
  BY KeyParts
<1>3. IsPrefix(k, x.at)
  BY UpPath
<1> QED BY <1>1, <1>2, <1>3, PrefixTransitive

(* Of two paths that lead to the same directory one leads to the other.    *)
LEMMA PrefixesMeet ==
  ASSUME NEW s \in Seq(Names), NEW t \in Seq(Names), NEW u \in Seq(Names),
         IsPrefix(s, u), IsPrefix(t, u)
  PROVE  IsPrefix(s, t) \/ IsPrefix(t, s)
<1>1. /\ Len(s) \in 0..Len(u) /\ s = SubSeq(u, 1, Len(s))
      /\ Len(t) \in 0..Len(u) /\ t = SubSeq(u, 1, Len(t))
      /\ Len(s) \in Nat /\ Len(t) \in Nat
  BY PrefixIsLeading, LenProperties
<1>2. CASE Len(s) <= Len(t)
  <2>1. Len(s) \in 0..Len(t)
    BY <1>1, <1>2
  <2>2. SubSeq(SubSeq(u, 1, Len(t)), 1, Len(s)) = SubSeq(u, 1, Len(s))
    BY <1>1, <2>1, Leading
  <2>3. s = SubSeq(t, 1, Len(s))
    BY <1>1, <2>2
  <2> QED BY <2>1, <2>3, PrefixIsLeading
<1>3. CASE Len(t) <= Len(s)
  <2>1. Len(t) \in 0..Len(s)
    BY <1>1, <1>3
  <2>2. SubSeq(SubSeq(u, 1, Len(s)), 1, Len(t)) = SubSeq(u, 1, Len(t))
    BY <1>1, <2>1, Leading
  <2>3. t = SubSeq(s, 1, Len(t))
    BY <1>1, <2>2
  <2> QED BY <2>1, <2>3, PrefixIsLeading
<1> QED BY <1>1, <1>2, <1>3

(* A key's directory after i levels has all of these levels above it.      *)
LEMMA LevelsOfSpot ==
  ASSUME TreeOK, NEW k \in Keys, NEW i \in Depths(k), Spot(k, i) \in dirs,
         NEW n \in 1..i
  PROVE  Level(Front(k), Last(k), n) \in dirs
<1> DEFINE L(m) == Level(Front(k), Last(k), m)
           S == {m \in Nat : n <= m /\ m <= i /\ L(m) \in dirs}
<1>1. /\ Front(k) \in Seq(Names) /\ Last(k) \in Seq(Char) /\ Len(Last(k)) \in Nat
      /\ i \in Nat /\ i < Len(Last(k)) /\ n \in Nat /\ n >= 1 /\ n <= i
  BY KeyParts, SpotFacts
<1>2. \A m \in 1..i : L(m) # Root
  <2> SUFFICES ASSUME NEW m \in 1..i PROVE L(m) # Root
    OBVIOUS
  <2>1. m \in 1..Len(Last(k))
    BY <1>1
  <2>2. PICK P, l : P = Front(k) /\ l = Last(k)
    OBVIOUS
  <2>3. /\ Level(P, l, m) = [at |-> P, part |-> SubSeq(l, 1, m), name |-> <<>>]
        /\ SubSeq(l, 1, m) # <<>>
    BY <1>1, <2>1, <2>2, LevelParts
  <2> QED BY <2>2, <2>3 DEF Root
<1>3. i \in S
  <2>1. Up(Spot(k, i)) = L(i)
    BY UpSpot
  <2>2. L(i) \in dirs \cup {Root}
    BY <2>1 DEF TreeOK
  <2> QED BY <1>1, <1>2, <2>2
<1>4. ASSUME NEW m \in S, m > n PROVE m - 1 \in S
  <2>1. m \in 1..Len(Last(k)) /\ m - 1 \in 1..i /\ m - 1 \in Nat /\ m - 1 >= n /\ m - 1 <= i
    BY <1>1, <1>4
  <2>2. Up(L(m)) = L(m - 1)
    BY <1>1, <2>1, UpLevel
  <2>3. L(m - 1) \in dirs \cup {Root}
    BY <1>4, <2>2 DEF TreeOK
  <2> QED BY <1>2, <2>1, <2>3
<1>5. S \in SUBSET Nat /\ S # {}
  BY <1>3
<1> HIDE DEF S
<1>6. PICK m \in S : \A y \in S : m <= y
  BY <1>5, MinOfNats
<1>7. m = n
  <2>1. m \in Nat /\ m >= n
    BY <1>6 DEF S
  <2>2. m > n => m - 1 \in S
    BY <1>4
  <2>3. m > n => m <= m - 1
    BY <1>6, <2>2
  <2> QED BY <1>1, <2>1, <2>3
<1> QED BY <1>7 DEF S

----------------------------------------------------------------------------
(* The way to a key's directory, as ForceDirectories makes it.             *)

\* What do_mkdir makes after m others on the way to Spot(k, i).
WayTo(k, i, m) ==
  LET P == Front(k)
      n == m + 1 - Len(P)
  IN  IF n <= 0 THEN Plain(SubSeq(P, 1, m + 1))
      ELSE IF n <= i THEN Level(P, Last(k), n) ELSE Spot(k, i)

LEMMA WayFacts ==
  ASSUME NEW k \in Keys, NEW i \in Depths(k), NEW m \in Nat
  PROVE  /\ Proper(WayTo(k, i, m))
         /\ IsPrefix(PathOf(WayTo(k, i, m)), k)
         /\ WayTo(k, i, m) # Spot(k, i) =>
              /\ m < Len(Front(k)) + i
              /\ \A j \in Keys : \A e \in Depths(j) : e > 0 => WayTo(k, i, m) # Spot(j, e)
              /\ Up(WayTo(k, i, m + 1)) = WayTo(k, i, m)
         /\ Up(WayTo(k, i, 0)) = Root
<1> DEFINE d == WayTo(k, i, m)
<1>0. PICK P \in Seq(Names), l \in Names : P = Front(k) /\ l = Last(k)
  BY KeyParts
<1>1. /\ k \in Seq(Names) /\ Len(k) \in Nat /\ k # <<>>
      /\ l \in Seq(Char) /\ Len(l) \in Nat
      /\ i \in Nat /\ i < Len(l) /\ i \in 0..Len(l)
      /\ Len(P) \in Nat /\ Len(P) = Len(k) - 1
      /\ PathOf(Spot(k, i)) = k /\ Proper(Spot(k, i)) /\ Spot(k, i).name # <<>>
      /\ \A j \in Keys : \A e \in Depths(j) : Len(Spot(j, e).part) = e /\ Spot(j, e).name # <<>>
      /\ Up(Spot(k, i)) = Level(P, l, i)
  BY <1>0, KeyParts, SpotFacts, UpSpot, FrontLast, LenProperties
<1>2. IsPrefix(P, k) /\ IsPrefix(k, k)
  <2>1. P = SubSeq(k, 1, Len(k) - 1)
    BY <1>0 DEF Front
  <2>2. Len(k) - 1 \in 0..Len(k) /\ 0 \in 0..(Len(k) - 1)
    BY <1>1
  <2> QED BY <1>1, <2>1, <2>2, Leading, PrefixReflexive
<1>3. \A x \in Nat : WayTo(k, i, x) = IF x + 1 - Len(P) <= 0 THEN Plain(SubSeq(P, 1, x + 1))
                                      ELSE IF x + 1 - Len(P) <= i THEN Level(P, l, x + 1 - Len(P))
                                      ELSE Spot(k, i)
  BY <1>0 DEF WayTo
<1>4. Level(P, l, 0) = Plain(P)
  BY DEF Level
<1>5. ASSUME NEW j \in 1..Len(P)
      PROVE  /\ SubSeq(P, 1, j) \in Seq(Names) /\ SubSeq(P, 1, j) # <<>>
             /\ Front(SubSeq(P, 1, j)) = SubSeq(P, 1, j - 1)
             /\ Len(SubSeq(P, 1, j)) = j /\ IsPrefix(SubSeq(P, 1, j), k)
             /\ Up(Plain(SubSeq(P, 1, j))) = Plain(SubSeq(P, 1, j - 1))
             /\ PathOf(Plain(SubSeq(P, 1, j))) = SubSeq(P, 1, j)
             /\ Proper(Plain(SubSeq(P, 1, j))) /\ Plain(SubSeq(P, 1, j)).part = <<>>
  <2>1. j \in 0..Len(P) /\ 0 \in 0..j
    BY <1>1
  <2>2. /\ SubSeq(P, 1, j) \in Seq(Names) /\ Len(SubSeq(P, 1, j)) = j
        /\ IsPrefix(SubSeq(P, 1, j), P)
    BY <2>1, Leading
  <2>3. SubSeq(P, 1, j) # <<>> /\ Front(SubSeq(P, 1, j)) = SubSeq(P, 1, j - 1)
    BY LeadingParts
  <2>4. IsPrefix(SubSeq(P, 1, j), k)
    BY <1>1, <1>2, <2>2, PrefixTransitive
  <2> DEFINE Q == SubSeq(P, 1, j)
  <2>5. /\ Plain(Q) = [at |-> Front(Q), part |-> <<>>, name |-> Last(Q)]
        /\ Last(Q) # <<>>
    BY <2>2, <2>3, PlainParts
  <2>6. Plain(Q) \in DirIds /\ PathOf(Plain(Q)) = Q
    BY <2>2, PlainType, PlainPath
  <2>7. Up(Plain(Q)) = Plain(SubSeq(P, 1, j - 1))
    BY <2>2, <2>3, UpPlain
  <2> QED BY <2>2, <2>3, <2>4, <2>5, <2>6, <2>7 DEF Proper
<1>6. ASSUME NEW n \in 1..Len(l)
      PROVE  /\ Proper(Level(P, l, n)) /\ PathOf(Level(P, l, n)) = P
             /\ Level(P, l, n).name = <<>>
             /\ Up(Level(P, l, n)) = Level(P, l, n - 1)
  <2>1. /\ Level(P, l, n) = [at |-> P, part |-> SubSeq(l, 1, n), name |-> <<>>]
        /\ SubSeq(l, 1, n) # <<>>
    BY <1>1, LevelParts
  <2>2. n \in 0..Len(l)
    BY <1>1
  <2>3. Level(P, l, n) \in DirIds /\ Up(Level(P, l, n)) = Level(P, l, n - 1)
    BY <1>1, <2>2, LevelType, UpLevel
  <2> QED BY <2>1, <2>3 DEF Proper, PathOf
<1>7. Plain(SubSeq(P, 1, 0)) = Root /\ SubSeq(P, 1, Len(P)) = P
  BY SubSeqEmpty, SubSeqFull DEF Plain
<1>8. Up(WayTo(k, i, 0)) = Root
  <2>1. CASE Len(P) > 0
    <3>1. WayTo(k, i, 0) = Plain(SubSeq(P, 1, 1)) /\ 1 \in 1..Len(P)
      BY <1>1, <1>3, <2>1
    <3> QED BY <1>5, <1>7, <3>1
  <2>2. CASE Len(P) = 0
    <3>1. P = <<>> /\ Plain(P) = Root
      BY <2>2, EmptySeq DEF Plain
    <3>2. CASE i = 0
      <4>0. 0 \in Nat /\ 0 + 1 - Len(P) = 1 /\ ~(1 <= 0) /\ ~(1 <= i)
        BY <2>2, <3>2
      <4>1. WayTo(k, i, 0) = Spot(k, i)
        BY <1>3, <4>0
      <4> QED BY <1>1, <1>4, <3>1, <3>2, <4>1
    <3>3. CASE i # 0
      <4>a. i \in Nat
        BY <1>1
      <4>b. 1 <= i
        BY <3>3, <4>a
      <4>0. 0 \in Nat /\ 0 + 1 - Len(P) = 1 /\ ~(1 <= 0) /\ 1 <= i
        BY <2>2, <4>b
      <4>1. WayTo(k, i, 0) = Level(P, l, 1)
        <5>1. PICK n : n = 0 + 1 - Len(P)
          OBVIOUS
        <5>2. WayTo(k, i, 0) = Level(P, l, n)
          BY <1>3, <4>0, <5>1
        <5> QED BY <4>0, <5>1, <5>2
      <4>2. 1 \in 1..Len(l)
        BY <1>1, <4>b
      <4>3. Up(Level(P, l, 1)) = Level(P, l, 1 - 1)
        BY <1>6, <4>2
      <4> QED BY <1>4, <3>1, <4>1, <4>3, 1 - 1 = 0
    <3> QED BY <3>2, <3>3
  <2> QED BY <1>1, <2>1, <2>2
<1>9. CASE m + 1 <= Len(P)
  <2>1. d = Plain(SubSeq(P, 1, m + 1)) /\ m + 1 \in 1..Len(P) /\ m + 1 \in Nat
    BY <1>1, <1>3, <1>9
  <2>2. d # Spot(k, i)
    BY <1>1, <1>5, <1>9, <2>1
  <2>3. \A j \in Keys : \A e \in Depths(j) : e > 0 => d # Spot(j, e)
    <3>1. Len(d.part) = 0
      BY <1>5, <2>1
    <3> HIDE DEF d
    <3> QED BY <1>1, <3>1
  <2>4. Up(WayTo(k, i, m + 1)) = d
    <3>1. CASE m + 2 <= Len(P)
      <4>1. WayTo(k, i, m + 1) = Plain(SubSeq(P, 1, m + 2)) /\ m + 2 \in 1..Len(P)
        BY <1>1, <1>3, <3>1, m + 1 \in Nat, m + 1 + 1 = m + 2
      <4>2. m + 2 - 1 = m + 1
        OBVIOUS
      <4> QED BY <1>5, <2>1, <4>1, <4>2
    <3>2. CASE m + 1 = Len(P)
      <4>1. d = Level(P, l, 0)
        BY <1>4, <1>7, <2>1, <3>2
      <4>2. CASE i = 0
        <5>1. WayTo(k, i, m + 1) = Spot(k, i)
          BY <1>1, <1>3, <3>2, <4>2, m + 1 \in Nat
        <5> QED BY <1>1, <4>1, <4>2, <5>1
      <4>3. CASE i # 0
        <5>1. WayTo(k, i, m + 1) = Level(P, l, 1) /\ 1 \in 1..Len(l)
          BY <1>1, <1>3, <3>2, <4>3, m + 1 \in Nat
        <5> QED BY <1>6, <4>1, <5>1
      <4> QED BY <4>2, <4>3
    <3> QED BY <1>1, <1>9, <3>1, <3>2
  <2>5. m < Len(P) + i
    BY <1>1, <1>9
  <2> QED BY <1>0, <1>5, <1>8, <2>1, <2>2, <2>3, <2>4, <2>5
<1>10. CASE ~(m + 1 <= Len(P)) /\ m + 1 - Len(P) <= i
  <2> DEFINE n == m + 1 - Len(P)
  <2>0. n \in 1..Len(l) /\ n <= i /\ n \in Nat /\ ~(n <= 0)
    BY <1>1, <1>10
  <2>1. d = Level(P, l, n) /\ n \in 1..Len(l) /\ n <= i /\ n \in Nat
    BY <1>3, <2>0
  <2>2. d.name = <<>>
    BY <1>6, <2>1
  <2>3. \A j \in Keys : \A e \in Depths(j) : d # Spot(j, e)
    BY <1>1, <2>2
  <2>4. m < Len(P) + i
    BY <1>1, <1>10
  <2>5. Up(WayTo(k, i, m + 1)) = d
    <3>1. CASE n + 1 <= i
      <4>1. WayTo(k, i, m + 1) = Level(P, l, n + 1) /\ n + 1 \in 1..Len(l)
        <5>1. m + 1 \in Nat /\ m + 1 + 1 - Len(P) = n + 1
          BY <1>1
        <5> HIDE DEF n
        <5>2. ~(n + 1 <= 0) /\ n + 1 \in 1..Len(l)
          BY <1>1, <2>1, <3>1
        <5> QED BY <1>3, <3>1, <5>1, <5>2
      <4>2. n + 1 - 1 = n
        BY <1>1
      <4> QED BY <1>6, <2>1, <4>1, <4>2
    <3>2. CASE n = i
      <4>1. WayTo(k, i, m + 1) = Spot(k, i)
        BY <1>1, <1>3, <1>10, <3>2, m + 1 \in Nat
      <4> QED BY <1>1, <2>1, <3>2, <4>1
    <3> QED BY <1>1, <2>1, <3>1, <3>2
  <2>6. Proper(d) /\ IsPrefix(PathOf(d), k)
    BY <1>2, <1>6, <2>1
  <2> QED BY <1>0, <1>8, <2>3, <2>4, <2>5, <2>6
<1>11. CASE ~(m + 1 <= Len(P)) /\ ~(m + 1 - Len(P) <= i)
  <2>1. d = Spot(k, i)
    BY <1>1, <1>3, <1>11
  <2> QED BY <1>1, <1>2, <1>8, <2>1
<1> QED BY <1>9, <1>10, <1>11

----------------------------------------------------------------------------
(* The inductive invariant: what the calls know, and what is known of a    *)
(* key between the calls on it.                                            *)

Putting(q, k)  == proc[q] # Idle /\ proc[q].op = "iPut" /\ proc[q].key = k
Removing(q, k) == proc[q] # Idle /\ Removes(proc[q].op, proc[q].key, k)

\* A lookup that has come to level n has passed no value of the key, and
\* beyond level 0 no directory of it.
Passed(k, n) == /\ n > 0 => Spot(k, 0) \notin DOMAIN file
                /\ \A j \in 1..(n - 1) : Spot(k, j) \notin dirs

\* A lookup of the key ends at level i and finds v; it finds v somewhere.
WrittenAt(k, i, v) == /\ Spot(k, i) \in DOMAIN file
                      /\ data[file[Spot(k, i)]] = v
                      /\ Passed(k, i)
Written(k, v) == \E i \in Depths(k) : WrittenAt(k, i, v)
Unwritten(k)  == \A i \in Depths(k) : Spot(k, i) \notin DOMAIN file

\* Each call has heard of the others that are under way.
Heard == \A p, q \in Procs :
  p # q /\ proc[p] # Idle /\ proc[q] # Idle =>
    /\ proc[p].alone => ~Disturbs(proc[q].op, proc[q].key, proc[p])
    /\ proc[p].kept => ~Undoes(proc[q].op, proc[q].key, proc[p])

\* While a delete of a key is under way nothing is promised of it.
Removed == \A k \in Keys : \A q \in Procs : Removing(q, k) => acked[k] = Unknown

\* What is known of a key is known of what a put under way will leave.
AllKept == \A k \in Keys : \A q \in Procs :
  acked[k] \in Values \cup {NoValue} /\ Putting(q, k) => proc[q].kept

\* A key's only writer is disturbed by nothing but deletes.
SoleAlone == \A k \in Keys : \A p \in Procs : Users(k, "iPut") = {p} =>
  /\ acked[k] # Several
  /\ Putting(p, k) /\ proc[p].kept => proc[p].alone

\* Which directories a call works on.
Shape(c) ==
  /\ c.pc \notin Wiping => c.todo = <<>>
  /\ c.pc \in Choosing \cup {"statDirect", "statPlace"} => c.made = 0
  /\ c.pc \in {"write", "unlink"} => c.lvl \in Depths(c.key) /\ c.place = Spot(c.key, c.lvl)
  /\ c.pc \in Wiping =>
       /\ Proper(c.place) /\ IsPrefix(c.key, PathOf(c.place))
       /\ \A m \in 1..Len(c.todo) : Proper(c.todo[m].dir) /\ IsPrefix(c.key, PathOf(c.todo[m].dir))

\* A put that no delete has come near: its directories stay, its file too.
Way(p) == proc[p].op = "iPut" /\ proc[p].kept =>
  /\ proc[p].pc = "mkdir" => Up(Target(p)) \in dirs \cup {Root}
  /\ proc[p].pc = "openWrite" => proc[p].place \in dirs
  /\ proc[p].pc = "write" => /\ proc[p].place \in DOMAIN file
                             /\ file[proc[p].place] = proc[p].fd

\* An undisturbed put: lookups come to where it is, and its file is empty.
PutKnows(c) == c.op = "iPut" /\ c.alone =>
  /\ c.pc \in {"statParent", "count"} => Passed(c.key, c.lvl + 1)
  /\ c.pc \in {"statLevel", "statRest"} \cup Making => Passed(c.key, c.lvl)
  /\ c.pc = "write" => data[c.fd] = <<>>

\* An undisturbed get: the value is further on, or open.
GetKnows(c) == c.op = "iGet" /\ c.alone /\ c.was \in Values \cup {NoValue} =>
  /\ acked[c.key] = c.was
  /\ c.pc \in Looking => Passed(c.key, c.lvl)
  /\ c.pc = "openPlace" => /\ c.lvl > 0 /\ Passed(c.key, c.lvl)
                           /\ Spot(c.key, c.lvl) \in dirs
  /\ c.pc \in Reading => c.was \in Values /\ data[c.fd] = c.was
  /\ c.pc = "read" => c.size = Len(c.was)

\* What a recursive delete has to do, from the next item on.
Job(c) == [m \in 1..(Len(c.todo) + 1) |->
             IF m = 1 THEN [pc |-> c.pc, dir |-> c.place] ELSE c.todo[m - 1]]

\* The items of a list can all be done: what they need is there, a directory
\* goes after what is in it, no item comes twice, and what an item is for
\* comes later.
AllThere(L) ==
  \A m \in DOMAIN L : IF L[m].pc = "unlinkDir" THEN L[m].dir \in DOMAIN file ELSE L[m].dir \in dirs
EmptiesFirst(L) ==
  \A m \in DOMAIN L : L[m].pc = "rmdir" =>
    /\ \A x \in Children(L[m].dir) : \E n \in 1..(m - 1) : L[n].pc # "unlinkDir" /\ L[n].dir = x
    /\ L[m].dir \in DOMAIN file =>
         \E n \in 1..(m - 1) : L[n] = [pc |-> "unlinkDir", dir |-> L[m].dir]
NothingTwice(L) ==
  \A m, n \in DOMAIN L : m # n /\ L[m].dir = L[n].dir =>
    {L[m].pc, L[n].pc} = {"unlinkDir", "rmdir"}
ForARmdir(k, L) ==
  \A m \in DOMAIN L :
    IF L[m].pc = "unlinkDir"
    THEN \E n \in DOMAIN L : L[n] = [pc |-> "rmdir", dir |-> L[m].dir]
    ELSE \/ ~IsPrefix(k, L[m].dir.at)
         \/ \E n \in DOMAIN L : L[n] = [pc |-> "rmdir", dir |-> Up(L[m].dir)]
Agenda(k, L) == AllThere(L) /\ EmptiesFirst(L) /\ NothingTwice(L) /\ ForARmdir(k, L)

\* An undisturbed delete of a key that has a value: its directory is further
\* on, or all that is left to do can be done.
DeleteKnows(c) == c.op = "iKeyDelete" /\ c.alone /\ c.was \in Values \cup {Several} =>
  /\ c.pc = "statDirect" => \E i \in Depths(c.key) : Spot(c.key, i) \in dirs
  /\ c.pc \in Looking => \E i \in Depths(c.key) : i >= c.lvl /\ Spot(c.key, i) \in dirs
  /\ c.pc \in Wiping => Agenda(c.key, Job(c))

CallKnows(p) == proc[p] # Idle =>
  /\ Shape(proc[p]) /\ Way(p)
  /\ PutKnows(proc[p]) /\ GetKnows(proc[p]) /\ DeleteKnows(proc[p])
CallsKnow == \A p \in Procs : CallKnows(p)

\* A value is where a lookup finds it while no put of the key may be changing
\* it; without one there is no file, and after a success there is one.
KeyKnows(k) ==
  /\ (/\ acked[k] \in Values
      /\ \A q \in Procs : Putting(q, k) => proc[q].pc \notin {"mkdir", "openWrite", "write"})
       => Written(k, acked[k])
  /\ (/\ acked[k] = NoValue
      /\ \A q \in Procs : Putting(q, k) => proc[q].pc # "write")
       => Unwritten(k)
  /\ acked[k] \in Values \cup {Several} => \E i \in Depths(k) : Spot(k, i) \in DOMAIN file
KeysKnown == \A k \in Keys : KeyKnows(k)

ProperDirs == \A d \in dirs : Proper(d)

Promises == Heard /\ Removed /\ AllKept /\ SoleAlone
Known    == ProperDirs /\ CallsKnow /\ KeysKnown
Whole    == Provenanced /\ Promises /\ Known

----------------------------------------------------------------------------
(* How a call goes on.                                                     *)

\* The call stays what it is, wherever in the code it goes.
Carries(x, c) == /\ x.op = c.op /\ x.key = c.key /\ x.val = c.val
                 /\ x.was = c.was /\ x.alone = c.alone /\ x.kept = c.kept

LEMMA CallFields ==
  ASSUME Typed, NEW p \in Procs, proc[p].pc # "idle"
  PROVE  /\ proc[p] # Idle /\ CallOK(p, proc[p]) /\ proc[p] \in CallType
         /\ proc[p].key \in Keys /\ proc[p].op \in Ops
         /\ proc[p].lvl \in Nat /\ proc[p].made \in Nat
         /\ Len(Last(proc[p].key)) \in Nat \ {0}
         /\ proc[p].alone \in BOOLEAN /\ proc[p].kept \in BOOLEAN
         /\ proc[p].todo \in Seq(Item)
         /\ proc[p].op = "iPut" => proc[p].val \in Values /\ p \in Users(proc[p].key, "iPut")
         /\ proc[p].lvl < Len(Last(proc[p].key)) => proc[p].lvl \in Depths(proc[p].key)
<1>1. /\ proc[p] # Idle /\ CallOK(p, proc[p]) /\ proc[p] \in CallType
      /\ proc[p].key \in Keys /\ proc[p].lvl \in Nat /\ proc[p].op \in Ops
      /\ Len(Last(proc[p].key)) \in Nat \ {0}
  BY CallFacts DEF Typed
<1>2. /\ proc[p].made \in Nat /\ proc[p].todo \in Seq(Item)
      /\ proc[p].alone \in BOOLEAN /\ proc[p].kept \in BOOLEAN
  BY <1>1 DEF CallType, Item
<1>3. proc[p].op = "iPut" => proc[p].val \in Values /\ p \in Users(proc[p].key, "iPut")
  BY <1>1 DEF CallOK, FitsProgram, Typed, ProgramOK
<1>4. proc[p].lvl < Len(Last(proc[p].key)) => proc[p].lvl \in Depths(proc[p].key)
  BY <1>1 DEF Depths
<1> QED BY <1>1, <1>2, <1>3, <1>4

LEMMA NotIdle ==
  ASSUME Typed, NEW p \in Procs, proc[p] # Idle
  PROVE  proc[p].pc # "idle"
BY DEF Typed, ProcsOK, CallOK, CallType, Pcs, Choosing, Making, Reading, Wiping, Looking

LEMMA GotoMoves ==
  ASSUME Typed, NEW p \in Procs, proc[p].pc # "idle", NEW l, Goto(p, l)
  PROVE  /\ Carries(proc'[p], proc[p]) /\ proc'[p].pc = l
         /\ proc'[p].lvl = proc[p].lvl /\ proc'[p].place = proc[p].place
         /\ proc'[p].made = proc[p].made /\ proc'[p].todo = proc[p].todo
         /\ proc'[p].fd = proc[p].fd /\ proc'[p].size = proc[p].size
         /\ UNCHANGED <<last, acked>>
<1>1. proc[p] \in CallType
  BY CallFields
<1>2. proc'[p] = [proc[p] EXCEPT !.pc = l]
  BY DEF Goto, Typed, ProgramOK
<1>3. UNCHANGED <<last, acked>>
  BY DEF Goto
<1> QED BY <1>1, <1>2, <1>3 DEF CallType, Carries

LEMMA GoDeeperMoves ==
  ASSUME Typed, NEW p \in Procs, proc[p].pc # "idle", NEW l, GoDeeper(p, l)
  PROVE  /\ Carries(proc'[p], proc[p]) /\ proc'[p].pc = l
         /\ proc'[p].lvl = proc[p].lvl + 1 /\ proc'[p].place = proc[p].place
         /\ proc'[p].made = proc[p].made /\ proc'[p].todo = proc[p].todo
         /\ UNCHANGED <<last, acked>>
<1>1. proc[p] \in CallType
  BY CallFields
<1>2. proc'[p] = [proc[p] EXCEPT !.pc = l, !.lvl = @ + 1]
  BY DEF GoDeeper, Typed, ProgramOK
<1>3. UNCHANGED <<last, acked>>
  BY DEF GoDeeper
<1> QED BY <1>1, <1>2, <1>3 DEF CallType, Carries

LEMMA OpenedMoves ==
  ASSUME Typed, NEW p \in Procs, proc[p].pc # "idle", NEW n, NEW l, Opened(p, n, l)
  PROVE  /\ Carries(proc'[p], proc[p]) /\ proc'[p].pc = l /\ proc'[p].fd = n
         /\ proc'[p].lvl = proc[p].lvl /\ proc'[p].place = proc[p].place
         /\ proc'[p].todo = proc[p].todo
         /\ UNCHANGED <<last, acked>>
<1>1. proc[p] \in CallType
  BY CallFields
<1>2. proc'[p] = [proc[p] EXCEPT !.pc = l, !.fd = n]
  BY DEF Opened, Typed, ProgramOK
<1>3. UNCHANGED <<last, acked>>
  BY DEF Opened
<1> QED BY <1>1, <1>2, <1>3 DEF CallType, Carries

LEMMA FoundMoves ==
  ASSUME Typed, NEW p \in Procs, proc[p].pc # "idle", NEW d, Found(p, d)
  PROVE  /\ Carries(proc'[p], proc[p]) /\ proc'[p].pc = NextOf(proc[p].op)
         /\ proc'[p].place = d
         /\ proc'[p].lvl = proc[p].lvl
         /\ proc'[p].made = proc[p].made /\ proc'[p].todo = proc[p].todo
         /\ UNCHANGED <<last, acked>>
<1>1. proc[p] \in CallType
  BY CallFields
<1>2. proc'[p] = [proc[p] EXCEPT !.place = d, !.pc = NextOf(proc[p].op)]
  BY DEF Found, Typed, ProgramOK, NextOf
<1>3. UNCHANGED <<last, acked>>
  BY DEF Found
<1> QED BY <1>1, <1>2, <1>3 DEF CallType, Carries

LEMMA NextOfEach ==
  /\ NextOf("iPut") = "statPlace" /\ NextOf("iGet") = "openPlace"
  /\ NextOf("iDelete") = "unlink" /\ NextOf("iKeyDelete") = "readDir"
BY DEF NextOf

(* The end of a call, and what it leaves of the key it has put.            *)
Leaves(c, v) == v = IF ~c.kept THEN Unknown ELSE IF c.alone THEN c.val ELSE Several

LEMMA ReturnMoves ==
  ASSUME Typed, NEW p \in Procs, proc[p].pc # "idle", NEW r, Return(p, r)
  PROVE  /\ proc'[p] = Idle
         /\ last'.op = proc[p].op /\ last'.key = proc[p].key /\ last'.ret = r
         /\ last'.was = proc[p].was /\ last'.alone = proc[p].alone
         /\ \A k \in Keys : \/ acked'[k] = acked[k]
                            \/ /\ proc[p].op = "iPut" /\ k = proc[p].key /\ r = IDB_OK
                               /\ Leaves(proc[p], acked'[k])
         /\ (proc[p].op # "iPut" \/ r # IDB_OK) => UNCHANGED acked
         /\ (proc[p].op = "iPut" /\ r = IDB_OK) => Leaves(proc[p], acked'[proc[p].key])
<1>1. proc[p] \in CallType /\ proc[p].key \in Keys
  BY CallFields
<1>2. proc'[p] = Idle
  BY DEF Return, Typed, ProgramOK
<1>3. acked \in [Keys -> Values \cup {NoValue, Several, Unknown}]
  BY DEF Typed, ProgramOK, AckedOK
<1> QED BY <1>1, <1>2, <1>3 DEF Return, Leaves

LEMMA GoOnMoves ==
  ASSUME Typed, NEW p \in Procs, proc[p].pc # "idle", NEW todo, todo # <<>>, GoOn(p, todo)
  PROVE  /\ Carries(proc'[p], proc[p]) /\ proc'[p].pc = todo[1].pc
         /\ proc'[p].place = todo[1].dir /\ proc'[p].todo = Tail(todo)
         /\ UNCHANGED <<last, acked>>
<1>1. proc[p] \in CallType
  BY CallFields
<1> DEFINE x == todo[1]
           r == Tail(todo)
<1>2. proc'[p] = [proc[p] EXCEPT !.pc = x.pc, !.place = x.dir, !.todo = r]
  BY DEF GoOn, Typed, ProgramOK
<1>3. UNCHANGED <<last, acked>>
  BY DEF GoOn
<1> HIDE DEF x, r
<1>4. /\ Carries(proc'[p], proc[p]) /\ proc'[p].pc = x.pc
      /\ proc'[p].place = x.dir /\ proc'[p].todo = r
  BY <1>1, <1>2 DEF CallType, Carries
<1> QED BY <1>3, <1>4 DEF x, r

----------------------------------------------------------------------------
(* What a step inside a call, or its end, does to everything else.         *)

\* Only the call moves, and only the key it puts is acknowledged anew.
Moved(p) ==
  /\ proc[p] # Idle /\ Others(p) /\ UNCHANGED <<program, tried>>
  /\ proc'[p] = Idle \/ Carries(proc'[p], proc[p])
  /\ \A k \in Keys :
       \/ acked'[k] = acked[k]
       \/ /\ proc[p].op = "iPut" /\ k = proc[p].key
          /\ acked'[k] = Unknown \/ Leaves(proc[p], acked'[k])

\* Directories go, come, files go, come, and change, for what the call is.
Touches(p) ==
  LET c == proc[p] IN
  /\ \A d \in dirs : d \notin dirs' => c.op = "iKeyDelete" /\ IsPrefix(c.key, PathOf(d))
  /\ \A d \in dirs' : d \notin dirs =>
       /\ c.op = "iPut" /\ Proper(d) /\ IsPrefix(PathOf(d), c.key)
       /\ \A k \in Keys : \A i \in Depths(k) : i > 0 /\ d = Spot(k, i) => k = c.key
  /\ \A d \in DOMAIN file : d \notin DOMAIN file' =>
       \/ c.op = "iKeyDelete" /\ IsPrefix(c.key, PathOf(d))
       \/ c.op = "iDelete" /\ PathOf(d) = c.key
  /\ \A d \in DOMAIN file' : d \notin DOMAIN file => c.op = "iPut" /\ PathOf(d) = c.key
  /\ \A d \in DOMAIN file : d \in DOMAIN file' => file'[d] = file[d]
  /\ \A n \in Inodes : data'[n] # data[n] => c.op = "iPut" /\ \A k : Holds(n, k) => k = c.key

LEMMA TargetOnWay ==
  ASSUME Typed, NEW p \in Procs, proc[p].pc = "mkdir"
  PROVE  /\ proc[p].op = "iPut"
         /\ proc[p].lvl \in Depths(proc[p].key)
         /\ proc[p].place = Spot(proc[p].key, proc[p].lvl)
         /\ Target(p) = WayTo(proc[p].key, proc[p].lvl, proc[p].made)
<1> DEFINE c == proc[p]
<1>1. /\ CallOK(p, c) /\ c.key \in Keys
      /\ c.lvl < Len(Last(c.key)) => c.lvl \in Depths(c.key)
  BY CallFields
<1>2. /\ c.op = "iPut" /\ c.lvl < Len(Last(c.key))
      /\ c.place = Place(Front(c.key), Last(c.key), c.lvl)
  BY <1>1 DEF CallOK, FitsOp, FitsLevel, Making, Choosing, Wiping
<1> QED BY <1>1, <1>2 DEF Target, WayTo, LevelOf, Spot

LEMMA MkdirTouches ==
  ASSUME Typed, NEW p \in Procs, Mkdir(p)
  PROVE  Touches(p)
<1> DEFINE c == proc[p]
           d == Target(p)
<1>1. /\ UNCHANGED <<file, data>> /\ c.pc = "mkdir"
      /\ dirs' = dirs \/ dirs' = dirs \cup {d}
  BY DEF Mkdir
<1>2. /\ c.op = "iPut" /\ c.lvl \in Depths(c.key)
      /\ d = WayTo(c.key, c.lvl, c.made)
      /\ c.key \in Keys /\ c.made \in Nat
  BY <1>1, TargetOnWay, CallFields
<1>3. PICK k, e, m : /\ k = c.key /\ e = c.lvl /\ m = c.made /\ d = WayTo(k, e, m)
                     /\ k \in Keys /\ e \in Depths(k) /\ m \in Nat
  BY <1>2
<1>4. Proper(d) /\ IsPrefix(PathOf(d), k)
  BY <1>3, WayFacts
<1>5. ASSUME NEW j \in Keys, NEW i \in Depths(j), i > 0, d = Spot(j, i) PROVE j = k
  <2>1. CASE d = Spot(k, e)
    BY <1>3, <1>5, <2>1, SpotInjective
  <2>2. CASE d # Spot(k, e)
    <3>1. /\ WayTo(k, e, m) # Spot(k, e)
          /\ k \in Keys /\ e \in Depths(k) /\ m \in Nat
      BY <1>3, <2>2
    <3>2. \A x \in Keys : \A y \in Depths(x) : y > 0 => WayTo(k, e, m) # Spot(x, y)
      BY <3>1, WayFacts
    <3> QED BY <1>3, <1>5, <3>2
  <2> QED BY <2>1, <2>2
<1> HIDE DEF c, d
<1>6. \A x \in dirs' : x \notin dirs => x = d
  BY <1>1
<1>7. \A x \in dirs : x \in dirs'
  BY <1>1
<1> QED BY <1>1, <1>2, <1>3, <1>4, <1>5, <1>6, <1>7 DEF Touches, c

LEMMA OpenWriteTouches ==
  ASSUME Typed, Provenance, NEW p \in Procs, OpenWrite(p)
  PROVE  Touches(p)
<1> DEFINE c == proc[p]
           d == c.place
           n == IF d \in DOMAIN file THEN file[d] ELSE Fresh
<1>1. /\ c.pc = "openWrite" /\ CallOK(p, c) /\ c.key \in Keys
      /\ c.lvl < Len(Last(c.key)) => c.lvl \in Depths(c.key)
  BY CallFields DEF OpenWrite
<1>2. c.op = "iPut" /\ c.lvl \in Depths(c.key) /\ d = Spot(c.key, c.lvl)
  BY <1>1 DEF CallOK, FitsOp, FitsLevel, Making, Choosing, Wiping, Spot
<1>3. PathOf(d) = c.key /\ Owner(d) = c.key
  BY <1>1, <1>2, SpotFacts
<1>4. UNCHANGED dirs
  BY DEF OpenWrite
<1>5. CASE UNCHANGED <<file, data>>
  BY <1>4, <1>5 DEF Touches
<1>6. CASE /\ d \in DOMAIN file \/ FreshLeft
           /\ file' = [x \in DOMAIN file \cup {d} |-> IF x = d THEN n ELSE file[x]]
           /\ data' = [data EXCEPT ![n] = <<>>]
  <2>1. \A k : Holds(n, k) => k = c.key
    <3>1. CASE d \in DOMAIN file
      <4>1. n \in Inodes /\ Holds(n, c.key)
        BY <1>3, <3>1 DEF Holds, Typed, FilesOK
      <4> QED BY <4>1 DEF Provenance, OneHolder
    <3>2. CASE d \notin DOMAIN file
      <4>1. n \notin InUse
        BY <1>6, <3>2 DEF FreshLeft, Fresh
      <4> QED BY <4>1 DEF Holds, InUse
    <3> QED BY <3>1, <3>2
  <2>2. \A m \in Inodes : data'[m] # data[m] => m = n
    BY <1>6 DEF Typed, FilesOK
  <2>3. /\ DOMAIN file' = DOMAIN file \cup {d}
        /\ \A x \in DOMAIN file : file'[x] = file[x]
    BY <1>6
  <2> HIDE DEF n, d, c
  <2> QED BY <1>2, <1>3, <1>4, <2>1, <2>2, <2>3 DEF Touches, c
<1> QED BY <1>5, <1>6 DEF OpenWrite

LEMMA WriteTouches ==
  ASSUME Typed, Provenance, NEW p \in Procs, Write(p)
  PROVE  Touches(p)
<1> DEFINE c == proc[p]
<1>1. /\ c.pc = "write" /\ c # Idle /\ CallOK(p, c) /\ c.key \in Keys
  BY CallFields DEF Write
<1>2. c.op = "iPut" /\ c.fd \in Inodes
  BY <1>1 DEF CallOK, FitsOp, FitsFile, Making
<1>3. \A k : Holds(c.fd, k) => k = c.key
  BY <1>1, <1>2 DEF Holds, Provenance, OneHolder
<1>4. /\ UNCHANGED <<dirs, file>>
      /\ data' = [data EXCEPT ![c.fd] = Overlay(data[c.fd], c.val)]
  BY DEF Write
<1>5. \A m \in Inodes : data'[m] # data[m] => m = c.fd
  BY <1>4 DEF Typed, FilesOK
<1> QED BY <1>2, <1>3, <1>4, <1>5 DEF Touches

LEMMA DropTouches ==
  ASSUME NEW p \in Procs, NEW d, DropFile(d), UNCHANGED <<dirs, data>>,
         \/ proc[p].op = "iKeyDelete" /\ IsPrefix(proc[p].key, PathOf(d))
         \/ proc[p].op = "iDelete" /\ PathOf(d) = proc[p].key
  PROVE  Touches(p)
<1>1. /\ DOMAIN file' = DOMAIN file \ {d}
      /\ \A x \in DOMAIN file' : file'[x] = file[x]
  BY DEF DropFile
<1> QED BY <1>1 DEF Touches

LEMMA WiperIsBelow ==
  ASSUME Typed, CallsKnow, NEW p \in Procs, proc[p].pc \in Wiping
  PROVE  /\ proc[p].op = "iKeyDelete"
         /\ Proper(proc[p].place) /\ IsPrefix(proc[p].key, PathOf(proc[p].place))
<1>1. proc[p] # Idle /\ CallOK(p, proc[p])
  BY CallFields DEF Wiping
<1>2. Shape(proc[p])
  BY <1>1 DEF CallsKnow, CallKnows
<1> QED BY <1>1, <1>2 DEF CallOK, FitsOp, Shape

LEMMA StepTouches ==
  ASSUME Typed, Provenance, CallsKnow, NEW p \in Procs, Step(p)
  PROVE  Touches(p)
<1>1. ASSUME UNCHANGED fsys PROVE Touches(p)
  BY <1>1 DEF fsys, Touches
<1>2. CASE Unlink(p)
  <2>1. proc[p].pc = "unlink" /\ DropFile(proc[p].place) /\ UNCHANGED <<dirs, data>>
    BY <1>2 DEF Unlink
  <2>2. proc[p] # Idle /\ CallOK(p, proc[p]) /\ proc[p].key \in Keys
    BY <2>1, CallFields
  <2>3. proc[p].lvl \in Depths(proc[p].key) /\ proc[p].place = Spot(proc[p].key, proc[p].lvl)
    BY <2>1, <2>2 DEF CallsKnow, CallKnows, Shape
  <2>4. PathOf(proc[p].place) = proc[p].key
    BY <2>2, <2>3, SpotFacts
  <2>5. proc[p].op = "iDelete"
    BY <2>1, <2>2 DEF CallOK, FitsOp
  <2> QED BY <2>1, <2>4, <2>5, DropTouches
<1>3. CASE UnlinkDir(p)
  <2>1. proc[p].pc = "unlinkDir" /\ DropFile(proc[p].place) /\ UNCHANGED <<dirs, data>>
    BY <1>3 DEF UnlinkDir
  <2> QED BY <2>1, WiperIsBelow, DropTouches DEF Wiping
<1>4. CASE Rmdir(p)
  <2>1. /\ proc[p].pc = "rmdir" /\ UNCHANGED <<file, data>>
        /\ dirs' = dirs \/ dirs' = dirs \ {proc[p].place}
    BY <1>4 DEF Rmdir
  <2> QED BY <2>1, WiperIsBelow DEF Wiping, Touches
<1> QED
  BY <1>1, <1>2, <1>3, <1>4, MkdirTouches, OpenWriteTouches, WriteTouches
  DEF Step, StatDirect, StatParent, CountLevel, StatLevel, StatRest, StatPlace, OpenDirect,
      LookLevel, LookRest, OpenPlace, Lseek, ReadFile, ReadDir

LEMMA StepMoves ==
  ASSUME Typed, NEW p \in Procs, Step(p)
  PROVE  Moved(p)
<1>1. Others(p) /\ UNCHANGED <<program, tried>>
  BY StepKeeps, StepProcs DEF Step
<1>2. proc[p].pc # "idle" /\ proc[p] # Idle
  <2>1. proc[p].pc # "idle"
    BY DEF Step, StatDirect, StatParent, CountLevel, StatLevel, StatRest, StatPlace, Mkdir, OpenWrite,
           Write, OpenDirect, LookLevel, LookRest, OpenPlace, Lseek, ReadFile, Unlink,
           ReadDir, UnlinkDir, Rmdir
  <2> QED BY <2>1, CallFields
<1> DEFINE Goes == proc'[p] = Idle \/ Carries(proc'[p], proc[p])
           Acks == \A k \in Keys :
             \/ acked'[k] = acked[k]
             \/ /\ proc[p].op = "iPut" /\ k = proc[p].key
                /\ acked'[k] = Unknown \/ Leaves(proc[p], acked'[k])
<1> SUFFICES Goes /\ Acks
  BY <1>1, <1>2 DEF Moved
<1>3. \A l : Goto(p, l) \/ GoDeeper(p, l) => Goes /\ Acks
  BY <1>2, GotoMoves, GoDeeperMoves
<1>4. \A n, l : Opened(p, n, l) => Goes /\ Acks
  BY <1>2, OpenedMoves
<1>5. \A d : Found(p, d) => Goes /\ Acks
  BY <1>2, FoundMoves
<1>6. \A r : Return(p, r) => Goes /\ Acks
  BY <1>2, ReturnMoves
<1>7. \A todo : GoOn(p, todo) => Goes /\ Acks
  <2> SUFFICES ASSUME NEW todo, GoOn(p, todo) PROVE Goes /\ Acks
    OBVIOUS
  <2>1. CASE todo = <<>>
    BY <1>6, <2>1 DEF GoOn
  <2>2. CASE todo # <<>>
    BY <1>2, <2>2, GoOnMoves
  <2> QED BY <2>1, <2>2
<1>8. CASE Mkdir(p)
  <2>1. proc[p] \in CallType /\ UNCHANGED acked
    BY <1>2, <1>8, CallFields DEF Mkdir
  <2> DEFINE l == IF Up(Target(p)) \in dirs \cup {Root} /\ Target(p) # proc[p].place
                  THEN "mkdir" ELSE "openWrite"
  <2>2. proc'[p] = [proc[p] EXCEPT !.made = @ + 1, !.pc = l]
    BY <1>8 DEF Mkdir, Typed, ProgramOK
  <2> HIDE DEF l
  <2>3. Carries(proc'[p], proc[p])
    BY <2>1, <2>2 DEF CallType, Carries
  <2> QED BY <2>1, <2>3
<1>9. CASE Lseek(p)
  <2>1. proc[p] \in CallType /\ UNCHANGED acked
    BY <1>2, <1>9, CallFields DEF Lseek
  <2> DEFINE n == Len(data[proc[p].fd])
  <2>2. proc'[p] = [proc[p] EXCEPT !.size = n, !.pc = "read"]
    BY <1>9 DEF Lseek, Typed, ProgramOK
  <2> HIDE DEF n
  <2>3. Carries(proc'[p], proc[p])
    BY <2>1, <2>2 DEF CallType, Carries
  <2> QED BY <2>1, <2>3
<1> HIDE DEF Goes, Acks
<1>10. CASE StatDirect(p) \/ StatParent(p) \/ CountLevel(p) \/ StatLevel(p) \/ StatRest(p) \/ StatPlace(p)
  BY <1>3, <1>5, <1>6, <1>10 DEF StatDirect, StatParent, CountLevel, StatLevel, StatRest, StatPlace
<1>11. CASE OpenWrite(p) \/ Write(p) \/ OpenDirect(p) \/ OpenPlace(p)
  BY <1>3, <1>4, <1>6, <1>11 DEF OpenWrite, Write, OpenDirect, OpenPlace
<1>12. CASE LookLevel(p) \/ LookRest(p) \/ ReadFile(p) \/ Unlink(p)
  BY <1>3, <1>5, <1>6, <1>12 DEF LookLevel, LookRest, ReadFile, Unlink
<1>13. CASE ReadDir(p) \/ UnlinkDir(p) \/ Rmdir(p)
  BY <1>6, <1>7, <1>13 DEF ReadDir, UnlinkDir, Rmdir
<1> QED BY <1>8, <1>9, <1>10, <1>11, <1>12, <1>13 DEF Step

LEMMA CrashMoves ==
  ASSUME Typed, NEW p \in Procs, Crash(p)
  PROVE  Moved(p) /\ Touches(p) /\ proc'[p] = Idle
<1>1. /\ Others(p) /\ UNCHANGED <<program, fsys, tried>>
  BY CrashKeeps DEF Quiet
<1>2. /\ proc[p] # Idle /\ proc' = [proc EXCEPT ![p] = Idle]
      /\ acked' = [acked EXCEPT ![proc[p].key] = IF proc[p].op = "iPut" THEN Unknown ELSE @]
  BY DEF Crash
<1>3. proc'[p] = Idle
  BY <1>2 DEF Typed, ProgramOK
<1>4. \A k \in Keys : \/ acked'[k] = acked[k]
                      \/ proc[p].op = "iPut" /\ k = proc[p].key /\ acked'[k] = Unknown
  BY <1>2 DEF Typed, ProgramOK, AckedOK
<1> QED BY <1>1, <1>2, <1>3, <1>4 DEF Moved, Touches, fsys

----------------------------------------------------------------------------
(* What a call leaves alone: keys it does not change, and other calls that *)
(* it does not disturb.                                                    *)

LEMMA KeyUntouched ==
  ASSUME NEW p \in Procs, Moved(p), Touches(p),
         NEW k \in Keys, ~Changes(proc[p].op, proc[p].key, k)
  PROVE  /\ \A i \in Depths(k) : Spot(k, i) \in DOMAIN file' <=> Spot(k, i) \in DOMAIN file
         /\ \A i \in Depths(k) : i > 0 => (Spot(k, i) \in dirs' <=> Spot(k, i) \in dirs)
         /\ \A i \in Depths(k) : Spot(k, i) \in dirs => Spot(k, i) \in dirs'
         /\ \A i \in Depths(k) : Spot(k, i) \in DOMAIN file => file'[Spot(k, i)] = file[Spot(k, i)]
         /\ acked'[k] = acked[k]
         /\ \A n \in Inodes : Holds(n, k) => data'[n] = data[n]
<1> DEFINE c == proc[p]
<1>1. /\ ~(c.op = "iPut" /\ c.key = k) /\ ~(c.op = "iDelete" /\ c.key = k)
      /\ ~(c.op = "iKeyDelete" /\ IsPrefix(c.key, k))
  BY DEF Changes, Removes
<1>2. \A i \in Depths(k) : PathOf(Spot(k, i)) = k
  BY SpotFacts
<1>3. \A i \in Depths(k) : Spot(k, i) \in DOMAIN file' <=> Spot(k, i) \in DOMAIN file
  BY <1>1, <1>2 DEF Touches
<1>4. \A i \in Depths(k) : Spot(k, i) \in dirs => Spot(k, i) \in dirs'
  BY <1>1, <1>2 DEF Touches
<1>5. \A i \in Depths(k) : i > 0 /\ Spot(k, i) \in dirs' => Spot(k, i) \in dirs
  BY <1>1 DEF Touches
<1>6. \A i \in Depths(k) : Spot(k, i) \in DOMAIN file => file'[Spot(k, i)] = file[Spot(k, i)]
  BY <1>3 DEF Touches
<1>7. acked'[k] = acked[k]
  BY <1>1 DEF Moved
<1>8. \A n \in Inodes : Holds(n, k) => data'[n] = data[n]
  BY <1>1 DEF Touches
<1> QED BY <1>3, <1>4, <1>5, <1>6, <1>7, <1>8

LEMMA PassedKept ==
  ASSUME NEW k \in Keys, NEW n \in 0..Len(Last(k)), Passed(k, n),
         \A i \in Depths(k) : Spot(k, i) \in DOMAIN file' => Spot(k, i) \in DOMAIN file,
         \A i \in Depths(k) : i > 0 /\ Spot(k, i) \in dirs' => Spot(k, i) \in dirs
  PROVE  Passed(k, n)'
<1>1. Len(Last(k)) \in Nat \ {0}
  BY KeyParts
<1>2. 0 \in Depths(k) /\ \A j \in 1..(n - 1) : j \in Depths(k) /\ j > 0
  BY <1>1 DEF Depths
<1> QED BY <1>2 DEF Passed, Spot

LEMMA SpotHolds ==
  ASSUME FilesOK, NEW k \in Keys, NEW i \in Depths(k), Spot(k, i) \in DOMAIN file
  PROVE  file[Spot(k, i)] \in Inodes /\ Holds(file[Spot(k, i)], k)
BY SpotFacts DEF FilesOK, Holds

LEMMA OtherKey ==
  ASSUME Typed, NEW p \in Procs, Moved(p), Touches(p),
         NEW k \in Keys, ~Changes(proc[p].op, proc[p].key, k), KeyKnows(k)
  PROVE  KeyKnows(k)'
<1>1. /\ \A i \in Depths(k) : Spot(k, i) \in DOMAIN file' <=> Spot(k, i) \in DOMAIN file
      /\ \A i \in Depths(k) : i > 0 => (Spot(k, i) \in dirs' <=> Spot(k, i) \in dirs)
      /\ \A i \in Depths(k) : Spot(k, i) \in DOMAIN file => file'[Spot(k, i)] = file[Spot(k, i)]
      /\ acked'[k] = acked[k]
      /\ \A n \in Inodes : Holds(n, k) => data'[n] = data[n]
  BY KeyUntouched
<1>2. \A q \in Procs : Putting(q, k) => Putting(q, k)' /\ proc'[q] = proc[q]
  <2> SUFFICES ASSUME NEW q \in Procs, Putting(q, k) PROVE Putting(q, k)' /\ proc'[q] = proc[q]
    OBVIOUS
  <2>1. q # p
    BY DEF Putting, Changes
  <2> QED BY <2>1 DEF Putting, Moved, Others
<1>3. ASSUME NEW v, Written(k, v) PROVE Written(k, v)'
  <2>1. PICK i \in Depths(k) : WrittenAt(k, i, v)
    BY <1>3 DEF Written
  <2>2. i \in 0..Len(Last(k)) /\ file[Spot(k, i)] \in Inodes /\ Holds(file[Spot(k, i)], k)
    BY <2>1, SpotFacts, SpotHolds DEF WrittenAt, Typed
  <2>3. Passed(k, i)'
    BY <1>1, <2>1, <2>2, PassedKept DEF WrittenAt
  <2>4. Spot(k, i) \in DOMAIN file' /\ data'[file'[Spot(k, i)]] = v
    BY <1>1, <2>1, <2>2 DEF WrittenAt
  <2>5. WrittenAt(k, i, v)'
    BY <2>3, <2>4 DEF WrittenAt, Spot
  <2> QED BY <2>5 DEF Written, Depths
<1>4. Unwritten(k) => Unwritten(k)'
  BY <1>1 DEF Unwritten, Spot, Depths
<1>5. (\E i \in Depths(k) : Spot(k, i) \in DOMAIN file) =>
      (\E i \in Depths(k) : Spot(k, i) \in DOMAIN file)'
  BY <1>1 DEF Spot, Depths
<1>6. /\ (\A q \in Procs : Putting(q, k) => proc[q].pc \notin {"mkdir", "openWrite", "write"})'
           => \A q \in Procs : Putting(q, k) => proc[q].pc \notin {"mkdir", "openWrite", "write"}
      /\ (\A q \in Procs : Putting(q, k) => proc[q].pc # "write")'
           => \A q \in Procs : Putting(q, k) => proc[q].pc # "write"
  BY <1>2
<1>7. /\ (acked[k] \in Values)' <=> acked[k] \in Values
      /\ (acked[k] = NoValue)' <=> acked[k] = NoValue
      /\ (acked[k] \in Values \cup {Several})' <=> acked[k] \in Values \cup {Several}
      /\ Written(k, acked[k]) => Written(k, acked[k])'
  <2>1. Written(k, acked[k]) => \E v : v = acked[k] /\ v = acked'[k] /\ Written(k, v)'
    BY <1>1, <1>3
  <2>2. \A v : v = acked'[k] /\ Written(k, v)' => Written(k, acked[k])'
    BY DEF Written, WrittenAt, Passed, Spot, Depths
  <2> QED BY <1>1, <2>1, <2>2
<1> QED BY <1>4, <1>5, <1>6, <1>7 DEF KeyKnows

(* Below the key of an undisturbed delete nothing comes or goes.           *)
LEMMA BelowUntouched ==
  ASSUME Typed, ProperDirs, ProperDirs', NEW p \in Procs, proc[p].key \in Keys, Touches(p),
         NEW c, c.op = "iKeyDelete", c.key \in Keys, ~Disturbs(proc[p].op, proc[p].key, c),
         NEW d, Proper(d), IsPrefix(c.key, PathOf(d))
  PROVE  /\ d \in dirs' <=> d \in dirs
         /\ d \in DOMAIN file' <=> d \in DOMAIN file
         /\ Children(d)' = Children(d)
<1> DEFINE o == proc[p].op
           j == proc[p].key
           k == c.key
<1>1. /\ ~(o = "iPut" /\ j = k) /\ ~(o = "iDelete" /\ j = k)
      /\ ~(o = "iKeyDelete" /\ IsPrefix(j, k))
      /\ o # "iGet" => ~IsPrefix(k, j)
  BY DEF Disturbs, Changes, Removes
<1>2. j \in Seq(Names) /\ k \in Seq(Names)
  BY KeyParts
<1>3. ASSUME NEW x, Proper(x), IsPrefix(k, PathOf(x))
      PROVE  /\ x \in dirs' <=> x \in dirs
             /\ x \in DOMAIN file' <=> x \in DOMAIN file
  <2>1. PathOf(x) \in Seq(Names)
    BY <1>3, PathType
  <2>2. o = "iKeyDelete" => ~IsPrefix(j, PathOf(x))
    BY <1>1, <1>2, <1>3, <2>1, PrefixesMeet
  <2>3. o # "iGet" => PathOf(x) # j
    BY <1>1, <1>3
  <2>4. o = "iPut" => ~IsPrefix(PathOf(x), j)
    BY <1>1, <1>2, <1>3, <2>1, PrefixTransitive
  <2> QED BY <2>2, <2>3, <2>4 DEF Touches
<1>4. ASSUME NEW x, x \in dirs \cup dirs', Up(x) = d
      PROVE  x \in dirs' <=> x \in dirs
  <2>1. Proper(x)
    BY <1>4 DEF ProperDirs
  <2>2. IsPrefix(k, PathOf(x))
    BY <1>4, <2>1, InsideIsBelow
  <2> QED BY <1>3, <2>1, <2>2
<1>5. Children(d)' = Children(d)
  BY <1>4 DEF Children
<1> QED BY <1>3, <1>5

LEMMA ProperKept ==
  ASSUME ProperDirs, NEW p \in Procs, Touches(p)
  PROVE  ProperDirs'
BY DEF ProperDirs, Touches, Proper

LEMMA OtherWay ==
  ASSUME Typed, Heard, ProperDirs, NEW p \in Procs, Moved(p), Touches(p), proc[p].key \in Keys,
         NEW q \in Procs, q # p, proc[q] # Idle, Way(q), Shape(proc[q])
  PROVE  Way(q)'
<1> DEFINE c == proc[q]
           k == c.key
           j == proc[p].key
<1> SUFFICES ASSUME c.op = "iPut", c.kept PROVE Way(q)'
  BY DEF Moved, Others, Way
<1>1. proc'[q] = c
  BY DEF Moved, Others
<1>2. proc[q].pc # "idle" /\ k \in Keys /\ k \in Seq(Names) /\ j \in Seq(Names)
  BY NotIdle, CallFields, KeyParts
<1>3. /\ ~(proc[p].op = "iKeyDelete" /\ IsPrefix(j, k))
      /\ ~(proc[p].op = "iDelete" /\ j = k)
  BY DEF Heard, Moved, Undoes, Removes
<1>4. CASE c.pc = "mkdir"
  <2>1. PICK e, m : /\ e = c.lvl /\ m = c.made /\ e \in Depths(k) /\ m \in Nat
                    /\ Target(q) = WayTo(k, e, m)
    BY <1>2, <1>4, TargetOnWay, CallFields
  <2>2. Proper(Target(q)) /\ IsPrefix(PathOf(Target(q)), k)
    BY <1>2, <2>1, WayFacts
  <2>3. IsPrefix(PathOf(Up(Target(q))), k)
    BY <1>2, <2>2, UpOnWay
  <2>4. Up(Target(q)) \in dirs \cup {Root}
    BY <1>4 DEF Way
  <2>5. ASSUME Up(Target(q)) \in dirs, Up(Target(q)) \notin dirs' PROVE FALSE
    <3>1. proc[p].op = "iKeyDelete" /\ IsPrefix(j, PathOf(Up(Target(q))))
      BY <2>5 DEF Touches
    <3>2. PathOf(Up(Target(q))) \in Seq(Names)
      BY <2>5, PathType DEF ProperDirs
    <3> QED BY <1>2, <1>3, <2>3, <3>1, <3>2, PrefixTransitive
  <2>6. Up(Target(q)) \in dirs' \cup {Root}
    BY <2>4, <2>5
  <2>7. Target(q)' = Target(q)
    BY <1>1 DEF Target, LevelOf
  <2> QED BY <1>1, <1>4, <2>6, <2>7 DEF Way, Up
<1>5. CASE c.pc = "openWrite"
  <2>1. CallOK(q, c) /\ (c.lvl < Len(Last(k)) => c.lvl \in Depths(k))
    BY <1>2, CallFields
  <2>2. c.lvl \in Depths(k) /\ c.place = Spot(k, c.lvl)
    BY <1>5, <2>1 DEF CallOK, FitsLevel, Making, Wiping, Spot
  <2>3. PathOf(c.place) = k
    BY <1>2, <2>2, SpotFacts
  <2>4. c.place \in dirs'
    BY <1>3, <1>5, <2>3 DEF Way, Touches
  <2> QED BY <1>1, <1>5, <2>4 DEF Way
<1>6. CASE c.pc = "write"
  <2>1. PathOf(c.place) = k
    BY <1>2, <1>6, SpotFacts DEF Shape
  <2>2. c.place \in DOMAIN file /\ file[c.place] = c.fd
    BY <1>6 DEF Way
  <2>3. c.place \in DOMAIN file' /\ file'[c.place] = c.fd
    BY <1>3, <2>1, <2>2 DEF Touches
  <2> QED BY <1>1, <1>6, <2>3 DEF Way
<1> QED BY <1>1, <1>4, <1>5, <1>6 DEF Way

LEMMA OtherPut ==
  ASSUME Typed, Heard, NEW p \in Procs, Moved(p), Touches(p),
         NEW q \in Procs, q # p, proc[q] # Idle, PutKnows(proc[q])
  PROVE  PutKnows(proc[q])'
<1> DEFINE c == proc[q]
           k == c.key
<1> SUFFICES ASSUME c.op = "iPut", c.alone PROVE PutKnows(proc[q])'
  BY DEF Moved, Others, PutKnows
<1>1. proc'[q] = c
  BY DEF Moved, Others
<1>2. /\ proc[q].pc # "idle" /\ k \in Keys /\ CallOK(q, c) /\ c.lvl \in Nat
      /\ Len(Last(k)) \in Nat
  BY NotIdle, CallFields
<1>3. ~Changes(proc[p].op, proc[p].key, k)
  BY DEF Heard, Moved, Disturbs
<1>4. /\ \A i \in Depths(k) : Spot(k, i) \in DOMAIN file' <=> Spot(k, i) \in DOMAIN file
      /\ \A i \in Depths(k) : i > 0 => (Spot(k, i) \in dirs' <=> Spot(k, i) \in dirs)
      /\ \A n \in Inodes : Holds(n, k) => data'[n] = data[n]
  BY <1>2, <1>3, KeyUntouched
<1>5. PICK x : x = k /\ \A n \in 0..Len(Last(x)) : Passed(x, n) => Passed(x, n)'
  <2>1. PICK x : x = k
    OBVIOUS
  <2>2. \A n \in 0..Len(Last(x)) : Passed(x, n) => Passed(x, n)'
    BY <1>2, <1>4, <2>1, PassedKept
  <2> QED BY <2>1, <2>2
<1>6. c.pc \in {"statParent", "count"} => Passed(k, c.lvl + 1)'
  <2> HAVE c.pc \in {"statParent", "count"}
  <2>1. c.lvl < Len(Last(k)) /\ Passed(k, c.lvl + 1)
    BY <1>2 DEF CallOK, FitsLevel, Wiping, PutKnows
  <2>2. c.lvl + 1 \in 0..Len(Last(k))
    BY <1>2, <2>1
  <2> HIDE DEF c, k
  <2>3. PICK n : n = c.lvl + 1 /\ n \in 0..Len(Last(k))
    BY <2>2
  <2>4. Passed(x, n)'
    BY <1>5, <2>1, <2>3
  <2> QED BY <1>1, <1>5, <2>3, <2>4 DEF Passed, Spot, c, k
<1>7. c.pc \in {"statLevel", "statRest"} \cup Making => Passed(k, c.lvl)'
  <2> HAVE c.pc \in {"statLevel", "statRest"} \cup Making
  <2>1. c.lvl < Len(Last(k)) /\ Passed(k, c.lvl)
    BY <1>2 DEF CallOK, FitsLevel, Wiping, Making, PutKnows
  <2>3. PICK n : n = c.lvl /\ n \in 0..Len(Last(k))
    BY <1>2, <2>1
  <2>4. Passed(x, n)'
    BY <1>5, <2>1, <2>3
  <2> QED BY <1>1, <1>5, <2>3, <2>4 DEF Passed, Spot
<1>8. c.pc = "write" => data'[c.fd] = <<>>
  <2> HAVE c.pc = "write"
  <2>1. c.fd \in Inodes /\ data[c.fd] = <<>>
    BY <1>2 DEF CallOK, FitsFile, PutKnows
  <2>2. Holds(c.fd, k)
    BY DEF Holds
  <2> QED BY <1>4, <2>1, <2>2
<1>9. proc[q]' = c
  BY <1>1
<1> QED BY <1>6, <1>7, <1>8, <1>9 DEF PutKnows, Passed, Spot

LEMMA OtherGet ==
  ASSUME Typed, Heard, NEW p \in Procs, Moved(p), Touches(p),
         NEW q \in Procs, q # p, proc[q] # Idle, GetKnows(proc[q])
  PROVE  GetKnows(proc[q])'
<1> DEFINE c == proc[q]
           k == c.key
<1>1. proc'[q] = c
  BY DEF Moved, Others
<1> SUFFICES ASSUME c.op = "iGet", c.alone, c.was \in Values \cup {NoValue}
             PROVE  GetKnows(proc[q])'
  BY <1>1 DEF GetKnows
<1>2. /\ proc[q].pc # "idle" /\ k \in Keys /\ CallOK(q, c) /\ c.lvl \in Nat
      /\ Len(Last(k)) \in Nat /\ (c.lvl < Len(Last(k)) => c.lvl \in Depths(k))
  BY NotIdle, CallFields
<1>3. ~Changes(proc[p].op, proc[p].key, k)
  BY DEF Heard, Moved, Disturbs
<1>4. /\ \A i \in Depths(k) : Spot(k, i) \in DOMAIN file' <=> Spot(k, i) \in DOMAIN file
      /\ \A i \in Depths(k) : i > 0 => (Spot(k, i) \in dirs' <=> Spot(k, i) \in dirs)
      /\ \A i \in Depths(k) : Spot(k, i) \in dirs => Spot(k, i) \in dirs'
      /\ \A n \in Inodes : Holds(n, k) => data'[n] = data[n]
      /\ acked'[k] = acked[k]
  BY <1>2, <1>3, KeyUntouched
<1>5. PICK x : x = k /\ \A n \in 0..Len(Last(x)) : Passed(x, n) => Passed(x, n)'
  <2>1. PICK x : x = k
    OBVIOUS
  <2>2. \A n \in 0..Len(Last(x)) : Passed(x, n) => Passed(x, n)'
    BY <1>2, <1>4, <2>1, PassedKept
  <2> QED BY <2>1, <2>2
<1>6. c.pc \in Looking \cup {"openPlace"} => Passed(k, c.lvl)'
  <2> HAVE c.pc \in Looking \cup {"openPlace"}
  <2>1. c.lvl <= Len(Last(k)) /\ Passed(k, c.lvl)
    BY <1>2 DEF CallOK, FitsLevel, Wiping, Looking, GetKnows
  <2>3. PICK n : n = c.lvl /\ n \in 0..Len(Last(k))
    BY <1>2, <2>1
  <2>4. Passed(x, n)'
    BY <1>5, <2>1, <2>3
  <2> QED BY <1>1, <1>5, <2>3, <2>4 DEF Passed, Spot
<1>7. c.pc = "openPlace" => c.lvl > 0 /\ Spot(k, c.lvl) \in dirs'
  <2> HAVE c.pc = "openPlace"
  <2>1. c.lvl \in Depths(k)
    BY <1>2 DEF CallOK, FitsLevel, Wiping
  <2> QED BY <1>4, <2>1 DEF GetKnows
<1>8. c.pc \in Reading => data'[c.fd] = data[c.fd]
  <2> HAVE c.pc \in Reading
  <2>1. c.fd \in Inodes
    BY <1>2 DEF CallOK, FitsFile
  <2>2. Holds(c.fd, k)
    BY DEF Holds
  <2> QED BY <1>4, <2>1, <2>2
<1> QED BY <1>1, <1>4, <1>6, <1>7, <1>8 DEF GetKnows, Passed, Spot

LEMMA OtherDelete ==
  ASSUME Typed, Heard, ProperDirs, NEW p \in Procs, Moved(p), Touches(p), proc[p].key \in Keys,
         NEW q \in Procs, q # p, proc[q] # Idle, Shape(proc[q]), DeleteKnows(proc[q])
  PROVE  DeleteKnows(proc[q])'
<1> DEFINE c == proc[q]
           k == c.key
<1>1. proc'[q] = c
  BY DEF Moved, Others
<1> SUFFICES ASSUME c.op = "iKeyDelete", c.alone, c.was \in Values \cup {Several}
             PROVE  DeleteKnows(proc[q])'
  BY <1>1 DEF DeleteKnows
<1>2. /\ proc[q].pc # "idle" /\ k \in Keys /\ c.todo \in Seq(Item)
  BY NotIdle, CallFields
<1>3. ~Disturbs(proc[p].op, proc[p].key, c)
  BY DEF Heard, Moved
<1>4. ~Changes(proc[p].op, proc[p].key, k)
  BY <1>3 DEF Disturbs
<1>5. \A i \in Depths(k) : Spot(k, i) \in dirs => Spot(k, i) \in dirs'
  BY <1>2, <1>4, KeyUntouched
<1>6. c.pc = "statDirect" => \E i \in Depths(k) : Spot(k, i) \in dirs'
  BY <1>5 DEF DeleteKnows
<1>7. c.pc \in Looking => \E i \in Depths(k) : i >= c.lvl /\ Spot(k, i) \in dirs'
  BY <1>5 DEF DeleteKnows
<1>8. c.pc \in Wiping => Agenda(k, Job(c))'
  <2> HAVE c.pc \in Wiping
  <2> DEFINE L == Job(c)
  <2>1. ASSUME NEW m \in DOMAIN L
        PROVE  Proper(L[m].dir) /\ IsPrefix(k, PathOf(L[m].dir))
    <3>1. m \in 1..(Len(c.todo) + 1) /\ Len(c.todo) \in Nat
      BY <1>2, LenProperties DEF Job
    <3>2. CASE m = 1
      BY <3>1, <3>2 DEF Job, Shape
    <3>3. CASE m # 1
      <4>1. m - 1 \in 1..Len(c.todo) /\ L[m] = c.todo[m - 1]
        BY <3>1, <3>3 DEF Job
      <4> QED BY <4>1 DEF Shape
    <3> QED BY <3>2, <3>3
  <2>2. ProperDirs'
    BY ProperKept
  <2>3. PICK x : x = c
    OBVIOUS
  <2>4. PICK M : M = L
    OBVIOUS
  <2>5. \A m \in DOMAIN M : /\ M[m].dir \in dirs' <=> M[m].dir \in dirs
                            /\ M[m].dir \in DOMAIN file' <=> M[m].dir \in DOMAIN file
                            /\ Children(M[m].dir)' = Children(M[m].dir)
    BY <1>2, <1>3, <2>1, <2>2, <2>3, <2>4, BelowUntouched
  <2>6. Agenda(k, M)
    BY <2>4 DEF DeleteKnows
  <2>7. PICK j : j = k
    OBVIOUS
  <2> HIDE DEF L, c, k
  <2>8. AllThere(M)'
    BY <2>5, <2>6 DEF Agenda, AllThere
  <2>9. EmptiesFirst(M)'
    BY <2>5, <2>6 DEF Agenda, EmptiesFirst
  <2>10. NothingTwice(M)' /\ ForARmdir(j, M)'
    BY <2>6, <2>7 DEF Agenda, NothingTwice, ForARmdir, Up
  <2>11. Agenda(j, M)'
    BY <2>8, <2>9, <2>10 DEF Agenda
  <2>12. Job(proc'[q]) = M /\ proc'[q].key = j
    BY <1>1, <2>4, <2>7 DEF L, c, k
  <2> QED BY <2>11, <2>12
          DEF c, k, L, Agenda, AllThere, EmptiesFirst, NothingTwice, ForARmdir
<1> QED BY <1>1, <1>6, <1>7, <1>8 DEF DeleteKnows, Spot, Depths

----------------------------------------------------------------------------
(* The list of a recursive delete.                                         *)

(* Every entry of a directory is dealt with once.                          *)
LEMMA EntriesInOrder ==
  ASSUME TreeOK, NEW d \in DirIds, NEW order \in SetToSeqs(Entries(d))
  PROVE  /\ order \in Seq(Item)
         /\ \A m \in 1..Len(order) : order[m] \in Entries(d)
         /\ \A e \in Entries(d) : \E m \in 1..Len(order) : order[m] = e
         /\ \A m, n \in 1..Len(order) : order[m] = order[n] => m = n
<1> DEFINE E == Entries(d)
           D == 1..Cardinality(E)
<1>1. order \in Seq(Item)
  BY EntriesType
<1>2. order \in [D -> E] /\ \A m, n \in D : m # n => order[m] # order[n]
  BY DEF SetToSeqs
<1>3. IsFiniteSet(E)
  <2> DEFINE C == Children(d)
             R == {[pc |-> "readDir", dir |-> x] : x \in C}
             U == IF d \in DOMAIN file THEN {[pc |-> "unlinkDir", dir |-> d]} ELSE {}
             f == [x \in C |-> [pc |-> "readDir", dir |-> x]]
  <2>1. C \subseteq dirs
    BY DEF Children
  <2>2. IsFiniteSet(C)
    BY <2>1, FS_Subset DEF TreeOK
  <2>3. f \in Surjection(C, R)
    BY DEF Surjection
  <2>4. E = R \cup U
    BY DEF Entries
  <2> HIDE DEF E, C, R, f
  <2>5. IsFiniteSet(U)
    BY FS_EmptySet, FS_Singleton
  <2> HIDE DEF U
  <2> QED BY <2>2, <2>3, <2>4, <2>5, FS_Surjection, FS_Union
<1> HIDE DEF E
<1>4. PICK c \in Nat : c = Cardinality(E)
  BY <1>3, FS_CardinalityType
<1>5. Len(order) = c /\ D = 1..c
  BY <1>2, <1>4
<1>6. IsFiniteSet(1..c) /\ Cardinality(1..c) = c
  BY <1>4, FS_Interval
<1>7. order \in Injection(1..c, E)
  BY <1>2, <1>5 DEF Injection, IsInjective
<1>8. order \in Surjection(1..c, E)
  BY <1>3, <1>4, <1>6, <1>7, FS_Injection
<1>9. \A e \in E : \E m \in 1..c : order[m] = e
  BY <1>8 DEF Surjection
<1> QED BY <1>1, <1>2, <1>5, <1>9 DEF E

(* What is read comes first, then its directory goes, then the rest.       *)
LEMMA ReadList ==
  ASSUME NEW order \in Seq(Item), NEW z \in Item, NEW todo \in Seq(Item),
         NEW M, M = Append(order, z) \o todo
  PROVE  /\ M \in Seq(Item) /\ M # <<>>
         /\ Len(order) \in Nat /\ Len(todo) \in Nat
         /\ Len(M) = Len(order) + 1 + Len(todo)
         /\ \A m \in 1..Len(order) : M[m] = order[m]
         /\ M[Len(order) + 1] = z
         /\ \A m \in 1..Len(todo) : M[Len(order) + 1 + m] = todo[m]
<1>1. Len(order) \in Nat /\ Len(todo) \in Nat
  BY LenProperties
<1> DEFINE a == Append(order, z)
<1>2. /\ a \in Seq(Item) /\ Len(a) = Len(order) + 1
      /\ \A m \in 1..Len(order) : a[m] = order[m]
      /\ a[Len(order) + 1] = z
  BY AppendProperties
<1> HIDE DEF a
<1>3. /\ M \in Seq(Item) /\ Len(M) = Len(a) + Len(todo)
      /\ \A i \in 1..(Len(a) + Len(todo)) : M[i] = IF i <= Len(a) THEN a[i] ELSE todo[i - Len(a)]
  BY <1>2, ConcatProperties DEF a
<1>4. \A m \in 1..Len(order) : M[m] = order[m]
  BY <1>1, <1>2, <1>3
<1>5. M[Len(order) + 1] = z
  BY <1>1, <1>2, <1>3
<1>6. ASSUME NEW m \in 1..Len(todo) PROVE M[Len(order) + 1 + m] = todo[m]
  <2>1. /\ Len(order) + 1 + m \in 1..(Len(a) + Len(todo)) /\ ~(Len(order) + 1 + m <= Len(a))
        /\ Len(order) + 1 + m - Len(a) = m
    BY <1>1, <1>2
  <2> QED BY <1>3, <2>1
<1>7. M # <<>>
  BY <1>1, <1>2, <1>3
<1> QED BY <1>1, <1>2, <1>3, <1>4, <1>5, <1>6, <1>7

(* The list a call has after it has taken its next item from M.            *)
LEMMA JobIs ==
  ASSUME NEW M \in Seq(Item), M # <<>>,
         NEW x, x.pc = M[1].pc, x.place = M[1].dir, x.todo = Tail(M)
  PROVE  /\ DOMAIN Job(x) = 1..Len(M) /\ \A m \in 1..Len(M) : Job(x)[m] = M[m]
         /\ x.pc \in Wiping /\ x.todo \in Seq(Item)
         /\ Len(M) \in Nat \ {0}
<1>1. Len(M) \in Nat \ {0}
  BY EmptySeq, LenProperties
<1>2. /\ Tail(M) \in Seq(Item) /\ Len(Tail(M)) = Len(M) - 1
      /\ \A i \in 1..Len(Tail(M)) : Tail(M)[i] = M[i + 1]
  BY HeadTailProperties
<1>3. M[1] \in Item
  BY <1>1, ElementOfSeq
<1>4. M[1] = [pc |-> x.pc, dir |-> x.place] /\ x.pc \in Wiping
  BY <1>3 DEF Item
<1>5. DOMAIN Job(x) = 1..Len(M)
  BY <1>1, <1>2 DEF Job
<1>6. ASSUME NEW m \in 1..Len(M) PROVE Job(x)[m] = M[m]
  <2>1. CASE m = 1
    <3>1. 1 \in 1..(Len(x.todo) + 1)
      BY <1>1, <1>2
    <3>2. Job(x)[1] = [pc |-> x.pc, dir |-> x.place]
      BY <3>1 DEF Job
    <3> QED BY <1>4, <2>1, <3>2
  <2>2. CASE m # 1
    <3>1. m - 1 \in 1..Len(Tail(M)) /\ m - 1 + 1 = m /\ m \in 1..(Len(x.todo) + 1)
      BY <1>1, <1>2, <2>2
    <3> QED BY <1>2, <2>2, <3>1 DEF Job
  <2> QED BY <2>1, <2>2
<1> QED BY <1>1, <1>2, <1>4, <1>5, <1>6

LEMMA JobParts ==
  ASSUME NEW c, c.todo \in Seq(Item)
  PROVE  /\ Len(c.todo) \in Nat
         /\ DOMAIN Job(c) = 1..(Len(c.todo) + 1)
         /\ Job(c)[1] = [pc |-> c.pc, dir |-> c.place]
         /\ \A m \in 1..Len(c.todo) : Job(c)[m + 1] = c.todo[m]
<1>1. Len(c.todo) \in Nat
  BY LenProperties
<1>2. ASSUME NEW m \in 1..Len(c.todo) PROVE Job(c)[m + 1] = c.todo[m]
  <2>1. m + 1 \in 1..(Len(c.todo) + 1) /\ m + 1 # 1 /\ m + 1 - 1 = m
    BY <1>1
  <2> QED BY <2>1 DEF Job
<1>3. 1 \in 1..(Len(c.todo) + 1)
  BY <1>1
<1> QED BY <1>1, <1>2, <1>3 DEF Job

(* All on the list is below the key.                                       *)
BelowKey(k, L) == \A m \in DOMAIN L : Proper(L[m].dir) /\ IsPrefix(k, PathOf(L[m].dir))

LEMMA ShapeOfJob ==
  ASSUME NEW c, c.todo \in Seq(Item), c.pc \in Wiping
  PROVE  Shape(c) <=> BelowKey(c.key, Job(c))
<1>1. /\ Len(c.todo) \in Nat
      /\ DOMAIN Job(c) = 1..(Len(c.todo) + 1)
      /\ Job(c)[1] = [pc |-> c.pc, dir |-> c.place]
      /\ \A m \in 1..Len(c.todo) : Job(c)[m + 1] = c.todo[m]
  BY JobParts
<1>2. Shape(c) <=> /\ Proper(c.place) /\ IsPrefix(c.key, PathOf(c.place))
                   /\ \A m \in 1..Len(c.todo) :
                        Proper(c.todo[m].dir) /\ IsPrefix(c.key, PathOf(c.todo[m].dir))
  BY DEF Shape, Wiping, Choosing
<1>3. ASSUME Shape(c) PROVE BelowKey(c.key, Job(c))
  <2> SUFFICES ASSUME NEW m \in 1..(Len(c.todo) + 1)
               PROVE  Proper(Job(c)[m].dir) /\ IsPrefix(c.key, PathOf(Job(c)[m].dir))
    BY <1>1 DEF BelowKey
  <2>1. CASE m = 1
    BY <1>1, <1>2, <1>3, <2>1
  <2>2. CASE m # 1
    <3>1. m - 1 \in 1..Len(c.todo) /\ m - 1 + 1 = m
      BY <1>1, <2>2
    <3>2. Job(c)[m] = c.todo[m - 1]
      BY <1>1, <3>1
    <3> QED BY <1>2, <1>3, <3>1, <3>2
  <2> QED BY <2>1, <2>2
<1>4. ASSUME BelowKey(c.key, Job(c)) PROVE Shape(c)
  <2>1. 1 \in DOMAIN Job(c) /\ \A m \in 1..Len(c.todo) : m + 1 \in DOMAIN Job(c)
    BY <1>1
  <2>2. Proper(c.place) /\ IsPrefix(c.key, PathOf(c.place))
    BY <1>1, <1>4, <2>1 DEF BelowKey
  <2>3. ASSUME NEW m \in 1..Len(c.todo)
        PROVE  Proper(c.todo[m].dir) /\ IsPrefix(c.key, PathOf(c.todo[m].dir))
    <3>1. m + 1 \in DOMAIN Job(c) /\ Job(c)[m + 1] = c.todo[m]
      BY <1>1, <2>1
    <3> QED BY <1>4, <3>1 DEF BelowKey
  <2> QED BY <1>2, <2>2, <2>3
<1> QED BY <1>3, <1>4

----------------------------------------------------------------------------
(* What a put knows after each of its steps.                               *)

LEMMA KnowsIdle ==
  ASSUME NEW p \in Procs, proc'[p] = Idle
  PROVE  CallKnows(p)'
BY DEF CallKnows

LEMMA KnowsAsPut ==
  ASSUME NEW p \in Procs, NEW x, proc'[p] = x, x.op = "iPut",
         Shape(x), Way(p)', PutKnows(x)'
  PROVE  CallKnows(p)'
<1>1. PutKnows(proc[p])'
  BY DEF PutKnows, Passed, Spot
<1>2. GetKnows(proc[p])' /\ DeleteKnows(proc[p])'
  BY DEF GetKnows, DeleteKnows
<1>3. Shape(proc[p])'
  BY DEF Shape, Spot, Depths
<1> QED BY <1>1, <1>2, <1>3 DEF CallKnows

LEMMA PassedSteps ==
  ASSUME FilesOK, NEW k \in Keys
  PROVE  /\ Passed(k, 0)
         /\ \A n \in Nat : Passed(k, n + 1) => Passed(k, n)
         /\ \A n \in Depths(k) : Passed(k, n) /\ Spot(k, n) \notin dirs => Passed(k, n + 1)
         /\ Spot(k, 0) \notin DOMAIN file => Passed(k, 1)
<1>1. Passed(k, 0)
  BY DEF Passed
<1>2. ASSUME NEW n \in Nat, Passed(k, n + 1) PROVE Passed(k, n)
  <2>1. n + 1 > 0 /\ \A j \in 1..(n - 1) : j \in 1..(n + 1 - 1)
    OBVIOUS
  <2> QED BY <1>2, <2>1 DEF Passed
<1>3. ASSUME NEW n \in Depths(k), Passed(k, n), Spot(k, n) \notin dirs PROVE Passed(k, n + 1)
  <2>1. n \in Nat
    BY <1>3, SpotFacts
  <2>2. \A j \in 1..(n + 1 - 1) : j \in 1..(n - 1) \/ j = n
    BY <2>1
  <2>3. Spot(k, 0) \notin DOMAIN file
    <3>1. CASE n = 0
      BY <1>3, <3>1 DEF FilesOK
    <3>2. CASE n > 0
      BY <1>3, <3>2 DEF Passed
    <3> QED BY <2>1, <3>1, <3>2
  <2>4. \A j \in 1..(n + 1 - 1) : Spot(k, j) \notin dirs
    BY <1>3, <2>2 DEF Passed
  <2> QED BY <2>1, <2>3, <2>4 DEF Passed
<1>4. Spot(k, 0) \notin DOMAIN file => Passed(k, 1)
  BY DEF Passed
<1> QED BY <1>1, <1>2, <1>3, <1>4

LEMMA PutWalks ==
  ASSUME Typed, CallsKnow, NEW p \in Procs, proc[p].op = "iPut",
         StatDirect(p) \/ StatParent(p) \/ CountLevel(p) \/ StatLevel(p) \/ StatRest(p)
  PROVE  CallKnows(p)'
<1>0. PICK c, k, x, i : c = proc[p] /\ k = c.key /\ x = proc'[p] /\ i = c.lvl
  OBVIOUS
<1>1. UNCHANGED fsys /\ c.pc \in Choosing \cup {"statDirect"}
  BY <1>0 DEF StatDirect, StatParent, CountLevel, StatLevel, StatRest, Choosing
<1>2. /\ proc[p].pc # "idle" /\ c # Idle /\ CallOK(p, c) /\ k \in Keys /\ i \in Nat
      /\ c.op = "iPut"
      /\ Shape(c) /\ PutKnows(c)
  BY <1>0, <1>1, CallFields DEF CallsKnow, CallKnows, Choosing
<1>3. i < Len(Last(k)) /\ i \in Depths(k) /\ (c.pc = "statDirect" => i = 0)
  <2>1. i < Len(Last(k)) /\ (c.pc = "statDirect" => i = 0)
    BY <1>0, <1>1, <1>2 DEF CallOK, FitsLevel, Choosing, Wiping
  <2> QED BY <1>0, <1>2, <2>1, CallFields
<1>4. c.made = 0 /\ c.todo = <<>>
  BY <1>1, <1>2 DEF Shape, Choosing, Wiping
<1>5. At(p, 0) = Spot(k, 0) /\ At(p, i) = Spot(k, i)
  BY <1>0 DEF At, Spot
<1>6. SUFFICES ASSUME x # Idle PROVE CallKnows(p)'
  BY <1>0, KnowsIdle
<1>7. \A n : Passed(k, n) => Passed(k, n)'
  BY <1>1 DEF fsys, Passed, Spot
<1>8. ASSUME Carries(x, c), x.made = 0, x.todo = <<>>,
             x.pc \in {"statParent", "count", "statLevel", "statRest", "statPlace"},
             c.alone => IF x.pc \in {"statParent", "count"} THEN Passed(k, x.lvl + 1) ELSE Passed(k, x.lvl)
      PROVE  CallKnows(p)'
  <2>1. x.op = "iPut" /\ x.key = k /\ x.alone = c.alone
    BY <1>0, <1>2, <1>8 DEF Carries
  <2>2. Shape(x)
    BY <1>8 DEF Shape, Wiping
  <2>3. Way(p)'
    BY <1>0, <1>8 DEF Way
  <2>4. PutKnows(x)'
    <3>1. c.alone => IF x.pc \in {"statParent", "count"} THEN Passed(k, x.lvl + 1)' ELSE Passed(k, x.lvl)'
      BY <1>7, <1>8
    <3>2. x.key' = x.key /\ x.lvl' = x.lvl /\ x.alone' = x.alone /\ x.pc' = x.pc /\ x.op' = x.op
      OBVIOUS
    <3>3. x.pc \in {"statParent", "count"} => x.pc \notin {"statLevel", "statRest"} \cup Making
      BY DEF Making
    <3>4. x.pc # "write"
      BY <1>8
    <3>5. x.alone => /\ x.pc \in {"statParent", "count"} => Passed(k, x.lvl + 1)'
                     /\ x.pc \notin {"statParent", "count"} => Passed(k, x.lvl)'
      BY <2>1, <3>1
    <3> QED BY <2>1, <3>2, <3>3, <3>4, <3>5 DEF PutKnows
  <2> QED BY <1>0, <2>1, <2>2, <2>3, <2>4, KnowsAsPut
<1>9. FilesOK
  BY DEF Typed
<1>10. ASSUME Found(p, At(p, i)), c.alone => Passed(k, i) PROVE CallKnows(p)'
  <2>1. /\ Carries(x, c) /\ x.pc = "statPlace" /\ x.lvl = i /\ x.made = 0 /\ x.todo = <<>>
    BY <1>0, <1>2, <1>4, <1>10, FoundMoves, NextOfEach
  <2> QED BY <1>8, <1>10, <2>1
<1>11. ASSUME NEW l \in {"statParent", "count", "statRest"}, Goto(p, l),
              c.alone => IF l # "statRest" THEN Passed(k, i + 1) ELSE Passed(k, i)
       PROVE  CallKnows(p)'
  <2>1. /\ Carries(x, c) /\ x.pc = l /\ x.lvl = i /\ x.made = 0 /\ x.todo = <<>>
    BY <1>0, <1>2, <1>4, <1>11, GotoMoves
  <2> QED BY <1>8, <1>11, <2>1
<1>12. CASE StatDirect(p)
  <2>1. i = 0 /\ c.pc = "statDirect"
    BY <1>0, <1>3, <1>12 DEF StatDirect
  <2>2. CASE At(p, 0) \in dirs
    <3>1. Found(p, At(p, i))
      BY <1>12, <2>1, <2>2 DEF StatDirect
    <3> QED BY <1>2, <1>9, <1>10, <2>1, <3>1, PassedSteps
  <2>3. CASE At(p, 0) \notin dirs
    <3>1. Goto(p, "statParent")
      BY <1>0, <1>2, <1>12, <2>3 DEF StatDirect
    <3>2. Passed(k, i + 1)
      BY <1>2, <1>3, <1>5, <1>9, <2>1, <2>3, PassedSteps
    <3> QED BY <1>11, <3>1, <3>2
  <2> QED BY <2>2, <2>3
<1>13. CASE CountLevel(p)
  <2>1. c.alone => Passed(k, i + 1)
    BY <1>0, <1>2, <1>13 DEF CountLevel, PutKnows
  <2>2. c.alone => Passed(k, i)
    BY <1>2, <1>9, <2>1, PassedSteps
  <2>3. CASE Found(p, At(p, i))
    BY <1>10, <2>2, <2>3
  <2>4. CASE GoDeeper(p, "statLevel")
    <3>1. /\ Carries(x, c) /\ x.pc = "statLevel" /\ x.lvl = i + 1 /\ x.made = 0 /\ x.todo = <<>>
      BY <1>0, <1>2, <1>4, <2>4, GoDeeperMoves
    <3> QED BY <1>8, <2>1, <3>1
  <2>5. CASE Return(p, IDB_ERR_PART_FULL)
    BY <1>0, <1>2, <1>6, <2>5, ReturnMoves
  <2> QED BY <1>0, <1>13, <2>3, <2>4, <2>5 DEF CountLevel
<1>14. CASE StatLevel(p)
  <2>1. c.alone => Passed(k, i)
    BY <1>0, <1>2, <1>14 DEF StatLevel, PutKnows
  <2>2. Goto(p, "statRest") \/ Found(p, At(p, i))
    BY <1>0, <1>14 DEF StatLevel
  <2> QED BY <1>10, <1>11, <2>1, <2>2
<1>15. CASE StatRest(p)
  <2>1. c.alone => Passed(k, i)
    BY <1>0, <1>2, <1>15 DEF StatRest, PutKnows
  <2>2. CASE At(p, i) \in dirs
    <3>1. Found(p, At(p, i))
      BY <1>0, <1>15, <2>2 DEF StatRest
    <3> QED BY <1>10, <2>1, <3>1
  <2>3. CASE At(p, i) \notin dirs
    <3>1. Goto(p, "count")
      BY <1>0, <1>15, <2>3 DEF StatRest
    <3>2. c.alone => Passed(k, i + 1)
      BY <1>2, <1>3, <1>5, <1>9, <2>1, <2>3, PassedSteps
    <3> QED BY <1>11, <3>1, <3>2
  <2> QED BY <2>2, <2>3
<1>16. CASE StatParent(p)
  <2>1. c.alone => Passed(k, i + 1)
    BY <1>0, <1>2, <1>16 DEF StatParent, PutKnows
  <2>2. c.alone => Passed(k, i)
    BY <1>2, <1>9, <2>1, PassedSteps
  <2>3. i = 0
    BY <1>0, <1>2, <1>16 DEF StatParent, CallOK, FitsLevel
  <2>4. CASE Found(p, At(p, 0))
    BY <1>10, <2>2, <2>3, <2>4
  <2>5. CASE Goto(p, "count")
    BY <1>11, <2>1, <2>5
  <2> QED BY <1>16, <2>4, <2>5 DEF StatParent
<1> QED BY <1>12, <1>13, <1>14, <1>15, <1>16

LEMMA PutStats ==
  ASSUME Typed, CallsKnow, NEW p \in Procs, StatPlace(p)
  PROVE  CallKnows(p)'
<1>0. PICK c, k, x, i : c = proc[p] /\ k = c.key /\ x = proc'[p] /\ i = c.lvl
  OBVIOUS
<1> DEFINE l == IF c.place \in dirs THEN "openWrite" ELSE "mkdir"
<1>1. UNCHANGED fsys /\ c.pc = "statPlace" /\ Goto(p, l)
  BY <1>0 DEF StatPlace
<1>2. /\ proc[p].pc # "idle" /\ c # Idle /\ CallOK(p, c) /\ k \in Keys
      /\ Shape(c) /\ PutKnows(c)
      /\ c.lvl < Len(Last(k)) => i \in Depths(k)
  BY <1>0, <1>1, CallFields DEF CallsKnow, CallKnows
<1>3. /\ c.op = "iPut" /\ i \in Depths(k) /\ c.place = Spot(k, i)
      /\ c.made = 0 /\ c.todo = <<>>
  BY <1>0, <1>1, <1>2 DEF CallOK, FitsOp, FitsLevel, Making, Wiping, Spot, Shape
<1>4. /\ Carries(x, c) /\ x.pc = l /\ x.lvl = i /\ x.place = c.place
      /\ x.made = 0 /\ x.todo = <<>>
  BY <1>0, <1>1, <1>2, <1>3, GotoMoves
<1>5. x.op = "iPut" /\ x.key = k /\ x.alone = c.alone
  BY <1>0, <1>3, <1>4 DEF Carries
<1>6. Shape(x)
  BY <1>4 DEF Shape, Wiping, Choosing
<1>7. Way(p)'
  <2>1. CASE c.place \in dirs
    <3>1. x.pc = "openWrite" /\ x.place \in dirs'
      BY <1>1, <1>4, <2>1 DEF fsys
    <3> QED BY <1>0, <3>1 DEF Way
  <2>2. CASE c.place \notin dirs
    <3>1. x.pc = "mkdir"
      BY <1>4, <2>2
    <3>2. Target(p)' = WayTo(k, i, 0)
      BY <1>0, <1>3, <1>4, <1>5 DEF Target, WayTo, LevelOf
    <3>3. Up(WayTo(k, i, 0)) = Root
      BY <1>2, <1>3, WayFacts
    <3> QED BY <1>0, <3>1, <3>2, <3>3 DEF Way, Up
  <2> QED BY <2>1, <2>2
<1>8. PutKnows(x)'
  <2>1. c.alone => Passed(k, i)
    BY <1>0, <1>1, <1>2, <1>3 DEF PutKnows, Making
  <2>2. Passed(k, i) => Passed(k, i)'
    BY <1>1 DEF fsys, Passed, Spot
  <2> QED BY <1>4, <1>5, <2>1, <2>2 DEF PutKnows
<1> QED BY <1>0, <1>5, <1>6, <1>7, <1>8, KnowsAsPut

LEMMA PutMakes ==
  ASSUME Typed, CallsKnow, NEW p \in Procs, Mkdir(p)
  PROVE  CallKnows(p)'
<1>0. PICK c, k, x, i, m : /\ c = proc[p] /\ k = c.key /\ x = proc'[p] /\ i = c.lvl
                           /\ m = c.made
  OBVIOUS
<1>1. UNCHANGED <<file, data>> /\ c.pc = "mkdir"
  BY <1>0 DEF Mkdir
<1>2. /\ proc[p].pc # "idle" /\ c # Idle /\ c \in CallType /\ k \in Keys /\ m \in Nat
      /\ Shape(c) /\ PutKnows(c) /\ Way(p)
  BY <1>0, <1>1, CallFields DEF CallsKnow, CallKnows
<1>3. c.op = "iPut" /\ i \in Depths(k) /\ c.place = Spot(k, i) /\ Target(p) = WayTo(k, i, m)
  BY <1>0, <1>1, TargetOnWay
<1> DEFINE d == WayTo(k, i, m)
           ok == Up(d) \in dirs \cup {Root}
           l == IF ok /\ d # c.place THEN "mkdir" ELSE "openWrite"
<1>4. /\ Carries(x, c) /\ x.pc = l /\ x.lvl = i /\ x.place = c.place
      /\ x.made = m + 1 /\ x.todo = c.todo
      /\ dirs' = IF ok THEN dirs \cup {d} ELSE dirs
  <2>1. /\ x = [c EXCEPT !.made = @ + 1, !.pc = l]
        /\ dirs' = IF ok THEN dirs \cup {d} ELSE dirs
    BY <1>0, <1>3 DEF Mkdir, Typed, ProgramOK
  <2> HIDE DEF l, d
  <2> QED BY <1>0, <1>2, <2>1 DEF CallType, Carries
<1>5. x.op = "iPut" /\ x.key = k /\ x.alone = c.alone /\ x.kept = c.kept
  BY <1>0, <1>3, <1>4 DEF Carries
<1>6. Shape(x)
  BY <1>1, <1>2, <1>4 DEF Shape, Wiping, Choosing
<1>7. Way(p)'
  <2>1. SUFFICES ASSUME c.kept PROVE Way(p)'
    BY <1>0, <1>5 DEF Way
  <2>2. ok
    BY <1>0, <1>1, <1>2, <1>3, <2>1 DEF Way
  <2>3. CASE d = c.place
    <3>1. x.pc = "openWrite" /\ x.place \in dirs'
      BY <1>4, <2>2, <2>3
    <3> QED BY <1>0, <3>1 DEF Way
  <2>4. CASE d # c.place
    <3>1. x.pc = "mkdir" /\ d \in dirs'
      BY <1>4, <2>2, <2>4
    <3>2. Target(p)' = WayTo(k, i, m + 1)
      BY <1>0, <1>3, <1>4, <1>5 DEF Target, WayTo, LevelOf
    <3>3. Up(WayTo(k, i, m + 1)) = d
      BY <1>2, <1>3, <2>4, WayFacts
    <3> HIDE DEF d
    <3> QED BY <1>0, <3>1, <3>2, <3>3 DEF Way, Up
  <2> QED BY <2>3, <2>4
<1>8. PutKnows(x)'
  <2>1. c.alone => Passed(k, i)
    BY <1>0, <1>1, <1>2, <1>3 DEF PutKnows, Making
  <2>2. ASSUME Passed(k, i) PROVE Passed(k, i)'
    <3>1. i \in Nat
      BY <1>2, <1>3, SpotFacts
    <3>2. ASSUME NEW j \in 1..(i - 1), Spot(k, j) \in dirs' PROVE FALSE
      <4>1. Spot(k, j) \notin dirs
        BY <2>2 DEF Passed
      <4>2. Spot(k, j) = d
        BY <1>4, <3>2, <4>1
      <4>3. j \in Depths(k) /\ j > 0 /\ j # i
        <5>1. i < Len(Last(k)) /\ Len(Last(k)) \in Nat
          BY <1>2, <1>3, SpotFacts, KeyParts
        <5> QED BY <3>1, <5>1 DEF Depths
      <4>4. d # Spot(k, i)
        BY <1>2, <1>3, <4>2, <4>3, SpotInjective
      <4>5. \A y \in Keys : \A e \in Depths(y) : e > 0 => d # Spot(y, e)
        BY <1>2, <1>3, <4>4, WayFacts
      <4> QED BY <1>2, <4>2, <4>3, <4>5
    <3> QED BY <1>1, <2>2, <3>2 DEF Passed, Spot
  <2> QED BY <1>4, <1>5, <2>1, <2>2 DEF PutKnows
<1> QED BY <1>0, <1>5, <1>6, <1>7, <1>8, KnowsAsPut

LEMMA PutOpens ==
  ASSUME Typed, CallsKnow, NEW p \in Procs, OpenWrite(p)
  PROVE  CallKnows(p)'
<1>0. PICK c, k, x, i, d : /\ c = proc[p] /\ k = c.key /\ x = proc'[p] /\ i = c.lvl
                           /\ d = c.place
  OBVIOUS
<1> DEFINE n == IF d \in DOMAIN file THEN file[d] ELSE Fresh
<1>1. c.pc = "openWrite" /\ UNCHANGED dirs
  BY <1>0 DEF OpenWrite
<1>2. /\ proc[p].pc # "idle" /\ c # Idle /\ CallOK(p, c) /\ k \in Keys
      /\ Shape(c) /\ PutKnows(c)
      /\ i < Len(Last(k)) => i \in Depths(k)
  BY <1>0, <1>1, CallFields DEF CallsKnow, CallKnows
<1>3. c.op = "iPut" /\ i \in Depths(k) /\ d = Spot(k, i) /\ c.todo = <<>>
  BY <1>0, <1>1, <1>2 DEF CallOK, FitsOp, FitsLevel, Making, Wiping, Spot, Shape
<1>4. CASE Return(p, 1)
  BY <1>2, <1>4, ReturnMoves, KnowsIdle
<1>5. CASE /\ d \in DOMAIN file \/ FreshLeft
           /\ file' = [y \in DOMAIN file \cup {d} |-> IF y = d THEN n ELSE file[y]]
           /\ data' = [data EXCEPT ![n] = <<>>]
           /\ Opened(p, n, "write")
  <2>1. n \in Inodes
    BY <1>5 DEF FreshLeft, Fresh, Typed, FilesOK
  <2>2. /\ Carries(x, c) /\ x.pc = "write" /\ x.fd = n
        /\ x.lvl = i /\ x.place = d /\ x.todo = <<>>
    <3>1. PICK y : y = n
      OBVIOUS
    <3>2. Opened(p, y, "write") /\ proc[p].pc # "idle"
      BY <1>2, <1>5, <3>1
    <3> HIDE DEF n
    <3>3. /\ Carries(proc'[p], proc[p]) /\ proc'[p].pc = "write" /\ proc'[p].fd = y
          /\ proc'[p].lvl = proc[p].lvl /\ proc'[p].place = proc[p].place
          /\ proc'[p].todo = proc[p].todo
      BY <3>2, OpenedMoves
    <3> QED BY <1>0, <1>3, <3>1, <3>3
  <2>3. x.op = "iPut" /\ x.key = k /\ x.alone = c.alone
    BY <1>0, <1>3, <2>2 DEF Carries
  <2>4. Shape(x)
    BY <1>3, <2>2, <2>3 DEF Shape, Wiping, Choosing
  <2>5. d \in DOMAIN file' /\ file'[d] = n /\ data'[n] = <<>>
    BY <1>5, <2>1 DEF Typed, FilesOK
  <2>6. DOMAIN file' = DOMAIN file \cup {d}
    BY <1>5
  <2> HIDE DEF n
  <2>7. Way(p)'
    BY <1>0, <2>2, <2>5 DEF Way
  <2>8. PutKnows(x)'
    <3>1. c.alone => Passed(k, i)
      BY <1>0, <1>1, <1>2, <1>3 DEF PutKnows, Making
    <3>2. ASSUME Passed(k, i) PROVE Passed(k, i)'
      <4>1. i > 0 => Spot(k, 0) # d
        <5>1. 0 \in Depths(k)
          BY <1>2, KeyParts DEF Depths
        <5> QED BY <1>2, <1>3, <5>1, SpotInjective
      <4> QED BY <1>1, <2>6, <3>2, <4>1 DEF Passed, Spot
    <3> QED BY <2>2, <2>3, <2>5, <3>1, <3>2 DEF PutKnows
  <2> QED BY <1>0, <2>3, <2>4, <2>7, <2>8, KnowsAsPut
<1> QED BY <1>0, <1>4, <1>5 DEF OpenWrite

----------------------------------------------------------------------------
(* What a get knows after each of its steps, and what it answers.          *)

\* A step that ends a call answers as an undisturbed call has to.
Answers(p) ==
  \/ UNCHANGED last
  \/ LET c == proc[p] IN
     /\ last'.op = c.op /\ last'.was = c.was /\ last'.alone = c.alone
     /\ c.op = "iGet" /\ c.alone /\ c.was \in Values \cup {NoValue} => last'.ret = c.was
     /\ c.op = "iKeyDelete" /\ c.alone /\ c.was \in Values \cup {Several} => last'.ret = TRUE

LEMMA KnowsAsGet ==
  ASSUME NEW p \in Procs, NEW x, proc'[p] = x, x.op = "iGet",
         Shape(x), GetKnows(x)'
  PROVE  CallKnows(p)'
<1>1. GetKnows(proc[p])'
  BY DEF GetKnows, Passed, Spot
<1>2. PutKnows(proc[p])' /\ DeleteKnows(proc[p])' /\ Way(p)'
  BY DEF PutKnows, DeleteKnows, Way
<1>3. Shape(proc[p])'
  BY DEF Shape, Spot, Depths
<1> QED BY <1>1, <1>2, <1>3 DEF CallKnows

LEMMA Undisturbed ==
  ASSUME Typed, Heard, KeysKnown, NEW p \in Procs, proc[p].pc # "idle", proc[p].op = "iGet",
         GetKnows(proc[p]), proc[p].alone, proc[p].was \in Values \cup {NoValue}
  PROVE  /\ acked[proc[p].key] = proc[p].was
         /\ proc[p].was \in Values => Written(proc[p].key, proc[p].was)
         /\ proc[p].was = NoValue => Unwritten(proc[p].key)
<1>0. PICK k : k = proc[p].key
  OBVIOUS
<1>1. proc[p] # Idle /\ k \in Keys
  BY <1>0, CallFields
<1>2. acked[k] = proc[p].was
  BY <1>0 DEF GetKnows
<1>3. ASSUME NEW q \in Procs, Putting(q, k) PROVE FALSE
  <2>1. q # p /\ proc[q] # Idle /\ proc[q].op = "iPut" /\ proc[q].key = k
    BY <1>3 DEF Putting
  <2>2. ~Disturbs("iPut", k, proc[p])
    BY <1>1, <2>1 DEF Heard
  <2> QED BY <1>0, <2>2 DEF Disturbs, Changes
<1>4. KeyKnows(k)
  BY <1>1 DEF KeysKnown
<1> QED BY <1>0, <1>2, <1>3, <1>4 DEF KeyKnows

LEMMA WrittenFurther ==
  ASSUME Typed, NEW k \in Keys, NEW n \in Nat, n > 0, Passed(k, n), NEW i \in Depths(k),
         NEW v, WrittenAt(k, i, v)
  PROVE  /\ i >= n /\ Level(Front(k), Last(k), n) \in dirs
         /\ n \in Depths(k) /\ (Spot(k, n) \in dirs => i = n)
<1>1. Spot(k, i) \in DOMAIN file /\ Passed(k, i)
  BY DEF WrittenAt
<1>2. Spot(k, i) \in dirs
  BY <1>1 DEF Typed, FilesOK
<1>3. i \in Nat /\ Len(Last(k)) \in Nat
  BY SpotFacts, KeyParts
<1>4. i # 0
  BY <1>1 DEF Passed
<1>5. i \notin 1..(n - 1)
  BY <1>2 DEF Passed
<1>6. i >= n
  BY <1>3, <1>4, <1>5
<1>7. n \in 1..i
  BY <1>3, <1>6
<1>8. Level(Front(k), Last(k), n) \in dirs
  BY <1>2, <1>7, LevelsOfSpot DEF Typed
<1>9. n \in Depths(k)
  BY <1>3, <1>6 DEF Depths
<1>10. ASSUME Spot(k, n) \in dirs PROVE i = n
  <2>1. n \notin 1..(i - 1)
    BY <1>1, <1>10 DEF Passed
  <2> QED BY <1>3, <1>6, <2>1
<1> QED BY <1>6, <1>8, <1>9, <1>10

LEMMA OpenDirectKnows ==
  ASSUME Typed, Heard, CallsKnow, KeysKnown, NEW p \in Procs, OpenDirect(p)
  PROVE  CallKnows(p)' /\ UNCHANGED last
<1>0. PICK c, k, x : c = proc[p] /\ k = c.key /\ x = proc'[p]
  OBVIOUS
<1>1. c.pc = "openDirect" /\ UNCHANGED <<fsys, dirs, file, data>>
  BY <1>0 DEF OpenDirect, fsys
<1>2. /\ proc[p].pc # "idle" /\ c # Idle /\ CallOK(p, c) /\ k \in Keys
      /\ Shape(c) /\ GetKnows(c) /\ 0 \in Depths(k)
  BY <1>0, <1>1, CallFields DEF CallsKnow, CallKnows, Depths
<1>3. c.op = "iGet" /\ c.lvl = 0 /\ c.todo = <<>> /\ At(p, 0) = Spot(k, 0)
  BY <1>0, <1>1, <1>2 DEF CallOK, FitsOp, FitsLevel, Shape, Wiping, At, Spot
<1>4. CASE Opened(p, file[At(p, 0)], "lseek") /\ At(p, 0) \in DOMAIN file
  <2>1. /\ Carries(x, c) /\ x.pc = "lseek" /\ x.fd = file[Spot(k, 0)] /\ x.todo = <<>>
        /\ UNCHANGED <<last, acked>>
    BY <1>0, <1>2, <1>3, <1>4, OpenedMoves
  <2>2. /\ x.op = "iGet" /\ x.key = k /\ x.was = c.was /\ x.alone = c.alone
    BY <1>0, <1>3, <2>1 DEF Carries
  <2>3. Shape(x)
    BY <2>1 DEF Shape, Wiping, Choosing
  <2>4. ASSUME c.alone, c.was \in Values \cup {NoValue}
        PROVE  c.was \in Values /\ data[file[Spot(k, 0)]] = c.was /\ acked[k] = c.was
    <3>1. /\ c.was \in Values => Written(k, c.was)
          /\ c.was = NoValue => Unwritten(k)
          /\ acked[k] = c.was
      BY <1>0, <1>2, <1>3, <2>4, Undisturbed
    <3>2. c.was # NoValue
      BY <1>2, <1>3, <1>4, <3>1 DEF Unwritten
    <3>3. PICK i \in Depths(k) : WrittenAt(k, i, c.was)
      BY <2>4, <3>1, <3>2 DEF Written
    <3>4. i \in Nat
      BY <1>2, SpotFacts
    <3>5. i = 0
      BY <1>3, <1>4, <3>3, <3>4 DEF WrittenAt, Passed
    <3> QED BY <2>4, <3>1, <3>2, <3>3, <3>5 DEF WrittenAt
  <2>5. GetKnows(x)'
    BY <1>1, <2>1, <2>2, <2>4 DEF GetKnows, Looking, Reading
  <2> QED BY <1>0, <2>1, <2>2, <2>3, <2>5, KnowsAsGet
<1>5. CASE GoDeeper(p, "lookLevel") /\ At(p, 0) \notin DOMAIN file
  <2>1. /\ Carries(x, c) /\ x.pc = "lookLevel" /\ x.lvl = 1 /\ x.todo = <<>>
        /\ UNCHANGED <<last, acked>>
    BY <1>0, <1>2, <1>3, <1>5, GoDeeperMoves
  <2>2. /\ x.op = "iGet" /\ x.key = k /\ x.was = c.was /\ x.alone = c.alone
    BY <1>0, <1>3, <2>1 DEF Carries
  <2>3. Shape(x)
    BY <2>1 DEF Shape, Wiping, Choosing
  <2>4. Passed(k, 1)'
    <3>1. Passed(k, 1)
      BY <1>2, <1>3, <1>5, PassedSteps DEF Typed
    <3> QED BY <1>1, <3>1 DEF Passed, Spot
  <2>5. c.alone /\ c.was \in Values \cup {NoValue} => acked[k] = c.was
    BY <1>0, <1>2, <1>3 DEF GetKnows
  <2>6. GetKnows(x)'
    BY <2>1, <2>2, <2>4, <2>5 DEF GetKnows, Looking, Reading
  <2> QED BY <1>0, <2>1, <2>2, <2>3, <2>6, KnowsAsGet
<1> QED BY <1>4, <1>5 DEF OpenDirect

LEMMA GetLooks ==
  ASSUME Typed, Heard, CallsKnow, KeysKnown, NEW p \in Procs, proc[p].op = "iGet",
         LookLevel(p) \/ LookRest(p)
  PROVE  CallKnows(p)' /\ Answers(p)
<1>0. PICK c, k, x, n : c = proc[p] /\ k = c.key /\ x = proc'[p] /\ n = c.lvl
  OBVIOUS
<1>1. c.pc \in Looking /\ UNCHANGED <<dirs, file, data>>
  BY <1>0 DEF LookLevel, LookRest, fsys, Looking
<1>2. /\ proc[p].pc # "idle" /\ c # Idle /\ CallOK(p, c) /\ k \in Keys
      /\ Shape(c) /\ GetKnows(c) /\ Len(Last(k)) \in Nat
  BY <1>0, <1>1, CallFields DEF CallsKnow, CallKnows, Looking
<1>3. /\ n \in Nat /\ n > 0 /\ c.todo = <<>> /\ At(p, n) = Spot(k, n)
      /\ LevelOf(p, n) = Level(Front(k), Last(k), n)
  <2>1. n \in 1..Len(Last(k))
    BY <1>0, <1>1, <1>2 DEF CallOK, FitsLevel
  <2> QED BY <1>0, <1>1, <1>2, <2>1 DEF Shape, Wiping, Looking, At, LevelOf, Spot
<1> DEFINE quiet == c.alone /\ c.was \in Values \cup {NoValue}
<1>4. quiet => /\ acked[k] = c.was /\ Passed(k, n)
               /\ (c.was \in Values => Written(k, c.was))
  <2>1. SUFFICES ASSUME quiet PROVE /\ acked[k] = c.was /\ Passed(k, n)
                                    /\ (c.was \in Values => Written(k, c.was))
    OBVIOUS
  <2>2. acked[k] = c.was /\ Passed(k, n)
    BY <1>0, <1>1, <1>2, <2>1 DEF GetKnows
  <2> QED BY <1>0, <1>2, <2>1, <2>2, Undisturbed
<1>5. ASSUME NEW l \in Looking \cup {"openPlace"}, NEW e \in Nat, Carries(x, c), x.pc = l,
             x.lvl = e, x.todo = <<>>, UNCHANGED <<last, acked>>,
             quiet => Passed(k, e) /\ (l = "openPlace" => e > 0 /\ Spot(k, e) \in dirs)
      PROVE  CallKnows(p)' /\ Answers(p)
  <2>2. /\ x.op = "iGet" /\ x.key = k /\ x.was = c.was /\ x.alone = c.alone
    BY <1>0, <1>5 DEF Carries
  <2>3. Shape(x)
    BY <1>5 DEF Shape, Wiping, Choosing, Looking
  <2>4. Passed(k, e) => Passed(k, e)'
    BY <1>1 DEF Passed, Spot
  <2>5. GetKnows(x)'
    <3>1. SUFFICES ASSUME quiet PROVE GetKnows(x)'
      BY <2>2 DEF GetKnows
    <3>2. Passed(k, e)' /\ acked'[k] = c.was
      BY <1>4, <1>5, <2>4, <3>1
    <3>3. l = "openPlace" => e > 0 /\ Spot(k, e)' \in dirs'
      BY <1>1, <1>5, <3>1 DEF Spot
    <3>4. x.pc \notin Reading
      BY <1>5 DEF Reading, Looking
    <3>5. x.pc # "read"
      BY <1>5 DEF Looking
    <3> QED BY <1>5, <2>2, <3>2, <3>3, <3>4, <3>5 DEF GetKnows
  <2> QED BY <1>0, <1>5, <2>2, <2>3, <2>5, KnowsAsGet DEF Answers
<1>6. CASE LookLevel(p)
  <2>1. CASE LevelOf(p, n) \in dirs
    <3>1. Goto(p, "lookRest")
      BY <1>0, <1>6, <2>1 DEF LookLevel
    <3>2. /\ Carries(x, c) /\ x.pc = "lookRest" /\ x.lvl = n /\ x.todo = <<>>
          /\ UNCHANGED <<last, acked>>
      BY <1>0, <1>2, <1>3, <3>1, GotoMoves
    <3>3. "lookRest" \in Looking \cup {"openPlace"}
      BY DEF Looking
    <3> QED BY <1>3, <1>4, <1>5, <3>2, <3>3
  <2>2. CASE LevelOf(p, n) \notin dirs
    <3>1. Return(p, NoValue)
      BY <1>0, <1>6, <2>2 DEF LookLevel
    <3>2. /\ proc'[p] = Idle /\ last'.op = "iGet" /\ last'.ret = NoValue
          /\ last'.was = c.was /\ last'.alone = c.alone
      BY <1>0, <1>2, <3>1, ReturnMoves
    <3>3. ASSUME quiet PROVE c.was = NoValue
      <4>1. SUFFICES ASSUME c.was \in Values PROVE FALSE
        BY <3>3
      <4>2. PICK i \in Depths(k) : WrittenAt(k, i, c.was)
        BY <1>4, <3>3, <4>1 DEF Written
      <4>3. Level(Front(k), Last(k), n) \in dirs
        BY <1>2, <1>3, <1>4, <3>3, <4>2, WrittenFurther
      <4> QED BY <1>3, <2>2, <4>3
    <3>4. Answers(p)
      BY <1>0, <3>2, <3>3 DEF Answers
    <3> QED BY <3>2, <3>4, KnowsIdle
  <2> QED BY <2>1, <2>2
<1>7. CASE LookRest(p)
  <2>0. n \in Depths(k)
    BY <1>0, <1>2, <1>3, <1>7 DEF CallOK, FitsLevel, LookRest, Depths, Wiping
  <2>1. CASE At(p, n) \in dirs
    <3>1. Found(p, At(p, n))
      BY <1>0, <1>7, <2>1 DEF LookRest
    <3>2. /\ Carries(x, c) /\ x.pc = "openPlace" /\ x.lvl = n /\ x.todo = <<>>
          /\ UNCHANGED <<last, acked>>
      BY <1>0, <1>2, <1>3, <3>1, FoundMoves, NextOfEach
    <3> QED BY <1>3, <1>4, <1>5, <2>1, <3>2
  <2>2. CASE At(p, n) \notin dirs
    <3>1. GoDeeper(p, "lookLevel")
      BY <1>0, <1>7, <2>2 DEF LookRest
    <3>2. /\ Carries(x, c) /\ x.pc = "lookLevel" /\ x.lvl = n + 1 /\ x.todo = <<>>
          /\ UNCHANGED <<last, acked>>
      BY <1>0, <1>2, <1>3, <3>1, GoDeeperMoves
    <3>3. "lookLevel" \in Looking \cup {"openPlace"} /\ n + 1 \in Nat
      BY <1>3 DEF Looking
    <3>4. quiet => Passed(k, n + 1)
      BY <1>2, <1>3, <1>4, <2>0, <2>2, PassedSteps DEF Typed
    <3> HIDE DEF quiet
    <3> QED BY <1>5, <3>2, <3>3, <3>4
  <2> QED BY <2>1, <2>2
<1> QED BY <1>6, <1>7

LEMMA OpenPlaceKnows ==
  ASSUME Typed, Heard, CallsKnow, KeysKnown, NEW p \in Procs, OpenPlace(p)
  PROVE  CallKnows(p)' /\ Answers(p)
<1>0. PICK c, k, x, n : c = proc[p] /\ k = c.key /\ x = proc'[p] /\ n = c.lvl
  OBVIOUS
<1>1. c.pc = "openPlace" /\ UNCHANGED <<dirs, file, data>>
  BY <1>0 DEF OpenPlace, fsys
<1>2. /\ proc[p].pc # "idle" /\ c # Idle /\ CallOK(p, c) /\ k \in Keys
      /\ Shape(c) /\ GetKnows(c) /\ n \in Nat
      /\ n < Len(Last(k)) => n \in Depths(k)
  BY <1>0, <1>1, CallFields DEF CallsKnow, CallKnows
<1>3. c.op = "iGet" /\ n \in Depths(k) /\ c.todo = <<>> /\ c.place = Spot(k, n)
  BY <1>0, <1>1, <1>2 DEF CallOK, FitsOp, FitsLevel, Shape, Wiping, Making, Spot
<1> DEFINE quiet == c.alone /\ c.was \in Values \cup {NoValue}
<1>4. ASSUME quiet
      PROVE  /\ acked[k] = c.was
             /\ c.was = NoValue => Unwritten(k)
             /\ c.was \in Values => WrittenAt(k, n, c.was)
  <2>1. /\ acked[k] = c.was
        /\ c.was \in Values => Written(k, c.was)
        /\ c.was = NoValue => Unwritten(k)
    BY <1>0, <1>2, <1>3, <1>4, Undisturbed
  <2>2. n > 0 /\ Passed(k, n) /\ Spot(k, n) \in dirs
    BY <1>0, <1>1, <1>2, <1>3, <1>4 DEF GetKnows
  <2>3. ASSUME c.was \in Values PROVE WrittenAt(k, n, c.was)
    <3>1. PICK i \in Depths(k) : WrittenAt(k, i, c.was)
      BY <2>1, <2>3 DEF Written
    <3>2. i = n
      BY <1>2, <2>2, <3>1, WrittenFurther
    <3> QED BY <3>1, <3>2
  <2> QED BY <2>1, <2>3
<1>5. CASE Opened(p, file[c.place], "lseek") /\ c.place \in DOMAIN file
  <2>1. /\ Carries(x, c) /\ x.pc = "lseek" /\ x.fd = file[Spot(k, n)] /\ x.todo = <<>>
        /\ UNCHANGED <<last, acked>>
    BY <1>0, <1>2, <1>3, <1>5, OpenedMoves
  <2>2. /\ x.op = "iGet" /\ x.key = k /\ x.was = c.was /\ x.alone = c.alone
    BY <1>0, <1>3, <2>1 DEF Carries
  <2>3. Shape(x)
    BY <2>1 DEF Shape, Wiping, Choosing
  <2>4. ASSUME quiet
        PROVE  c.was \in Values /\ data[file[Spot(k, n)]] = c.was /\ acked[k] = c.was
    <3>1. c.was # NoValue
      BY <1>3, <1>4, <1>5, <2>4 DEF Unwritten
    <3>2. c.was \in Values
      BY <2>4, <3>1
    <3> QED BY <1>4, <2>4, <3>2 DEF WrittenAt
  <2>5. GetKnows(x)'
    BY <1>1, <2>1, <2>2, <2>4 DEF GetKnows, Looking, Reading
  <2> QED BY <1>0, <2>1, <2>2, <2>3, <2>5, KnowsAsGet DEF Answers
<1>6. CASE Return(p, NoValue) /\ c.place \notin DOMAIN file
  <2>1. /\ proc'[p] = Idle /\ last'.op = "iGet" /\ last'.ret = NoValue
        /\ last'.was = c.was /\ last'.alone = c.alone
    BY <1>0, <1>2, <1>3, <1>6, ReturnMoves
  <2>2. quiet => c.was = NoValue
    BY <1>3, <1>4, <1>6 DEF WrittenAt
  <2>3. Answers(p)
    BY <1>0, <1>3, <2>1, <2>2 DEF Answers
  <2> QED BY <2>1, <2>3, KnowsIdle
<1> QED BY <1>0, <1>5, <1>6 DEF OpenPlace

LEMMA LseekKnows ==
  ASSUME Typed, CallsKnow, NEW p \in Procs, Lseek(p)
  PROVE  CallKnows(p)' /\ UNCHANGED last
<1>0. PICK c, k, x : c = proc[p] /\ k = c.key /\ x = proc'[p]
  OBVIOUS
<1> DEFINE n == Len(data[c.fd])
<1>1. c.pc = "lseek" /\ UNCHANGED <<dirs, file, data, last, acked>>
  BY <1>0 DEF Lseek, fsys
<1>2. /\ proc[p].pc # "idle" /\ c # Idle /\ CallOK(p, c) /\ k \in Keys
      /\ Shape(c) /\ GetKnows(c) /\ c \in CallType
  BY <1>0, <1>1, CallFields DEF CallsKnow, CallKnows
<1>3. c.op = "iGet" /\ c.todo = <<>>
  BY <1>0, <1>1, <1>2 DEF CallOK, FitsOp, Reading, Shape, Wiping
<1>4. x = [c EXCEPT !.size = n, !.pc = "read"]
  BY <1>0 DEF Lseek, Typed, ProgramOK
<1> HIDE DEF n
<1>5. /\ Carries(x, c) /\ x.pc = "read" /\ x.fd = c.fd /\ x.size = n /\ x.todo = <<>>
  BY <1>2, <1>3, <1>4 DEF CallType, Carries
<1>6. /\ x.op = "iGet" /\ x.key = k /\ x.was = c.was /\ x.alone = c.alone
  BY <1>0, <1>3, <1>5 DEF Carries
<1>7. Shape(x)
  BY <1>5 DEF Shape, Wiping, Choosing
<1>8. ASSUME c.alone, c.was \in Values \cup {NoValue}
      PROVE  c.was \in Values /\ data[c.fd] = c.was /\ acked[k] = c.was /\ n = Len(c.was)
  <2>1. c.was \in Values /\ data[c.fd] = c.was /\ acked[k] = c.was
    BY <1>0, <1>1, <1>2, <1>3, <1>8 DEF GetKnows, Reading
  <2> QED BY <2>1 DEF n
<1>9. GetKnows(x)'
  BY <1>1, <1>5, <1>6, <1>8 DEF GetKnows, Looking, Reading
<1> QED BY <1>0, <1>1, <1>6, <1>7, <1>9, KnowsAsGet

LEMMA ReadFileKnows ==
  ASSUME Typed, CallsKnow, NEW p \in Procs, ReadFile(p)
  PROVE  CallKnows(p)' /\ Answers(p)
<1>0. PICK c : c = proc[p]
  OBVIOUS
<1> DEFINE s == data[c.fd]
           r == SubSeq(s, 1, Min({c.size, Len(s)}))
<1>1. c.pc = "read" /\ Return(p, r)
  BY <1>0 DEF ReadFile
<1>2. proc[p].pc # "idle" /\ c # Idle /\ CallOK(p, c) /\ GetKnows(c)
  BY <1>0, <1>1, CallFields DEF CallsKnow, CallKnows
<1>3. c.op = "iGet"
  BY <1>1, <1>2 DEF CallOK, FitsOp, Reading
<1> HIDE DEF r
<1>4. /\ proc'[p] = Idle /\ last'.op = "iGet" /\ last'.ret = r
      /\ last'.was = c.was /\ last'.alone = c.alone
  BY <1>0, <1>1, <1>2, <1>3, ReturnMoves
<1>5. ASSUME c.alone, c.was \in Values \cup {NoValue} PROVE r = c.was
  <2>1. c.was \in Values /\ s = c.was /\ c.size = Len(c.was)
    BY <1>0, <1>1, <1>2, <1>3, <1>5 DEF GetKnows, Reading
  <2>2. s \in Seq(0..255) /\ Len(s) \in Nat
    BY <2>1, ValuesAssumption
  <2>3. Min({Len(s), Len(s)}) = Len(s)
    <3>1. {Len(s), Len(s)} \in SUBSET Nat /\ {Len(s), Len(s)} # {}
      BY <2>2
    <3>2. Min({Len(s), Len(s)}) \in {Len(s), Len(s)}
      BY <3>1, MinOfNats
    <3> QED BY <3>2
  <2>4. SubSeq(s, 1, Len(s)) = s
    BY <2>2
  <2> QED BY <2>1, <2>3, <2>4 DEF r
<1>6. Answers(p)
  BY <1>0, <1>3, <1>4, <1>5 DEF Answers
<1> QED BY <1>4, <1>6, KnowsIdle

----------------------------------------------------------------------------
(* How the list of a recursive delete changes.                             *)

LEMMA UpDiffers ==
  ASSUME NEW d, Proper(d)
  PROVE  Up(d) # d
<1>0. d \in DirIds /\ d.at \in Seq(Names) /\ d.part \in Seq(Char) /\ d.name \in Seq(Char)
  BY DEF Proper, DirIds
<1>1. CASE d.name # <<>>
  <2>1. Len(PathOf(d)) = Len(d.at) + 1 /\ Len(d.at) \in Nat
    BY <1>0, <1>1, PathType
  <2>2. PathOf(Up(d)) = d.at
    BY UpPath
  <2> QED BY <2>1, <2>2
<1>2. CASE d.name = <<>>
  <2>0. PICK s, n : s = d.part /\ n = Len(s)
    OBVIOUS
  <2>1. s # <<>> /\ s \in Seq(Char) /\ n \in Nat \ {0}
    BY <1>0, <1>2, <2>0 DEF Proper
  <2>2. Up(d) = Level(d.at, s, n - 1)
    BY <1>2, <2>0 DEF Up
  <2>3. CASE n = 1
    <3>1. Up(d) = Plain(d.at)
      BY <2>2, <2>3 DEF Level
    <3>2. Plain(d.at).part = <<>>
      <4>1. CASE d.at = <<>>
        BY <4>1 DEF Plain, Root
      <4>2. CASE d.at # <<>>
        BY <1>0, <4>2, PlainParts
      <4> QED BY <4>1, <4>2
    <3> QED BY <2>0, <2>1, <3>1, <3>2
  <2>4. CASE n # 1
    <3>1. n - 1 \in 1..Len(s)
      <4>1. n \in Nat /\ n # 0 /\ n # 1
        BY <2>1, <2>4
      <4>2. n - 1 \in 1..n
        BY <4>1
      <4> QED BY <2>0, <4>2
    <3>2. /\ Level(d.at, s, n - 1) = [at |-> d.at, part |-> SubSeq(s, 1, n - 1), name |-> <<>>]
          /\ Len(SubSeq(s, 1, n - 1)) = n - 1
      BY <2>1, <3>1, LevelParts
    <3>3. Level(d.at, s, n - 1).part = SubSeq(s, 1, n - 1)
      BY <3>2
    <3>4. SubSeq(s, 1, n - 1) # s
      BY <2>0, <2>1, <3>2
    <3> QED BY <2>0, <2>2, <3>3, <3>4
  <2> QED BY <2>3, <2>4
<1> QED BY <1>1, <1>2

\* What is known of a list when its first item is to read d.
LEMMA FirstIsRead ==
  ASSUME NEW k \in Keys, NEW d, Proper(d), IsPrefix(k, PathOf(d)), ProperDirs,
         NEW L, NEW n \in Nat, DOMAIN L = 1..n, n > 0, Agenda(k, L),
         L[1] = [pc |-> "readDir", dir |-> d]
  PROVE  /\ \A j \in 2..n : L[j].dir # d
         /\ \A j \in 2..n : \A x \in Children(d) : L[j].dir # x
         /\ \A j \in 2..n : L[j] # [pc |-> "rmdir", dir |-> d]
<1>0. 1 \in DOMAIN L /\ \A j \in 2..n : j \in DOMAIN L /\ j # 1
  OBVIOUS
<1>1. ASSUME NEW j \in 2..n, L[j].dir = d PROVE FALSE
  <2>1. {L[1].pc, L[j].pc} = {"unlinkDir", "rmdir"}
    BY <1>0, <1>1 DEF Agenda, NothingTwice
  <2>2. L[1].pc = "readDir"
    OBVIOUS
  <2> QED BY <2>1, <2>2
<1>2. ASSUME NEW j \in 2..n, L[j] = [pc |-> "rmdir", dir |-> d] PROVE FALSE
  BY <1>1, <1>2
<1>3. ASSUME NEW j \in 2..n, NEW x \in Children(d), L[j].dir = x, L[j].pc # "unlinkDir"
      PROVE  FALSE
  <2>1. x \in dirs /\ Up(x) = d
    BY DEF Children
  <2>2. Proper(x)
    BY <2>1 DEF ProperDirs
  <2>3. IsPrefix(k, x.at)
    BY <2>1, <2>2, InsideIsBelow
  <2>4. \/ ~IsPrefix(k, x.at)
        \/ \E m \in DOMAIN L : L[m] = [pc |-> "rmdir", dir |-> Up(x)]
    BY <1>0, <1>3 DEF Agenda, ForARmdir
  <2>5. PICK m \in DOMAIN L : L[m] = [pc |-> "rmdir", dir |-> d]
    BY <2>1, <2>3, <2>4
  <2>6. m # 1
    BY <2>5
  <2> QED BY <1>2, <2>5, <2>6
<1>4. ASSUME NEW j \in 2..n, NEW x \in Children(d), L[j].dir = x, L[j].pc = "unlinkDir"
      PROVE  FALSE
  <2>1. PICK m \in DOMAIN L : L[m] = [pc |-> "rmdir", dir |-> x]
    BY <1>0, <1>4 DEF Agenda, ForARmdir
  <2>2. m # 1 /\ L[m].dir = x /\ L[m].pc # "unlinkDir"
    BY <2>1
  <2> QED BY <1>3, <2>1, <2>2
<1> QED BY <1>1, <1>2, <1>3, <1>4

\* The new list M: first the a entries of d in any order, then d, then the
\* b items that follow the first one of L.
Grown(M, L, d, a, b) ==
  /\ a \in Nat /\ b \in Nat /\ DOMAIN M = 1..(a + 1 + b)
  /\ \A m \in 1..a : M[m] \in Entries(d)
  /\ \A e \in Entries(d) : \E m \in 1..a : M[m] = e
  /\ \A m, n \in 1..a : M[m] = M[n] => m = n
  /\ M[a + 1] = [pc |-> "rmdir", dir |-> d]
  /\ DOMAIN L = 1..(b + 1) /\ L[1] = [pc |-> "readDir", dir |-> d]
  /\ \A j \in 2..(b + 1) : a + j \in DOMAIN M /\ M[a + j] = L[j]

LEMMA AgendaGrows ==
  ASSUME ProperDirs, NEW k \in Keys, NEW d, d \in dirs, Proper(d), IsPrefix(k, PathOf(d)),
         NEW M, NEW L, NEW a, NEW b, Grown(M, L, d, a, b)
  PROVE  /\ BelowKey(k, L) => BelowKey(k, M)
         /\ Agenda(k, L) => Agenda(k, M)
<1>1. PICK z : z = [pc |-> "rmdir", dir |-> d]
  OBVIOUS
<1>2. a \in Nat /\ b \in Nat /\ DOMAIN M = 1..(a + 1 + b)
  BY DEF Grown
<1>3. /\ \A m \in 1..a : M[m] \in Entries(d)
      /\ \A e \in Entries(d) : \E m \in 1..a : M[m] = e
      /\ \A m, n \in 1..a : M[m] = M[n] => m = n
  BY DEF Grown
<1>4. /\ DOMAIN L = 1..(b + 1) /\ L[1] = [pc |-> "readDir", dir |-> d]
      /\ \A j \in 2..(b + 1) : a + j \in DOMAIN M /\ M[a + j] = L[j]
      /\ M[a + 1] = z
  BY <1>1 DEF Grown
<1>5. b + 1 \in Nat /\ b + 1 > 0 /\ a + 1 \in DOMAIN M /\ \A j \in 2..(b + 1) : j \in DOMAIN L
  BY <1>2, <1>4
<1>6. ASSUME NEW m \in DOMAIN M
      PROVE  \/ m \in 1..a /\ M[m] \in Entries(d)
             \/ m = a + 1 /\ M[m] = z
             \/ \E j \in 2..(b + 1) : m = a + j /\ M[m] = L[j]
  <2>1. CASE m > a + 1
    <3>1. m - a \in 2..(b + 1) /\ m = a + (m - a)
      BY <1>2, <2>1
    <3> QED BY <1>4, <3>1
  <2>2. CASE m \in 1..a
    BY <1>3, <2>2
  <2>3. CASE m = a + 1
    BY <1>4, <2>3
  <2> QED BY <1>2, <2>1, <2>2, <2>3
<1>7. \A e \in Entries(d) : \/ e.pc = "readDir" /\ e.dir \in Children(d)
                            \/ e = [pc |-> "unlinkDir", dir |-> d] /\ d \in DOMAIN file
  BY DEF Entries
<1>8. z.pc = "rmdir" /\ z.dir = d
  BY <1>1
<1>9. \A x \in Children(d) : /\ x \in dirs /\ Up(x) = d /\ Proper(x) /\ x # d
                             /\ IsPrefix(k, PathOf(x)) /\ IsPrefix(k, x.at)
  <2> SUFFICES ASSUME NEW x \in Children(d)
               PROVE  /\ x \in dirs /\ Up(x) = d /\ Proper(x) /\ x # d
                      /\ IsPrefix(k, PathOf(x)) /\ IsPrefix(k, x.at)
    OBVIOUS
  <2>1. x \in dirs /\ Up(x) = d
    BY DEF Children
  <2>2. Proper(x)
    BY <2>1 DEF ProperDirs
  <2> QED BY <2>1, <2>2, InsideIsBelow, UpDiffers
<1>10. ASSUME BelowKey(k, L) PROVE BelowKey(k, M)
  <2> SUFFICES ASSUME NEW m \in DOMAIN M
               PROVE  Proper(M[m].dir) /\ IsPrefix(k, PathOf(M[m].dir))
    BY DEF BelowKey
  <2>1. CASE M[m] \in Entries(d)
    BY <1>7, <1>9, <2>1
  <2>2. CASE M[m] = z
    BY <1>8, <2>2
  <2>3. ASSUME NEW j \in 2..(b + 1), M[m] = L[j]
        PROVE  Proper(M[m].dir) /\ IsPrefix(k, PathOf(M[m].dir))
    BY <1>5, <1>10, <2>3 DEF BelowKey
  <2> QED BY <1>6, <2>1, <2>2, <2>3
<1>11. ASSUME Agenda(k, L) PROVE Agenda(k, M)
  <2>1. /\ \A j \in 2..(b + 1) : L[j].dir # d
        /\ \A j \in 2..(b + 1) : \A x \in Children(d) : L[j].dir # x
        /\ \A j \in 2..(b + 1) : L[j] # [pc |-> "rmdir", dir |-> d]
    BY <1>4, <1>5, <1>11, FirstIsRead
  <2>2. \A j \in 2..(b + 1) : j \in DOMAIN L
    BY <1>5
  <2>3. AllThere(M)
    <3> SUFFICES ASSUME NEW m \in DOMAIN M
                 PROVE  IF M[m].pc = "unlinkDir" THEN M[m].dir \in DOMAIN file ELSE M[m].dir \in dirs
      BY DEF AllThere
    <3>1. CASE M[m] \in Entries(d)
      BY <1>7, <1>9, <3>1
    <3>2. CASE M[m] = z
      BY <1>8, <3>2
    <3>3. ASSUME NEW j \in 2..(b + 1), M[m] = L[j]
          PROVE  IF M[m].pc = "unlinkDir" THEN M[m].dir \in DOMAIN file ELSE M[m].dir \in dirs
      BY <1>11, <2>2, <3>3 DEF Agenda, AllThere
    <3> QED BY <1>6, <3>1, <3>2, <3>3
  <2>4. EmptiesFirst(M)
    <3> SUFFICES ASSUME NEW m \in DOMAIN M, M[m].pc = "rmdir"
                 PROVE  /\ \A x \in Children(M[m].dir) :
                             \E n \in 1..(m - 1) : M[n].pc # "unlinkDir" /\ M[n].dir = x
                        /\ M[m].dir \in DOMAIN file =>
                             \E n \in 1..(m - 1) : M[n] = [pc |-> "unlinkDir", dir |-> M[m].dir]
      BY DEF EmptiesFirst
    <3>1. CASE M[m] \in Entries(d)
      BY <1>7, <3>1
    <3>2. CASE m = a + 1 /\ M[m] = z
      <4>1. M[m].dir = d /\ m - 1 = a
        BY <1>2, <1>8, <3>2
      <4>2. ASSUME NEW x \in Children(d)
            PROVE  \E n \in 1..a : M[n].pc # "unlinkDir" /\ M[n].dir = x
        <5>1. [pc |-> "readDir", dir |-> x] \in Entries(d)
          BY DEF Entries
        <5>2. PICK n \in 1..a : M[n] = [pc |-> "readDir", dir |-> x]
          BY <1>3, <5>1
        <5>3. M[n].pc # "unlinkDir" /\ M[n].dir = x
          BY <5>2
        <5> QED BY <5>3
      <4>3. ASSUME d \in DOMAIN file
            PROVE  \E n \in 1..a : M[n] = [pc |-> "unlinkDir", dir |-> d]
        <5>1. [pc |-> "unlinkDir", dir |-> d] \in Entries(d)
          BY <4>3 DEF Entries
        <5> QED BY <1>3, <5>1
      <4> QED BY <4>1, <4>2, <4>3
    <3>3. ASSUME NEW j \in 2..(b + 1), m = a + j, M[m] = L[j]
          PROVE  /\ \A x \in Children(M[m].dir) :
                      \E n \in 1..(m - 1) : M[n].pc # "unlinkDir" /\ M[n].dir = x
                 /\ M[m].dir \in DOMAIN file =>
                      \E n \in 1..(m - 1) : M[n] = [pc |-> "unlinkDir", dir |-> M[m].dir]
      <4>1. L[j].pc = "rmdir" /\ j \in DOMAIN L
        BY <2>2, <3>3
      <4>2. ASSUME NEW x \in Children(L[j].dir)
            PROVE  \E n \in 1..(m - 1) : M[n].pc # "unlinkDir" /\ M[n].dir = x
        <5>1. PICK i \in 1..(j - 1) : L[i].pc # "unlinkDir" /\ L[i].dir = x
          BY <1>11, <4>1 DEF Agenda, EmptiesFirst
        <5>2. CASE i = 1
          <6>1. x = d /\ a + 1 \in 1..(m - 1)
            BY <1>2, <1>4, <3>3, <5>1, <5>2
          <6> QED BY <1>4, <1>8, <6>1
        <5>3. CASE i # 1
          <6>1. i \in 2..(b + 1) /\ a + i \in 1..(m - 1)
            BY <1>2, <3>3, <5>3
          <6> QED BY <1>4, <5>1, <6>1
        <5> QED BY <5>2, <5>3
      <4>3. ASSUME L[j].dir \in DOMAIN file
            PROVE  \E n \in 1..(m - 1) : M[n] = [pc |-> "unlinkDir", dir |-> L[j].dir]
        <5>1. PICK i \in 1..(j - 1) : L[i] = [pc |-> "unlinkDir", dir |-> L[j].dir]
          BY <1>11, <4>1, <4>3 DEF Agenda, EmptiesFirst
        <5>2. i # 1
          BY <1>4, <5>1
        <5>3. i \in 2..(b + 1) /\ a + i \in 1..(m - 1)
          BY <1>2, <3>3, <5>2
        <5> QED BY <1>4, <5>1, <5>3
      <4> QED BY <3>3, <4>2, <4>3
    <3> QED BY <1>6, <3>1, <3>2, <3>3
  <2>5. NothingTwice(M)
    <3> SUFFICES ASSUME NEW m \in DOMAIN M, NEW n \in DOMAIN M, m # n, M[m].dir = M[n].dir
                 PROVE  {M[m].pc, M[n].pc} = {"unlinkDir", "rmdir"}
      BY DEF NothingTwice
    <3>1. CASE M[m] \in Entries(d) /\ M[n] \in Entries(d) /\ m \in 1..a /\ n \in 1..a
      <4>1. M[m] # M[n]
        BY <1>3, <3>1
      <4>2. \A e, f \in Entries(d) : e.dir = f.dir => e = f
        <5> SUFFICES ASSUME NEW e \in Entries(d), NEW f \in Entries(d), e.dir = f.dir
                     PROVE  e = f
          OBVIOUS
        <5>1. e \in {[pc |-> "readDir", dir |-> x] : x \in Children(d)}
                \/ e = [pc |-> "unlinkDir", dir |-> d]
          BY DEF Entries
        <5>2. f \in {[pc |-> "readDir", dir |-> x] : x \in Children(d)}
                \/ f = [pc |-> "unlinkDir", dir |-> d]
          BY DEF Entries
        <5> QED BY <1>9, <5>1, <5>2
      <4> QED BY <3>1, <4>1, <4>2
    <3>2. CASE (M[m] \in Entries(d) /\ M[n] = z) \/ (M[n] \in Entries(d) /\ M[m] = z)
      <4>1. \A e \in Entries(d) : e.dir = d => e.pc = "unlinkDir"
        BY <1>7, <1>9
      <4> QED BY <1>8, <3>2, <4>1
    <3>3. ASSUME NEW e, e \in Entries(d) \/ e = z, NEW j \in 2..(b + 1), e.dir = L[j].dir
          PROVE  FALSE
      BY <1>7, <1>8, <2>1, <3>3
    <3>4. ASSUME NEW i \in 2..(b + 1), m = a + i, M[m] = L[i],
                 NEW j \in 2..(b + 1), n = a + j, M[n] = L[j]
          PROVE  {M[m].pc, M[n].pc} = {"unlinkDir", "rmdir"}
      <4>1. i \in DOMAIN L /\ j \in DOMAIN L /\ i # j /\ L[i].dir = L[j].dir
        BY <1>5, <3>4
      <4>2. {L[i].pc, L[j].pc} = {"unlinkDir", "rmdir"}
        BY <1>11, <4>1 DEF Agenda, NothingTwice
      <4> QED BY <3>4, <4>2
    <3> DEFINE Entry(o) == o \in 1..a /\ M[o] \in Entries(d)
               Itself(o) == o = a + 1 /\ M[o] = z
               Old(o) == \E j \in 2..(b + 1) : o = a + j /\ M[o] = L[j]
    <3>5. (Entry(m) \/ Itself(m)) /\ Old(n) => FALSE
      BY <3>3
    <3>6. (Entry(n) \/ Itself(n)) /\ Old(m) => FALSE
      BY <3>3
    <3>7. Old(m) /\ Old(n) => {M[m].pc, M[n].pc} = {"unlinkDir", "rmdir"}
      BY <3>4
    <3>8. Itself(m) /\ Itself(n) => FALSE
      OBVIOUS
    <3>9. Entry(m) /\ Entry(n) => {M[m].pc, M[n].pc} = {"unlinkDir", "rmdir"}
      BY <3>1
    <3>10. ASSUME (Entry(m) /\ Itself(n)) \/ (Entry(n) /\ Itself(m))
           PROVE  {M[m].pc, M[n].pc} = {"unlinkDir", "rmdir"}
      <4>1. (M[m] \in Entries(d) /\ M[n] = z) \/ (M[n] \in Entries(d) /\ M[m] = z)
        BY <3>10
      <4> QED BY <3>2, <4>1
    <3>11. (Entry(m) \/ Itself(m) \/ Old(m)) /\ (Entry(n) \/ Itself(n) \/ Old(n))
      BY <1>6
    <3> HIDE DEF Entry, Itself, Old
    <3> QED BY <3>5, <3>6, <3>7, <3>8, <3>9, <3>10, <3>11
  <2>6. ForARmdir(k, M)
    <3>0. a + 1 \in DOMAIN M /\ M[a + 1] = [pc |-> "rmdir", dir |-> d]
      BY <1>1, <1>4, <1>5
    <3>1. ASSUME NEW e, NEW j \in DOMAIN L, L[j] = [pc |-> "rmdir", dir |-> e]
          PROVE  \E n \in DOMAIN M : M[n] = [pc |-> "rmdir", dir |-> e]
      <4>1. j # 1
        BY <1>4, <3>1
      <4>2. j \in 2..(b + 1)
        BY <1>2, <1>4, <4>1
      <4> QED BY <1>4, <3>1, <4>2
    <3> SUFFICES ASSUME NEW m \in DOMAIN M
                 PROVE  IF M[m].pc = "unlinkDir"
                        THEN \E n \in DOMAIN M : M[n] = [pc |-> "rmdir", dir |-> M[m].dir]
                        ELSE \/ ~IsPrefix(k, M[m].dir.at)
                             \/ \E n \in DOMAIN M : M[n] = [pc |-> "rmdir", dir |-> Up(M[m].dir)]
      BY DEF ForARmdir
    <3>2. CASE M[m] \in Entries(d)
      BY <1>7, <1>9, <3>0, <3>2
    <3>3. ASSUME NEW j \in DOMAIN L, M[m] = L[j] \/ (M[m] = z /\ j = 1)
          PROVE  IF M[m].pc = "unlinkDir"
                 THEN \E n \in DOMAIN M : M[n] = [pc |-> "rmdir", dir |-> M[m].dir]
                 ELSE \/ ~IsPrefix(k, M[m].dir.at)
                      \/ \E n \in DOMAIN M : M[n] = [pc |-> "rmdir", dir |-> Up(M[m].dir)]
      <4>1. M[m].dir = L[j].dir /\ (M[m].pc = "unlinkDir" <=> L[j].pc = "unlinkDir")
        <5>1. CASE M[m] = L[j]
          BY <5>1
        <5>2. CASE M[m] = z /\ j = 1
          BY <1>4, <1>8, <5>2
        <5> QED BY <3>3, <5>1, <5>2
      <4>2. CASE L[j].pc = "unlinkDir"
        <5>1. PICK n \in DOMAIN L : L[n] = [pc |-> "rmdir", dir |-> L[j].dir]
          BY <1>11, <4>2 DEF Agenda, ForARmdir
        <5>2. \E i \in DOMAIN M : M[i] = [pc |-> "rmdir", dir |-> L[j].dir]
          BY <3>1, <5>1
        <5> QED BY <4>1, <4>2, <5>2
      <4>3. CASE L[j].pc # "unlinkDir" /\ IsPrefix(k, L[j].dir.at)
        <5>1. PICK n \in DOMAIN L : L[n] = [pc |-> "rmdir", dir |-> Up(L[j].dir)]
          BY <1>11, <4>3 DEF Agenda, ForARmdir
        <5>2. \E i \in DOMAIN M : M[i] = [pc |-> "rmdir", dir |-> Up(L[j].dir)]
          BY <3>1, <5>1
        <5> QED BY <4>1, <4>3, <5>2
      <4> QED BY <4>1, <4>2, <4>3
    <3>4. 1 \in DOMAIN L
      BY <1>2, <1>4
    <3> QED BY <1>6, <2>2, <3>2, <3>3, <3>4
  <2> QED BY <2>3, <2>4, <2>5, <2>6 DEF Agenda
<1> QED BY <1>10, <1>11

LEMMA ListGrows ==
  ASSUME Typed, NEW d, Proper(d),
         NEW order \in SetToSeqs(Entries(d)), NEW todo \in Seq(Item),
         NEW L, DOMAIN L = 1..(Len(todo) + 1), L[1] = [pc |-> "readDir", dir |-> d],
         \A m \in 1..Len(todo) : L[m + 1] = todo[m]
  PROVE  Grown(Append(order, [pc |-> "rmdir", dir |-> d]) \o todo, L, d, Len(order), Len(todo))
<1>0. PICK a, b, z, M : /\ z = [pc |-> "rmdir", dir |-> d]
                        /\ a = Len(order) /\ b = Len(todo)
                        /\ M = Append(order, z) \o todo
  OBVIOUS
<1>1. d \in DirIds /\ TreeOK /\ z \in Item
  BY <1>0 DEF Proper, Item, Wiping, Typed
<1>2. /\ order \in Seq(Item)
      /\ \A m \in 1..a : order[m] \in Entries(d)
      /\ \A e \in Entries(d) : \E m \in 1..a : order[m] = e
      /\ \A m, n \in 1..a : order[m] = order[n] => m = n
  BY <1>0, <1>1, EntriesInOrder
<1>3. /\ M \in Seq(Item) /\ a \in Nat /\ b \in Nat
      /\ Len(M) = a + 1 + b
      /\ \A m \in 1..a : M[m] = order[m]
      /\ M[a + 1] = z
      /\ \A m \in 1..b : M[a + 1 + m] = todo[m]
  BY <1>0, <1>1, <1>2, ReadList
<1>4. DOMAIN M = 1..(a + 1 + b)
  BY <1>3
<1>5. /\ \A m \in 1..a : M[m] \in Entries(d)
      /\ \A m, n \in 1..a : M[m] = M[n] => m = n
  BY <1>2, <1>3
<1>6. \A e \in Entries(d) : \E m \in 1..a : M[m] = e
  BY <1>2, <1>3
<1>7. DOMAIN L = 1..(b + 1) /\ \A m \in 1..b : L[m + 1] = todo[m]
  BY <1>0
<1>8. ASSUME NEW j \in 2..(b + 1) PROVE a + j \in DOMAIN M /\ M[a + j] = L[j]
  <2>1. PICK m \in 1..b : j = m + 1
    <3>1. j - 1 \in 1..b /\ j = (j - 1) + 1
      BY <1>3
    <3> QED BY <3>1
  <2>2. a + j = a + 1 + m /\ a + j \in 1..(a + 1 + b)
    BY <1>3, <2>1
  <2> QED BY <1>3, <1>4, <1>7, <2>1, <2>2
<1>9. Grown(M, L, d, a, b)
  BY <1>0, <1>3, <1>4, <1>5, <1>6, <1>7, <1>8 DEF Grown
<1> QED BY <1>0, <1>9

\* T is the list L without its first item.
Rest(T, L, b) == /\ b \in Nat /\ DOMAIN T = 1..b /\ DOMAIN L = 1..(b + 1)
                 /\ \A m \in 1..b : T[m] = L[m + 1]

LEMMA RestFacts ==
  ASSUME NEW T, NEW L, NEW b, Rest(T, L, b), NEW d, L[1].dir = d
  PROVE  /\ 1 \in DOMAIN L
         /\ \A m \in DOMAIN T : /\ m \in 1..b /\ m + 1 \in DOMAIN L /\ m + 1 # 1 /\ T[m] = L[m + 1]
                                /\ (m + 1) - 1 = m
         /\ \A n \in DOMAIN L : n # 1 => \E m \in DOMAIN T : n = m + 1 /\ T[m] = L[n]
         /\ \A m \in DOMAIN T : \A n \in 1..m : n # 1 =>
              \E i \in 1..(m - 1) : i \in DOMAIN T /\ n = i + 1 /\ T[i] = L[n]
         /\ NothingTwice(L) => NothingTwice(T)
         /\ \A k : BelowKey(k, L) => BelowKey(k, T)
<1>1. b \in Nat /\ DOMAIN T = 1..b /\ DOMAIN L = 1..(b + 1) /\ \A m \in 1..b : T[m] = L[m + 1]
  BY DEF Rest
<1>2. 1 \in DOMAIN L
  BY <1>1
<1>3. ASSUME NEW m \in DOMAIN T
      PROVE  /\ m \in 1..b /\ m + 1 \in DOMAIN L /\ m + 1 # 1 /\ T[m] = L[m + 1]
             /\ (m + 1) - 1 = m
  BY <1>1
<1>4. ASSUME NEW n \in DOMAIN L, n # 1 PROVE \E m \in DOMAIN T : n = m + 1 /\ T[m] = L[n]
  <2>1. n - 1 \in DOMAIN T /\ n = (n - 1) + 1
    BY <1>1, <1>4
  <2>2. T[n - 1] = L[n]
    BY <1>1, <2>1
  <2> QED BY <2>1, <2>2
<1>5. ASSUME NEW m \in DOMAIN T, NEW n \in 1..m, n # 1
      PROVE  \E i \in 1..(m - 1) : i \in DOMAIN T /\ n = i + 1 /\ T[i] = L[n]
  <2>1. n - 1 \in DOMAIN T /\ n = (n - 1) + 1 /\ n - 1 \in 1..(m - 1)
    BY <1>1, <1>5
  <2>2. T[n - 1] = L[n]
    BY <1>1, <2>1
  <2> QED BY <2>1, <2>2
<1>6. ASSUME NothingTwice(L) PROVE NothingTwice(T)
  <2> SUFFICES ASSUME NEW m \in DOMAIN T, NEW n \in DOMAIN T, m # n, T[m].dir = T[n].dir
               PROVE  {T[m].pc, T[n].pc} = {"unlinkDir", "rmdir"}
    BY DEF NothingTwice
  <2>1. /\ m + 1 \in DOMAIN L /\ n + 1 \in DOMAIN L /\ m + 1 # n + 1
        /\ T[m] = L[m + 1] /\ T[n] = L[n + 1]
    BY <1>1, <1>3
  <2>2. {L[m + 1].pc, L[n + 1].pc} = {"unlinkDir", "rmdir"}
    BY <1>6, <2>1 DEF NothingTwice
  <2> QED BY <2>1, <2>2
<1>7. \A k : BelowKey(k, L) => BelowKey(k, T)
  BY <1>3 DEF BelowKey
<1> QED BY <1>2, <1>3, <1>4, <1>5, <1>6, <1>7

LEMMA AgendaUnlinked ==
  ASSUME NEW k, NEW d, NEW T, NEW L, NEW b, Rest(T, L, b), Agenda(k, L),
         L[1] = [pc |-> "unlinkDir", dir |-> d],
         DOMAIN file' = DOMAIN file \ {d}, UNCHANGED dirs
  PROVE  Agenda(k, T)'
<1>1. L[1].dir = d /\ L[1].pc = "unlinkDir"
  OBVIOUS
<1>2. /\ 1 \in DOMAIN L
      /\ \A m \in DOMAIN T : /\ m \in 1..b /\ m + 1 \in DOMAIN L /\ m + 1 # 1 /\ T[m] = L[m + 1]
                             /\ (m + 1) - 1 = m
      /\ \A n \in DOMAIN L : n # 1 => \E m \in DOMAIN T : n = m + 1 /\ T[m] = L[n]
      /\ \A m \in DOMAIN T : \A n \in 1..m : n # 1 =>
              \E i \in 1..(m - 1) : i \in DOMAIN T /\ n = i + 1 /\ T[i] = L[n]
      /\ NothingTwice(L) => NothingTwice(T)
  BY <1>1, RestFacts
<1>3. AllThere(T)'
  <2> SUFFICES ASSUME NEW m \in DOMAIN T
               PROVE  IF T[m].pc = "unlinkDir" THEN T[m].dir \in DOMAIN file' ELSE T[m].dir \in dirs'
    BY DEF AllThere
  <2>1. IF T[m].pc = "unlinkDir" THEN T[m].dir \in DOMAIN file ELSE T[m].dir \in dirs
    BY <1>2 DEF Agenda, AllThere
  <2>2. ASSUME T[m].pc = "unlinkDir" PROVE T[m].dir # d
    <3>1. SUFFICES ASSUME L[m + 1].dir = d, L[m + 1].pc = "unlinkDir" PROVE FALSE
      BY <1>2, <2>2
    <3>2. {L[1].pc, L[m + 1].pc} = {"unlinkDir", "rmdir"}
      BY <1>1, <1>2, <3>1 DEF Agenda, NothingTwice
    <3> QED BY <1>1, <3>1, <3>2
  <2> QED BY <2>1, <2>2
<1>4. EmptiesFirst(T)'
  <2> SUFFICES ASSUME NEW m \in DOMAIN T, T[m].pc = "rmdir"
               PROVE  /\ \A x \in Children(T[m].dir)' :
                           \E n \in 1..(m - 1) : T[n].pc # "unlinkDir" /\ T[n].dir = x
                      /\ T[m].dir \in DOMAIN file' =>
                           \E n \in 1..(m - 1) : T[n] = [pc |-> "unlinkDir", dir |-> T[m].dir]
    BY DEF EmptiesFirst
  <2>1. m + 1 \in DOMAIN L /\ T[m] = L[m + 1] /\ (m + 1) - 1 = m /\ L[m + 1].pc = "rmdir"
    BY <1>2
  <2>2. \A x \in Children(L[m + 1].dir) :
          \E n \in 1..((m + 1) - 1) : L[n].pc # "unlinkDir" /\ L[n].dir = x
    BY <2>1 DEF Agenda, EmptiesFirst
  <2>3. L[m + 1].dir \in DOMAIN file =>
          \E n \in 1..((m + 1) - 1) : L[n] = [pc |-> "unlinkDir", dir |-> L[m + 1].dir]
    BY <2>1 DEF Agenda, EmptiesFirst
  <2>4. Children(T[m].dir)' = Children(T[m].dir)
    BY DEF Children, Up
  <2>5. ASSUME NEW x \in Children(T[m].dir)
        PROVE  \E n \in 1..(m - 1) : T[n].pc # "unlinkDir" /\ T[n].dir = x
    <3>1. PICK n \in 1..m : L[n].pc # "unlinkDir" /\ L[n].dir = x
      BY <2>1, <2>2
    <3>2. n # 1
      BY <1>1, <3>1
    <3>3. PICK i \in 1..(m - 1) : T[i] = L[n]
      BY <1>2, <3>2
    <3> QED BY <3>1, <3>3
  <2>6. ASSUME T[m].dir \in DOMAIN file'
        PROVE  \E n \in 1..(m - 1) : T[n] = [pc |-> "unlinkDir", dir |-> T[m].dir]
    <3>0. T[m].dir \in DOMAIN file /\ T[m].dir # d
      BY <2>6
    <3>1. PICK n \in 1..m : L[n] = [pc |-> "unlinkDir", dir |-> T[m].dir]
      BY <2>1, <2>3, <3>0
    <3>2. n # 1
      BY <1>1, <3>0, <3>1
    <3>3. PICK i \in 1..(m - 1) : T[i] = L[n]
      BY <1>2, <3>2
    <3> QED BY <3>1, <3>3
  <2> QED BY <2>4, <2>5, <2>6
<1>5. NothingTwice(T)'
  BY <1>2 DEF Agenda, NothingTwice
<1>6. ForARmdir(k, T)'
  <2>1. ASSUME NEW e, \E n \in DOMAIN L : L[n] = [pc |-> "rmdir", dir |-> e]
        PROVE  \E n \in DOMAIN T : T[n] = [pc |-> "rmdir", dir |-> e]
    <3>1. PICK n \in DOMAIN L : L[n] = [pc |-> "rmdir", dir |-> e]
      BY <2>1
    <3>2. n # 1
      BY <1>1, <3>1
    <3> QED BY <1>2, <3>1, <3>2
  <2>2. ForARmdir(k, T)
    BY <1>2, <2>1 DEF Agenda, ForARmdir
  <2> QED BY <2>2 DEF ForARmdir, Up
<1> QED BY <1>3, <1>4, <1>5, <1>6 DEF Agenda

LEMMA AgendaRemoved ==
  ASSUME NEW k, NEW d, NEW T, NEW L, NEW b, Rest(T, L, b), Agenda(k, L),
         L[1] = [pc |-> "rmdir", dir |-> d], d \notin DOMAIN file, Children(d) = {},
         dirs' = dirs \ {d}, UNCHANGED file
  PROVE  Agenda(k, T)'
<1>1. L[1].dir = d /\ L[1].pc = "rmdir"
  OBVIOUS
<1>2. /\ 1 \in DOMAIN L
      /\ \A m \in DOMAIN T : /\ m \in 1..b /\ m + 1 \in DOMAIN L /\ m + 1 # 1 /\ T[m] = L[m + 1]
                             /\ (m + 1) - 1 = m
      /\ \A n \in DOMAIN L : n # 1 => \E m \in DOMAIN T : n = m + 1 /\ T[m] = L[n]
      /\ \A m \in DOMAIN T : \A n \in 1..m : n # 1 =>
              \E i \in 1..(m - 1) : i \in DOMAIN T /\ n = i + 1 /\ T[i] = L[n]
      /\ NothingTwice(L) => NothingTwice(T)
  BY <1>1, RestFacts
<1>3. ASSUME NEW m \in DOMAIN T
      PROVE  IF T[m].pc = "unlinkDir" THEN T[m].dir \in DOMAIN file
             ELSE T[m].dir \in dirs /\ T[m].dir # d
  <2>1. IF T[m].pc = "unlinkDir" THEN T[m].dir \in DOMAIN file ELSE T[m].dir \in dirs
    BY <1>2 DEF Agenda, AllThere
  <2>2. ASSUME T[m].pc # "unlinkDir", T[m].dir = d PROVE FALSE
    <3>0. m + 1 \in DOMAIN L /\ 1 \in DOMAIN L /\ m + 1 # 1 /\ NothingTwice(L)
      BY <1>2 DEF Agenda
    <3>1. L[m + 1].dir = d /\ L[m + 1].pc # "unlinkDir"
      BY <1>2, <2>2
    <3>2. {L[1].pc, L[m + 1].pc} = {"unlinkDir", "rmdir"}
      BY <1>1, <3>0, <3>1 DEF NothingTwice
    <3> QED BY <1>1, <3>1, <3>2
  <2> QED BY <2>1, <2>2
<1>4. AllThere(T)'
  BY <1>3 DEF AllThere
<1>5. EmptiesFirst(T)'
  <2> SUFFICES ASSUME NEW m \in DOMAIN T, T[m].pc = "rmdir"
               PROVE  /\ \A x \in Children(T[m].dir)' :
                           \E n \in 1..(m - 1) : T[n].pc # "unlinkDir" /\ T[n].dir = x
                      /\ T[m].dir \in DOMAIN file' =>
                           \E n \in 1..(m - 1) : T[n] = [pc |-> "unlinkDir", dir |-> T[m].dir]
    BY DEF EmptiesFirst
  <2>1. m + 1 \in DOMAIN L /\ T[m] = L[m + 1] /\ (m + 1) - 1 = m /\ L[m + 1].pc = "rmdir"
    BY <1>2
  <2>2. \A x \in Children(L[m + 1].dir) :
          \E n \in 1..((m + 1) - 1) : L[n].pc # "unlinkDir" /\ L[n].dir = x
    BY <2>1 DEF Agenda, EmptiesFirst
  <2>3. L[m + 1].dir \in DOMAIN file =>
          \E n \in 1..((m + 1) - 1) : L[n] = [pc |-> "unlinkDir", dir |-> L[m + 1].dir]
    BY <2>1 DEF Agenda, EmptiesFirst
  <2>4. \A x \in Children(T[m].dir)' : x \in Children(T[m].dir) /\ x # d
    BY DEF Children, Up
  <2>5. ASSUME NEW x \in Children(T[m].dir), x # d
        PROVE  \E n \in 1..(m - 1) : T[n].pc # "unlinkDir" /\ T[n].dir = x
    <3>1. PICK n \in 1..m : L[n].pc # "unlinkDir" /\ L[n].dir = x
      BY <2>1, <2>2
    <3>2. n # 1
      BY <1>1, <2>5, <3>1
    <3>3. PICK i \in 1..(m - 1) : T[i] = L[n]
      BY <1>2, <3>2
    <3> QED BY <3>1, <3>3
  <2>6. ASSUME T[m].dir \in DOMAIN file'
        PROVE  \E n \in 1..(m - 1) : T[n] = [pc |-> "unlinkDir", dir |-> T[m].dir]
    <3>1. PICK n \in 1..m : L[n] = [pc |-> "unlinkDir", dir |-> T[m].dir]
      BY <2>1, <2>3, <2>6
    <3>2. n # 1
      BY <1>1, <3>1
    <3>3. PICK i \in 1..(m - 1) : T[i] = L[n]
      BY <1>2, <3>2
    <3> QED BY <3>1, <3>3
  <2> QED BY <2>4, <2>5, <2>6
<1>6. NothingTwice(T)'
  BY <1>2 DEF Agenda, NothingTwice
<1>7. ForARmdir(k, T)'
  <2>1. ASSUME NEW e, e # d, \E n \in DOMAIN L : L[n] = [pc |-> "rmdir", dir |-> e]
        PROVE  \E n \in DOMAIN T : T[n] = [pc |-> "rmdir", dir |-> e]
    <3>1. PICK n \in DOMAIN L : L[n] = [pc |-> "rmdir", dir |-> e]
      BY <2>1
    <3>2. n # 1
      BY <1>1, <2>1, <3>1
    <3> QED BY <1>2, <3>1, <3>2
  <2>2. ASSUME NEW m \in DOMAIN T
        PROVE  IF T[m].pc = "unlinkDir"
               THEN \E n \in DOMAIN T : T[n] = [pc |-> "rmdir", dir |-> T[m].dir]
               ELSE \/ ~IsPrefix(k, T[m].dir.at)
                    \/ \E n \in DOMAIN T : T[n] = [pc |-> "rmdir", dir |-> Up(T[m].dir)]
    <3>1. CASE T[m].pc = "unlinkDir"
      <4>1. T[m].dir # d
        BY <1>3, <3>1
      <4>2. \E n \in DOMAIN L : L[n] = [pc |-> "rmdir", dir |-> T[m].dir]
        BY <1>2, <3>1 DEF Agenda, ForARmdir
      <4> QED BY <2>1, <3>1, <4>1, <4>2
    <3>2. CASE T[m].pc # "unlinkDir"
      <4>1. T[m].dir \in dirs
        BY <1>3, <3>2
      <4>2. Up(T[m].dir) # d
        BY <4>1 DEF Children
      <4>3. \/ ~IsPrefix(k, T[m].dir.at)
            \/ \E n \in DOMAIN L : L[n] = [pc |-> "rmdir", dir |-> Up(T[m].dir)]
        BY <1>2, <3>2 DEF Agenda, ForARmdir
      <4> QED BY <2>1, <3>2, <4>2, <4>3
    <3> QED BY <3>1, <3>2
  <2>3. ForARmdir(k, T)
    BY <2>2 DEF ForARmdir
  <2> QED BY <2>3 DEF ForARmdir, Up
<1> QED BY <1>4, <1>5, <1>6, <1>7 DEF Agenda

----------------------------------------------------------------------------
(* What a delete knows after each of its steps, and what it answers.       *)

(* What a delete knows is about the tree and the files only.               *)
LEMMA DeleteKnowsStays ==
  ASSUME NEW x, DeleteKnows(x), UNCHANGED <<dirs, file>>
  PROVE  DeleteKnows(x)'
<1>1. ASSUME NEW L PROVE AllThere(L) => AllThere(L)'
  BY DEF AllThere
<1>2. ASSUME NEW L PROVE EmptiesFirst(L) => EmptiesFirst(L)'
  BY DEF EmptiesFirst, Children, Up
<1>3. ASSUME NEW k, NEW L PROVE Agenda(k, L) => Agenda(k, L)'
  BY <1>1, <1>2 DEF Agenda, NothingTwice, ForARmdir, Up
<1>4. Agenda(x.key, Job(x)) => Agenda(x.key, Job(x))'
  BY <1>3 DEF Job
<1> QED BY <1>4 DEF DeleteKnows, Spot, Depths

LEMMA KnowsAsDelete ==
  ASSUME NEW p \in Procs, NEW x, proc'[p] = x, x.op \in {"iDelete", "iKeyDelete"},
         Shape(x), DeleteKnows(x)'
  PROVE  CallKnows(p)'
<1>1. DeleteKnows(proc[p])'
  <2>1. PICK L : L = Job(x)
    OBVIOUS
  <2>2. Job(x)' = L /\ Job(proc[p])' = L
    BY <2>1 DEF Job
  <2>3. /\ AllThere(Job(x))' => AllThere(L)'
        /\ AllThere(L)' => AllThere(Job(proc[p]))'
    BY <2>2 DEF AllThere
  <2>4. EmptiesFirst(Job(x))' => EmptiesFirst(Job(proc[p]))'
    <3>1. EmptiesFirst(Job(x))' => EmptiesFirst(L)'
      BY <2>2 DEF EmptiesFirst, Children
    <3>2. EmptiesFirst(L)' => EmptiesFirst(Job(proc[p]))'
      BY <2>2 DEF EmptiesFirst, Children
    <3> QED BY <3>1, <3>2
  <2>5. NothingTwice(Job(x))' => NothingTwice(Job(proc[p]))'
    BY <2>2 DEF NothingTwice
  <2>6. ForARmdir(x.key, Job(x))' => ForARmdir(proc[p].key, Job(proc[p]))'
    BY <2>2 DEF ForARmdir
  <2>7. Agenda(x.key, Job(x))' => Agenda(proc[p].key, Job(proc[p]))'
    BY <2>3, <2>4, <2>5, <2>6 DEF Agenda
  <2> QED BY <2>7 DEF DeleteKnows, Spot, Depths
<1>2. PutKnows(proc[p])' /\ GetKnows(proc[p])' /\ Way(p)'
  BY DEF PutKnows, GetKnows, Way
<1>3. Shape(proc[p])'
  BY DEF Shape, Spot, Depths
<1> QED BY <1>1, <1>2, <1>3 DEF CallKnows

LEMMA JobSame ==
  ASSUME NEW M \in Seq(Item), M # <<>>,
         NEW x, x.pc = M[1].pc, x.place = M[1].dir, x.todo = Tail(M)
  PROVE  Job(x) = M /\ x.pc \in Wiping /\ x.todo \in Seq(Item)
<1>1. /\ DOMAIN Job(x) = 1..Len(M) /\ \A m \in 1..Len(M) : Job(x)[m] = M[m]
      /\ x.pc \in Wiping /\ x.todo \in Seq(Item)
  BY JobIs
<1>2. M = [m \in 1..Len(M) |-> M[m]]
  OBVIOUS
<1>3. Job(x) = [m \in DOMAIN Job(x) |-> Job(x)[m]]
  BY DEF Job
<1> QED BY <1>1, <1>2, <1>3

\* A recursive delete goes on to the list M, or is over.
LEMMA WipeGoesOn ==
  ASSUME NEW p \in Procs, Typed, NEW c, c = proc[p], c.pc \in Wiping,
         NEW M \in Seq(Item), GoOn(p, M), BelowKey(c.key, M),
         (c.alone /\ c.was \in Values \cup {Several}) => Agenda(c.key, M)'
  PROVE  CallKnows(p)' /\ Answers(p)
<1>0. PICK k, x : k = c.key /\ x = proc'[p]
  OBVIOUS
<1>1. proc[p].pc # "idle" /\ c # Idle /\ CallOK(p, c) /\ k \in Keys
  BY <1>0, CallFields DEF Wiping
<1>2. c.op = "iKeyDelete"
  BY <1>1 DEF CallOK, FitsOp
<1>3. CASE M = <<>>
  <2>1. Return(p, TRUE)
    BY <1>3 DEF GoOn
  <2>2. /\ proc'[p] = Idle /\ last'.op = "iKeyDelete" /\ last'.ret = TRUE
        /\ last'.was = c.was /\ last'.alone = c.alone
    BY <1>1, <1>2, <2>1, ReturnMoves
  <2>3. Answers(p)
    BY <1>2, <2>2 DEF Answers
  <2> QED BY <2>2, <2>3, KnowsIdle
<1>4. CASE M # <<>>
  <2>1. /\ Carries(x, c) /\ x.pc = M[1].pc /\ x.place = M[1].dir /\ x.todo = Tail(M)
        /\ UNCHANGED <<last, acked>>
    BY <1>0, <1>1, <1>4, GoOnMoves
  <2>2. Job(x) = M /\ x.pc \in Wiping /\ x.todo \in Seq(Item)
    BY <1>4, <2>1, JobSame
  <2>3. x.op = "iKeyDelete" /\ x.key = k /\ x.was = c.was /\ x.alone = c.alone
    BY <1>0, <1>2, <2>1 DEF Carries
  <2>4. Shape(x)
    BY <1>0, <2>2, <2>3, ShapeOfJob
  <2>5. DeleteKnows(x)'
    <3>1. c.alone /\ c.was \in Values \cup {Several} => Agenda(x.key, Job(x))'
      BY <1>0, <2>2, <2>3
    <3>2. x.pc # "statDirect" /\ x.pc \notin Looking
      BY <2>2 DEF Wiping, Looking
    <3> QED BY <2>3, <3>1, <3>2 DEF DeleteKnows
  <2> QED BY <1>0, <2>1, <2>3, <2>4, <2>5, KnowsAsDelete DEF Answers
<1> QED BY <1>3, <1>4

\* What is known before a step of a recursive delete.
LEMMA WipeHas ==
  ASSUME Typed, CallsKnow, NEW p \in Procs, proc[p].pc \in Wiping
  PROVE  LET c == proc[p] IN
         /\ c.pc # "idle" /\ c # Idle /\ CallOK(p, c) /\ c.op = "iKeyDelete" /\ c.key \in Keys
         /\ c.todo \in Seq(Item) /\ Len(c.todo) \in Nat
         /\ BelowKey(c.key, Job(c))
         /\ Proper(c.place) /\ IsPrefix(c.key, PathOf(c.place))
         /\ DOMAIN Job(c) = 1..(Len(c.todo) + 1)
         /\ Job(c)[1] = [pc |-> c.pc, dir |-> c.place]
         /\ \A m \in 1..Len(c.todo) : Job(c)[m + 1] = c.todo[m]
         /\ Rest(c.todo, Job(c), Len(c.todo))
         /\ (c.alone /\ c.was \in Values \cup {Several}) => Agenda(c.key, Job(c))
<1>0. PICK c : c = proc[p]
  OBVIOUS
<1>1. c.pc # "idle" /\ c # Idle /\ CallOK(p, c) /\ c.key \in Keys /\ c.todo \in Seq(Item)
  BY <1>0, CallFields DEF Wiping
<1>2. Shape(c) /\ DeleteKnows(c)
  BY <1>0, <1>1 DEF CallsKnow, CallKnows
<1>3. c.op = "iKeyDelete" /\ Proper(c.place) /\ IsPrefix(c.key, PathOf(c.place))
  BY <1>0, WiperIsBelow
<1>4. /\ Len(c.todo) \in Nat
      /\ DOMAIN Job(c) = 1..(Len(c.todo) + 1)
      /\ Job(c)[1] = [pc |-> c.pc, dir |-> c.place]
      /\ \A m \in 1..Len(c.todo) : Job(c)[m + 1] = c.todo[m]
  BY <1>1, JobParts
<1>5. BelowKey(c.key, Job(c))
  BY <1>0, <1>1, <1>2, ShapeOfJob
<1>6. Rest(c.todo, Job(c), Len(c.todo))
  <2>1. DOMAIN c.todo = 1..Len(c.todo)
    BY <1>1
  <2> QED BY <1>4, <2>1 DEF Rest
<1>7. (c.alone /\ c.was \in Values \cup {Several}) => Agenda(c.key, Job(c))
  BY <1>0, <1>2, <1>3 DEF DeleteKnows
<1> QED BY <1>0, <1>1, <1>3, <1>4, <1>5, <1>6, <1>7

LEMMA ReturnsFalse ==
  ASSUME Typed, NEW p \in Procs, proc[p].pc # "idle", proc[p].op # "iGet", Return(p, FALSE),
         ~(/\ proc[p].op = "iKeyDelete" /\ proc[p].alone
           /\ proc[p].was \in Values \cup {Several})
  PROVE  CallKnows(p)' /\ Answers(p)
<1>1. /\ proc'[p] = Idle /\ last'.op = proc[p].op
      /\ last'.was = proc[p].was /\ last'.alone = proc[p].alone
  BY ReturnMoves
<1> QED BY <1>1, KnowsIdle DEF Answers

LEMMA ReadDirKnows ==
  ASSUME Typed, ProperDirs, CallsKnow, NEW p \in Procs, ReadDir(p)
  PROVE  CallKnows(p)' /\ Answers(p)
<1>0. PICK c, k, d, L, b : /\ c = proc[p] /\ k = c.key /\ d = c.place /\ L = Job(c)
                           /\ b = Len(c.todo)
  OBVIOUS
<1>1. c.pc = "readDir" /\ c.pc \in Wiping /\ UNCHANGED <<dirs, file>>
  BY <1>0 DEF ReadDir, fsys, Wiping
<1>2. /\ c.pc # "idle" /\ c.op = "iKeyDelete" /\ k \in Keys
      /\ c.todo \in Seq(Item)
      /\ BelowKey(k, L) /\ Proper(d) /\ IsPrefix(k, PathOf(d))
      /\ DOMAIN L = 1..(Len(c.todo) + 1) /\ L[1] = [pc |-> "readDir", dir |-> d]
      /\ \A m \in 1..Len(c.todo) : L[m + 1] = c.todo[m]
      /\ (c.alone /\ c.was \in Values \cup {Several}) => Agenda(k, L)
  BY <1>0, <1>1, WipeHas
<1>3. CASE d \notin dirs /\ Return(p, FALSE)
  <2>1. ~(c.alone /\ c.was \in Values \cup {Several})
    <3>1. SUFFICES ASSUME Agenda(k, L) PROVE FALSE
      BY <1>2
    <3>2. 1 \in DOMAIN L /\ L[1].pc = "readDir" /\ L[1].dir = d
      <4>1. Len(c.todo) \in Nat
        BY <1>2
      <4> QED BY <1>2, <4>1
    <3> QED BY <1>3, <3>1, <3>2 DEF Agenda, AllThere
  <2> QED BY <1>0, <1>2, <1>3, <2>1, ReturnsFalse
<1>4. ASSUME d \in dirs, NEW order \in SetToSeqs(Entries(d)),
             GoOn(p, Append(order, [pc |-> "rmdir", dir |-> d]) \o c.todo)
      PROVE  CallKnows(p)' /\ Answers(p)
  <2>0. PICK M, a : /\ M = Append(order, [pc |-> "rmdir", dir |-> d]) \o c.todo
                    /\ a = Len(order)
    OBVIOUS
  <2>1. Grown(M, L, d, a, b)
    BY <1>0, <1>2, <1>4, <2>0, ListGrows
  <2>2. M \in Seq(Item)
    <3>1. d \in DirIds /\ [pc |-> "rmdir", dir |-> d] \in Item /\ TreeOK
      BY <1>2 DEF Proper, Item, Wiping, Typed
    <3>2. order \in Seq(Item)
      BY <1>4, <3>1, EntriesInOrder
    <3> QED BY <1>2, <2>0, <3>1, <3>2, ReadList
  <2>3. BelowKey(k, M) /\ (Agenda(k, L) => Agenda(k, M))
    BY <1>2, <1>4, <2>1, AgendaGrows
  <2>4. Agenda(k, M) => Agenda(k, M)'
    BY <1>1 DEF Agenda, AllThere, EmptiesFirst, NothingTwice, ForARmdir, Children, Up
  <2>5. GoOn(p, M)
    BY <1>4, <2>0
  <2> QED BY <1>0, <1>1, <1>2, <2>2, <2>3, <2>4, <2>5, WipeGoesOn
<1> QED BY <1>0, <1>3, <1>4 DEF ReadDir

LEMMA UnlinkDirKnows ==
  ASSUME Typed, CallsKnow, NEW p \in Procs, UnlinkDir(p)
  PROVE  CallKnows(p)' /\ Answers(p)
<1>0. PICK c, k, d, L, T : /\ c = proc[p] /\ k = c.key /\ d = c.place /\ L = Job(c)
                           /\ T = c.todo
  OBVIOUS
<1>1. c.pc = "unlinkDir" /\ c.pc \in Wiping /\ UNCHANGED dirs /\ DOMAIN file' = DOMAIN file \ {d}
  BY <1>0 DEF UnlinkDir, Wiping, DropFile
<1>2. /\ c.pc # "idle" /\ c.op = "iKeyDelete" /\ k \in Keys
      /\ T \in Seq(Item) /\ BelowKey(k, L)
      /\ L[1] = [pc |-> "unlinkDir", dir |-> d] /\ Rest(T, L, Len(T))
      /\ (c.alone /\ c.was \in Values \cup {Several}) => Agenda(k, L)
  BY <1>0, <1>1, WipeHas
<1>3. 1 \in DOMAIN L /\ BelowKey(k, T)
  <2>1. L[1].dir = d
    BY <1>2
  <2> QED BY <1>2, <2>1, RestFacts
<1>4. CASE d \notin DOMAIN file
  <2>1. Return(p, FALSE)
    BY <1>0, <1>4 DEF UnlinkDir
  <2>2. ~(c.alone /\ c.was \in Values \cup {Several})
    <3>1. SUFFICES ASSUME Agenda(k, L) PROVE FALSE
      BY <1>2
    <3>2. L[1].pc = "unlinkDir" /\ L[1].dir = d
      BY <1>2
    <3> QED BY <1>3, <1>4, <3>1, <3>2 DEF Agenda, AllThere
  <2> QED BY <1>0, <1>2, <2>1, <2>2, ReturnsFalse
<1>5. CASE d \in DOMAIN file
  <2>1. GoOn(p, T)
    BY <1>0, <1>5 DEF UnlinkDir
  <2>2. Agenda(k, L) => Agenda(k, T)'
    BY <1>1, <1>2, AgendaUnlinked
  <2> QED BY <1>0, <1>1, <1>2, <1>3, <2>1, <2>2, WipeGoesOn
<1> QED BY <1>4, <1>5

LEMMA RmdirKnows ==
  ASSUME Typed, CallsKnow, NEW p \in Procs, Rmdir(p)
  PROVE  CallKnows(p)' /\ Answers(p)
<1>0. PICK c, k, d, L, T : /\ c = proc[p] /\ k = c.key /\ d = c.place /\ L = Job(c)
                           /\ T = c.todo
  OBVIOUS
<1> DEFINE gone == d \in dirs /\ d \notin DOMAIN file /\ Children(d) = {}
<1>1. c.pc = "rmdir" /\ c.pc \in Wiping /\ UNCHANGED file
  BY <1>0 DEF Rmdir, Wiping
<1>2. /\ c.pc # "idle" /\ c.op = "iKeyDelete" /\ k \in Keys
      /\ T \in Seq(Item) /\ BelowKey(k, L)
      /\ L[1] = [pc |-> "rmdir", dir |-> d] /\ Rest(T, L, Len(T))
      /\ (c.alone /\ c.was \in Values \cup {Several}) => Agenda(k, L)
  BY <1>0, <1>1, WipeHas
<1>3. 1 \in DOMAIN L /\ BelowKey(k, T) /\ L[1].pc = "rmdir" /\ L[1].dir = d
  <2>1. L[1].dir = d /\ L[1].pc = "rmdir"
    BY <1>2
  <2> QED BY <1>2, <2>1, RestFacts
<1>4. CASE ~gone
  <2>1. Return(p, FALSE)
    BY <1>0, <1>4 DEF Rmdir
  <2>2. ~(c.alone /\ c.was \in Values \cup {Several})
    <3>1. SUFFICES ASSUME Agenda(k, L) PROVE FALSE
      BY <1>2
    <3>2. d \in dirs
      BY <1>3, <3>1 DEF Agenda, AllThere
    <3>3. 1..(1 - 1) = {}
      OBVIOUS
    <3>4. /\ \A x \in Children(d) : \E n \in 1..(1 - 1) : L[n].pc # "unlinkDir" /\ L[n].dir = x
          /\ d \in DOMAIN file => \E n \in 1..(1 - 1) : L[n] = [pc |-> "unlinkDir", dir |-> d]
      BY <1>3, <3>1 DEF Agenda, EmptiesFirst
    <3> QED BY <1>4, <3>2, <3>3, <3>4
  <2> QED BY <1>0, <1>2, <2>1, <2>2, ReturnsFalse
<1>5. CASE gone
  <2>1. GoOn(p, T) /\ dirs' = dirs \ {d}
    BY <1>0, <1>5 DEF Rmdir
  <2>2. Agenda(k, L) => Agenda(k, T)'
    BY <1>1, <1>2, <1>5, <2>1, AgendaRemoved
  <2> QED BY <1>0, <1>1, <1>2, <1>3, <2>1, <2>2, WipeGoesOn
<1> QED BY <1>4, <1>5

LEMMA UnlinkKnows ==
  ASSUME Typed, NEW p \in Procs, Unlink(p)
  PROVE  CallKnows(p)' /\ Answers(p)
<1>1. proc[p].pc # "idle" /\ proc[p].pc = "unlink" /\ Return(p, proc[p].place \in DOMAIN file)
  BY DEF Unlink
<1>2. proc[p].op = "iDelete"
  BY <1>1, CallFields DEF CallOK, FitsOp
<1>3. /\ proc'[p] = Idle /\ last'.op = "iDelete"
      /\ last'.was = proc[p].was /\ last'.alone = proc[p].alone
  <2>1. PICK r : Return(p, r)
    BY <1>1
  <2> QED BY <1>1, <1>2, <2>1, ReturnMoves
<1> QED BY <1>2, <1>3, KnowsIdle DEF Answers

LEMMA DeleteLooks ==
  ASSUME Typed, CallsKnow, NEW p \in Procs, proc[p].op \in {"iDelete", "iKeyDelete"},
         StatDirect(p) \/ LookLevel(p) \/ LookRest(p)
  PROVE  CallKnows(p)' /\ Answers(p)
<1>0. PICK c, k, x, n : c = proc[p] /\ k = c.key /\ x = proc'[p] /\ n = c.lvl
  OBVIOUS
<1>1. c.pc \in Looking \cup {"statDirect"} /\ UNCHANGED <<dirs, file, data>>
  BY <1>0 DEF StatDirect, LookLevel, LookRest, fsys, Looking
<1>2. /\ proc[p].pc # "idle" /\ c # Idle /\ CallOK(p, c) /\ k \in Keys
      /\ Shape(c) /\ DeleteKnows(c) /\ Len(Last(k)) \in Nat \ {0} /\ n \in Nat
      /\ c.op \in {"iDelete", "iKeyDelete"}
  BY <1>0, <1>1, CallFields DEF CallsKnow, CallKnows, Looking
<1>3. /\ c.todo = <<>> /\ At(p, n) = Spot(k, n) /\ At(p, 0) = Spot(k, 0)
      /\ LevelOf(p, n) = Level(Front(k), Last(k), n)
      /\ c.pc = "statDirect" => n = 0
      /\ c.pc \in Looking => n > 0
      /\ c.pc # "lookLevel" => n \in Depths(k)
  <2>1. c.todo = <<>>
    BY <1>1, <1>2 DEF Shape, Wiping, Looking
  <2>2. /\ c.pc = "statDirect" => n = 0
        /\ c.pc \in Looking => n \in 1..Len(Last(k))
        /\ c.pc # "lookLevel" => n < Len(Last(k))
    BY <1>0, <1>1, <1>2 DEF CallOK, FitsLevel, Looking, Wiping
  <2>3. c.pc # "lookLevel" => n \in Depths(k)
    BY <1>2, <2>2 DEF Depths
  <2>4. /\ At(p, n) = Spot(k, n) /\ At(p, 0) = Spot(k, 0)
        /\ LevelOf(p, n) = Level(Front(k), Last(k), n)
    BY <1>0 DEF At, LevelOf, Spot
  <2> QED BY <2>1, <2>2, <2>3, <2>4
<1> DEFINE quiet == c.op = "iKeyDelete" /\ c.alone /\ c.was \in Values \cup {Several}
           further(m) == \E i \in Depths(k) : i >= m /\ Spot(k, i) \in dirs
<1>4. quiet => further(n)
  <2>1. ASSUME quiet, c.pc = "statDirect" PROVE further(n)
    <3>1. PICK i \in Depths(k) : Spot(k, i) \in dirs
      BY <1>0, <1>2, <2>1 DEF DeleteKnows
    <3>2. i >= n
      BY <1>2, <1>3, <2>1, <3>1, SpotFacts
    <3> QED BY <3>1, <3>2
  <2>2. ASSUME quiet, c.pc \in Looking PROVE further(n)
    BY <1>0, <1>2, <2>2 DEF DeleteKnows
  <2> QED BY <1>1, <2>1, <2>2
<1>5. \A m : further(m) => further(m)'
  BY <1>1 DEF Spot, Depths
\* The three ways to go on.
<1>6. ASSUME NEW l \in Looking, NEW m, Carries(x, c), x.pc = l, x.lvl = m, x.todo = <<>>,
             UNCHANGED last, quiet => further(m)
      PROVE  CallKnows(p)' /\ Answers(p)
  <2>1. x.op = c.op /\ x.key = k /\ x.was = c.was /\ x.alone = c.alone
    BY <1>0, <1>6 DEF Carries
  <2>2. Shape(x)
    BY <1>6 DEF Shape, Wiping, Choosing, Looking
  <2>3. DeleteKnows(x)'
    <3>1. quiet => further(m)'
      BY <1>5, <1>6
    <3>2. x.pc # "statDirect" /\ x.pc \notin Wiping
      BY <1>6 DEF Wiping, Looking
    <3> QED BY <1>6, <2>1, <3>1, <3>2 DEF DeleteKnows
  <2> QED BY <1>0, <1>2, <1>6, <2>1, <2>2, <2>3, KnowsAsDelete DEF Answers
<1>7. ASSUME n \in Depths(k), Spot(k, n) \in dirs, Found(p, Spot(k, n))
      PROVE  CallKnows(p)' /\ Answers(p)
  <2>1. /\ Carries(x, c) /\ x.pc = NextOf(c.op) /\ x.place = Spot(k, n) /\ x.lvl = n
        /\ x.todo = <<>> /\ UNCHANGED <<last, acked>>
    BY <1>0, <1>2, <1>3, <1>7, FoundMoves
  <2>2. x.op = c.op /\ x.key = k /\ x.was = c.was /\ x.alone = c.alone
    BY <1>0, <2>1 DEF Carries
  <2>3. Proper(Spot(k, n)) /\ PathOf(Spot(k, n)) = k /\ Spot(k, n).at = Front(k)
    BY <1>2, <1>7, SpotFacts
  <2>4. IsPrefix(k, k) /\ ~IsPrefix(k, Front(k))
    <3>1. k \in Seq(Names) /\ k # <<>> /\ Front(k) \in Seq(Names) /\ Len(Front(k)) = Len(k) - 1
      BY <1>2, KeyParts, FrontLast
    <3>2. IsPrefix(k, k)
      BY <3>1, PrefixReflexive
    <3>3. IsPrefix(k, Front(k)) => Len(k) \in 0..Len(Front(k))
      BY <3>1, PrefixIsLeading
    <3>4. Len(k) \notin 0..Len(Front(k))
      BY <3>1
    <3> QED BY <3>2, <3>3, <3>4
  <2>5. CASE c.op = "iDelete"
    <3>1. x.pc = "unlink"
      BY <2>1, <2>5, NextOfEach
    <3>2. Shape(x)
      BY <1>7, <2>1, <2>2, <3>1 DEF Shape, Wiping, Choosing
    <3>3. DeleteKnows(x)'
      BY <2>2, <2>5 DEF DeleteKnows
    <3> QED BY <1>0, <1>2, <2>1, <2>2, <3>2, <3>3, KnowsAsDelete DEF Answers
  <2>6. CASE c.op = "iKeyDelete"
    <3>1. x.pc = "readDir"
      BY <2>1, <2>6, NextOfEach
    <3>2. Shape(x)
      <4>1. 1..Len(x.todo) = {}
        BY <2>1
      <4> QED BY <2>1, <2>2, <2>3, <2>4, <3>1, <4>1 DEF Shape, Choosing
    <3>3. /\ DOMAIN Job(x) = 1..1 /\ Job(x)[1] = [pc |-> "readDir", dir |-> Spot(k, n)]
      <4>1. Len(x.todo) + 1 = 1
        BY <2>1
      <4> QED BY <2>1, <3>1, <4>1 DEF Job
    <3>4. \A m \in DOMAIN Job(x) : /\ m = 1 /\ Job(x)[m].pc = "readDir"
                                   /\ Job(x)[m].dir = Spot(k, n)
      <4>1. \A m \in 1..1 : m = 1
        OBVIOUS
      <4> QED BY <3>3, <4>1
    <3>5. PICK J, s : J = Job(x) /\ s = Spot(k, n)
      OBVIOUS
    <3>6. Agenda(k, J)'
      <4>1. \A m \in DOMAIN J : m = 1 /\ J[m].pc = "readDir" /\ J[m].dir = s
        BY <3>4, <3>5
      <4>2. s \in dirs' /\ s.at = Front(k)
        BY <1>1, <1>7, <2>3, <3>5
      <4>3. AllThere(J)'
        BY <4>1, <4>2 DEF AllThere
      <4>4. EmptiesFirst(J)'
        BY <4>1 DEF EmptiesFirst
      <4>5. NothingTwice(J)'
        BY <4>1 DEF NothingTwice
      <4>6. ForARmdir(k, J)'
        BY <2>4, <4>1, <4>2 DEF ForARmdir
      <4> QED BY <4>3, <4>4, <4>5, <4>6 DEF Agenda
    <3>7. DeleteKnows(x)'
      <4>1. Agenda(x.key, Job(x))'
        BY <2>2, <3>5, <3>6
      <4> QED BY <3>1, <4>1 DEF DeleteKnows, Looking
    <3> QED BY <1>0, <1>2, <2>1, <2>2, <3>2, <3>7, KnowsAsDelete DEF Answers
  <2> QED BY <1>2, <2>5, <2>6
<1>8. ASSUME Return(p, FALSE), ~further(n) PROVE CallKnows(p)' /\ Answers(p)
  <2>1. ~(/\ proc[p].op = "iKeyDelete" /\ proc[p].alone
          /\ proc[p].was \in Values \cup {Several})
    BY <1>0, <1>4, <1>8
  <2>2. proc[p].op # "iGet"
    BY <1>0, <1>2
  <2> QED BY <1>2, <1>8, <2>1, <2>2, ReturnsFalse
<1>9. ASSUME GoDeeper(p, "lookLevel"), n \in Depths(k), Spot(k, n) \notin dirs
      PROVE  CallKnows(p)' /\ Answers(p)
  <2>1. /\ Carries(x, c) /\ x.pc = "lookLevel" /\ x.lvl = n + 1 /\ x.todo = <<>>
        /\ UNCHANGED <<last, acked>>
    BY <1>0, <1>2, <1>3, <1>9, GoDeeperMoves
  <2>2. ASSUME further(n) PROVE further(n + 1)
    <3>1. PICK i \in Depths(k) : i >= n /\ Spot(k, i) \in dirs
      BY <2>2
    <3>2. i \in Nat /\ i # n
      BY <1>2, <1>9, <3>1, SpotFacts
    <3>3. i >= n + 1
      BY <1>2, <3>1, <3>2
    <3> QED BY <3>1, <3>3
  <2>3. "lookLevel" \in Looking
    BY DEF Looking
  <2>4. quiet => further(n + 1)
    BY <1>4, <2>2
  <2> HIDE DEF quiet, further
  <2> QED BY <1>6, <2>1, <2>3, <2>4
<1>10. CASE StatDirect(p)
  <2>1. n = 0 /\ n \in Depths(k) /\ c.op # "iPut" /\ c.pc = "statDirect"
    BY <1>0, <1>2, <1>3, <1>10 DEF StatDirect
  <2>2. CASE Spot(k, 0) \in dirs
    BY <1>3, <1>7, <1>10, <2>1, <2>2 DEF StatDirect
  <2>3. CASE Spot(k, 0) \notin dirs
    <3>1. GoDeeper(p, "lookLevel")
      BY <1>0, <1>3, <1>10, <2>1, <2>3 DEF StatDirect
    <3> QED BY <1>9, <2>1, <2>3, <3>1
  <2> QED BY <2>2, <2>3
<1>11. CASE LookLevel(p)
  <2>1. n > 0 /\ c.op # "iGet" /\ c.pc = "lookLevel"
    BY <1>0, <1>2, <1>3, <1>11 DEF LookLevel, Looking
  <2>2. CASE LevelOf(p, n) \in dirs
    <3>1. Goto(p, "lookRest")
      BY <1>0, <1>11, <2>2 DEF LookLevel
    <3>2. /\ Carries(x, c) /\ x.pc = "lookRest" /\ x.lvl = n /\ x.todo = <<>>
          /\ UNCHANGED <<last, acked>>
      BY <1>0, <1>2, <1>3, <3>1, GotoMoves
    <3>3. "lookRest" \in Looking
      BY DEF Looking
    <3> HIDE DEF quiet, further
    <3> QED BY <1>4, <1>6, <3>2, <3>3
  <2>3. CASE LevelOf(p, n) \notin dirs
    <3>1. Return(p, FALSE)
      BY <1>0, <1>11, <2>1, <2>3 DEF LookLevel
    <3>2. ASSUME further(n) PROVE FALSE
      <4>1. PICK i \in Depths(k) : i >= n /\ Spot(k, i) \in dirs
        BY <3>2
      <4>2. n \in 1..i
        BY <1>2, <2>1, <4>1, SpotFacts
      <4>3. Level(Front(k), Last(k), n) \in dirs
        BY <1>2, <4>1, <4>2, LevelsOfSpot DEF Typed
      <4> QED BY <1>3, <2>3, <4>3
    <3> HIDE DEF further
    <3> QED BY <1>8, <3>1, <3>2
  <2> QED BY <2>2, <2>3
<1>12. CASE LookRest(p)
  <2>1. n \in Depths(k) /\ c.pc = "lookRest"
    BY <1>0, <1>3, <1>12 DEF LookRest
  <2>2. CASE Spot(k, n) \in dirs
    <3>1. Found(p, Spot(k, n))
      BY <1>0, <1>3, <1>12, <2>2 DEF LookRest
    <3> QED BY <1>7, <2>1, <2>2, <3>1
  <2>3. CASE Spot(k, n) \notin dirs
    <3>1. GoDeeper(p, "lookLevel")
      BY <1>0, <1>3, <1>12, <2>3 DEF LookRest
    <3> QED BY <1>9, <2>1, <2>3, <3>1
  <2> QED BY <2>2, <2>3
<1> QED BY <1>10, <1>11, <1>12

----------------------------------------------------------------------------
(* What every call knows after a step of one.                              *)

LEMMA PutAnswers ==
  ASSUME Typed, NEW p \in Procs, proc[p].pc # "idle", proc[p].op = "iPut",
         UNCHANGED last \/ \E r : Return(p, r)
  PROVE  Answers(p)
<1>1. CASE UNCHANGED last
  BY <1>1 DEF Answers
<1>2. ASSUME NEW r, Return(p, r) PROVE Answers(p)
  <2>1. last'.op = "iPut" /\ last'.was = proc[p].was /\ last'.alone = proc[p].alone
    BY <1>2, ReturnMoves
  <2> QED BY <2>1 DEF Answers
<1> QED BY <1>1, <1>2

LEMMA OwnCall ==
  ASSUME Typed, Heard, ProperDirs, CallsKnow, KeysKnown, NEW p \in Procs, Step(p)
  PROVE  CallKnows(p)' /\ Answers(p)
<1>1. ASSUME proc[p].pc # "idle"
      PROVE  CallOK(p, proc[p]) /\ proc[p].op \in Ops
  BY <1>1, CallFields
<1>2. CASE \/ StatParent(p) \/ CountLevel(p) \/ StatLevel(p) \/ StatRest(p)
           \/ StatPlace(p) \/ Mkdir(p) \/ OpenWrite(p) \/ Write(p)
  <2>1. proc[p].pc \in Choosing \cup Making
    BY <1>2 DEF StatParent, CountLevel, StatLevel, StatRest, StatPlace, Mkdir, OpenWrite, Write,
                Choosing, Making
  <2>2. proc[p].pc # "idle" /\ proc[p].op = "iPut"
    BY <1>1, <2>1 DEF CallOK, FitsOp, Choosing, Making
  <2>3. UNCHANGED last \/ \E r : Return(p, r)
    BY <1>2 DEF StatParent, CountLevel, StatLevel, StatRest, StatPlace, Mkdir, OpenWrite, Write,
                Goto, Found, GoDeeper, Opened
  <2>4. ASSUME Write(p) PROVE CallKnows(p)'
    <3>1. Return(p, IDB_OK)
      BY <2>4 DEF Write
    <3>2. proc'[p] = Idle
      BY <2>2, <3>1, ReturnMoves
    <3> QED BY <3>2, KnowsIdle
  <2>5. CallKnows(p)'
    BY <1>2, <2>2, <2>4, PutWalks, PutStats, PutMakes, PutOpens
  <2> QED BY <2>2, <2>3, <2>5, PutAnswers
<1>3. CASE StatDirect(p)
  <2>1. proc[p].pc # "idle" /\ proc[p].pc = "statDirect"
    BY <1>3 DEF StatDirect
  <2>2. proc[p].op \in {"iPut", "iDelete", "iKeyDelete"}
    BY <1>1, <2>1 DEF CallOK, FitsOp, Ops
  <2>3. CASE proc[p].op = "iPut"
    <3>1. UNCHANGED last
      BY <1>3, <2>3 DEF StatDirect, Goto, Found
    <3> QED BY <1>3, <2>1, <2>3, <3>1, PutWalks, PutAnswers
  <2> QED BY <1>3, <2>2, <2>3, DeleteLooks
<1>4. CASE LookLevel(p) \/ LookRest(p)
  <2>1. proc[p].pc # "idle" /\ proc[p].pc \in Looking
    BY <1>4 DEF LookLevel, LookRest, Looking
  <2>2. proc[p].op \in {"iGet", "iDelete", "iKeyDelete"}
    BY <1>1, <2>1 DEF CallOK, FitsOp, Ops
  <2> QED BY <1>4, <2>2, DeleteLooks, GetLooks
<1>5. CASE OpenDirect(p) \/ Lseek(p)
  BY <1>5, OpenDirectKnows, LseekKnows DEF Answers
<1>6. CASE OpenPlace(p) \/ ReadFile(p)
  BY <1>6, OpenPlaceKnows, ReadFileKnows
<1>7. CASE Unlink(p) \/ ReadDir(p) \/ UnlinkDir(p) \/ Rmdir(p)
  BY <1>7, UnlinkKnows, ReadDirKnows, UnlinkDirKnows, RmdirKnows
<1> QED BY <1>2, <1>3, <1>4, <1>5, <1>6, <1>7 DEF Step

LEMMA OtherCall ==
  ASSUME Typed, Heard, ProperDirs, CallsKnow, NEW p \in Procs, Moved(p), Touches(p),
         proc[p].key \in Keys, NEW q \in Procs, q # p
  PROVE  CallKnows(q)'
<1>1. proc'[q] = proc[q]
  BY DEF Moved, Others
<1>2. SUFFICES ASSUME proc[q] # Idle PROVE CallKnows(q)'
  BY <1>1, KnowsIdle
<1>3. /\ Shape(proc[q]) /\ Way(q)
      /\ PutKnows(proc[q]) /\ GetKnows(proc[q]) /\ DeleteKnows(proc[q])
  BY <1>2 DEF CallsKnow, CallKnows
<1>4. Way(q)' /\ PutKnows(proc[q])' /\ GetKnows(proc[q])' /\ DeleteKnows(proc[q])'
  BY <1>2, <1>3, OtherWay, OtherPut, OtherGet, OtherDelete
<1>5. Shape(proc[q])'
  BY <1>1, <1>3 DEF Shape, Spot, Depths
<1> QED BY <1>4, <1>5 DEF CallKnows

----------------------------------------------------------------------------
(* What is known of the key of a step.                                     *)

LEMMA UnknownKey ==
  ASSUME NEW k \in Keys, acked'[k] = Unknown
  PROVE  KeyKnows(k)'
<1>1. Unknown \notin Values /\ Unknown # NoValue /\ Unknown # Several
  BY MarksAssumption
<1> QED BY <1>1 DEF KeyKnows

LEMMA RemovedKey ==
  ASSUME Removed, NEW p \in Procs, Moved(p), NEW k \in Keys,
         Removes(proc[p].op, proc[p].key, k)
  PROVE  KeyKnows(k)'
<1>1. proc[p] # Idle /\ acked[k] = Unknown
  BY DEF Moved, Removed, Removing
<1>2. acked'[k] = Unknown
  BY <1>1 DEF Moved, Removes
<1> QED BY <1>2, UnknownKey

\* Before a put has made anything and after, it changes nothing.
LEMMA WalkKey ==
  ASSUME Typed, NEW p \in Procs, Moved(p), NEW k \in Keys, KeyKnows(k),
         proc[p].pc \notin {"mkdir", "openWrite", "write"},
         acked'[k] = acked[k], UNCHANGED <<dirs, file, data>>
  PROVE  KeyKnows(k)'
<1>1. ASSUME NEW q \in Procs, Putting(q, k), proc[q].pc \in {"mkdir", "openWrite", "write"}
      PROVE  Putting(q, k)' /\ proc'[q].pc = proc[q].pc
  <2>1. q # p
    BY <1>1
  <2>2. proc'[q] = proc[q]
    BY <2>1 DEF Moved, Others
  <2> QED BY <1>1, <2>2 DEF Putting
<1>2. ASSUME acked'[k] \in Values,
             \A q \in Procs : Putting(q, k)' => proc'[q].pc \notin {"mkdir", "openWrite", "write"}
      PROVE  Written(k, acked[k])'
  <2>1. \A q \in Procs : Putting(q, k) => proc[q].pc \notin {"mkdir", "openWrite", "write"}
    BY <1>1, <1>2
  <2>2. Written(k, acked[k])
    BY <1>2, <2>1 DEF KeyKnows
  <2> QED BY <2>2 DEF Written, WrittenAt, Passed, Depths, Spot
<1>3. ASSUME acked'[k] = NoValue,
             \A q \in Procs : Putting(q, k)' => proc'[q].pc # "write"
      PROVE  Unwritten(k)'
  <2>1. \A q \in Procs : Putting(q, k) => proc[q].pc # "write"
    BY <1>1, <1>3
  <2>2. Unwritten(k)
    BY <1>3, <2>1 DEF KeyKnows
  <2> QED BY <2>2 DEF Unwritten, Depths, Spot
<1>4. acked'[k] \in Values \cup {Several} => \E i \in Depths(k)' : Spot(k, i)' \in DOMAIN file'
  <2>1. acked[k] \in Values \cup {Several} => \E i \in Depths(k) : Spot(k, i) \in DOMAIN file
    BY DEF KeyKnows
  <2> QED BY <2>1 DEF Depths, Spot
<1> QED BY <1>2, <1>3, <1>4 DEF KeyKnows

LEMMA MkdirKey ==
  ASSUME Typed, CallsKnow, NEW p \in Procs, Mkdir(p), Moved(p), NEW k \in Keys, k = proc[p].key,
         KeyKnows(k)
  PROVE  KeyKnows(k)'
<1>0. PICK c : c = proc[p] /\ k = c.key
  OBVIOUS
<1>1. c.pc = "mkdir" /\ UNCHANGED <<file, data, acked>> /\ c.op = "iPut"
  BY <1>0, TargetOnWay DEF Mkdir
<1>2. k \in Keys /\ c # Idle /\ c \in CallType
  BY <1>0, <1>1, CallFields
<1>3. /\ proc'[p] # Idle /\ proc'[p].op = "iPut" /\ proc'[p].key = k
      /\ proc'[p].pc \in {"mkdir", "openWrite"}
  <2>1. PICK l \in {"mkdir", "openWrite"} : proc'[p] = [c EXCEPT !.made = @ + 1, !.pc = l]
    BY <1>0 DEF Mkdir, Typed, ProgramOK
  <2> QED BY <1>0, <1>1, <1>2, <2>1 DEF CallType, Idle
<1>4. Putting(p, k)'
  BY <1>3 DEF Putting
<1>5. ASSUME acked'[k] = NoValue,
             \A q \in Procs : Putting(q, k)' => proc'[q].pc # "write"
      PROVE  Unwritten(k)'
  <2>1. ASSUME NEW q \in Procs, Putting(q, k) PROVE proc[q].pc # "write"
    <3>1. CASE q = p
      BY <1>0, <1>1, <3>1
    <3>2. CASE q # p
      <4>1. proc'[q] = proc[q]
        BY <3>2 DEF Moved, Others
      <4>2. Putting(q, k)'
        BY <2>1, <4>1 DEF Putting
      <4> QED BY <1>5, <4>1, <4>2
    <3> QED BY <3>1, <3>2
  <2>2. Unwritten(k)
    BY <1>0, <1>1, <1>5, <2>1 DEF KeyKnows
  <2> QED BY <1>1, <2>2 DEF Unwritten, Depths, Spot
<1>6. acked'[k] \in Values \cup {Several} => \E i \in Depths(k)' : Spot(k, i)' \in DOMAIN file'
  <2>1. acked[k] \in Values \cup {Several} => \E i \in Depths(k) : Spot(k, i) \in DOMAIN file
    BY <1>0 DEF KeyKnows
  <2> QED BY <1>1, <2>1 DEF Depths, Spot
<1> QED BY <1>3, <1>4, <1>5, <1>6 DEF KeyKnows

LEMMA OpenWriteKey ==
  ASSUME Typed, AllKept, CallsKnow, NEW p \in Procs, OpenWrite(p), Moved(p),
         NEW k \in Keys, k = proc[p].key, KeyKnows(k)
  PROVE  KeyKnows(k)'
<1>0. PICK c, d : c = proc[p] /\ k = c.key /\ d = c.place
  OBVIOUS
<1> DEFINE n == IF d \in DOMAIN file THEN file[d] ELSE Fresh
<1>1. c.pc = "openWrite" /\ UNCHANGED dirs
  BY <1>0 DEF OpenWrite
<1>2. proc[p].pc # "idle" /\ c # Idle /\ CallOK(p, c) /\ Way(p)
  BY <1>0, <1>1, CallFields DEF CallsKnow, CallKnows
<1>3. c.op = "iPut"
  BY <1>1, <1>2 DEF CallOK, FitsOp, Making
<1>4. acked[k] \in Values \cup {Several} => \E i \in Depths(k) : Spot(k, i) \in DOMAIN file
  BY DEF KeyKnows
<1>5. CASE /\ file' = [y \in DOMAIN file \cup {d} |-> IF y = d THEN n ELSE file[y]]
           /\ Opened(p, n, "write")
  <2>1. /\ Carries(proc'[p], c) /\ proc'[p].pc = "write" /\ UNCHANGED acked
    BY <1>0, <1>2, <1>5, OpenedMoves
  <2>2. DOMAIN file \subseteq DOMAIN file'
    BY <1>5
  <2>3. proc'[p] # Idle
    BY <2>1 DEF Idle
  <2>4. Putting(p, k)'
    BY <1>0, <1>3, <2>1, <2>3 DEF Putting, Carries
  <2>5. acked'[k] \in Values \cup {Several} => \E i \in Depths(k)' : Spot(k, i)' \in DOMAIN file'
    BY <1>4, <2>1, <2>2 DEF Depths, Spot
  <2> QED BY <2>1, <2>4, <2>5 DEF KeyKnows
<1>6. CASE d \notin dirs /\ Return(p, 1) /\ UNCHANGED <<file, data>>
  <2>1. UNCHANGED acked
    BY <1>0, <1>2, <1>6, ReturnMoves DEF IDB_OK
  <2>2. acked[k] \notin Values \cup {NoValue}
    <3>1. SUFFICES ASSUME acked[k] \in Values \cup {NoValue} PROVE FALSE
      OBVIOUS
    <3>2. Putting(p, k)
      BY <1>0, <1>2, <1>3 DEF Putting
    <3>3. proc[p].kept
      BY <3>1, <3>2 DEF AllKept
    <3>4. d \in dirs
      BY <1>0, <1>1, <1>2, <1>3, <3>3 DEF Way
    <3> QED BY <1>6, <3>4
  <2>3. acked'[k] \in Values \cup {Several} => \E i \in Depths(k)' : Spot(k, i)' \in DOMAIN file'
    BY <1>4, <1>6, <2>1 DEF Depths, Spot
  <2> QED BY <2>1, <2>2, <2>3 DEF KeyKnows
<1> QED BY <1>0, <1>5, <1>6 DEF OpenWrite

LEMMA WriteKey ==
  ASSUME Typed, CallsKnow, NEW p \in Procs, Write(p),
         NEW k \in Keys, k = proc[p].key
  PROVE  KeyKnows(k)'
<1>0. PICK c, i, d, v : /\ c = proc[p] /\ k = c.key /\ i = c.lvl /\ d = Spot(k, i)
                        /\ v = c.val
  OBVIOUS
<1>1. c.pc = "write" /\ UNCHANGED <<dirs, file>> /\ Return(p, IDB_OK)
      /\ data' = [data EXCEPT ![c.fd] = Overlay(@, v)]
  BY <1>0 DEF Write
<1>2. proc[p].pc # "idle" /\ c # Idle /\ CallOK(p, c) /\ Way(p) /\ PutKnows(c) /\ Shape(c)
  BY <1>0, <1>1, CallFields DEF CallsKnow, CallKnows
<1>3. c.op = "iPut" /\ i \in Depths(k) /\ c.place = d /\ v \in Values /\ c.fd \in Inodes
  <2>1. c.op = "iPut" /\ c.fd \in Inodes
    BY <1>1, <1>2 DEF CallOK, FitsOp, FitsFile, Making
  <2>2. i \in Depths(k) /\ c.place = d
    BY <1>0, <1>1, <1>2 DEF Shape
  <2> QED BY <1>0, <1>2, <2>1, <2>2, CallFields
<1>4. Leaves(c, acked'[k])
  BY <1>0, <1>1, <1>2, <1>3, ReturnMoves
<1>5. CASE ~c.kept
  BY <1>4, <1>5, UnknownKey DEF Leaves
<1>6. CASE c.kept
  <2>1. d \in DOMAIN file /\ file[d] = c.fd
    BY <1>0, <1>1, <1>3, <1>6, <1>2 DEF Way
  <2>2. \E j \in Depths(k)' : Spot(k, j)' \in DOMAIN file'
    BY <1>0, <1>1, <1>3, <2>1 DEF Depths, Spot
  <2>3. CASE c.alone
    <3>1. acked'[k] = v
      BY <1>0, <1>4, <1>6, <2>3 DEF Leaves
    <3>2. data[c.fd] = <<>> /\ Passed(k, i)
      BY <1>0, <1>1, <1>2, <1>3, <2>3 DEF PutKnows, Making
    <3>3. Overlay(<<>>, v) = v
      <4>1. v \in Bytes /\ <<>> \in Bytes
        BY <1>3, ValuesAssumption DEF Bytes
      <4> QED BY <4>1, OverlayBytes
    <3>4. data'[c.fd] = v
      BY <1>1, <1>3, <3>2, <3>3 DEF Typed, FilesOK
    <3>5. WrittenAt(k, i, v)'
      <4>1. Passed(k, i)'
        BY <1>1, <3>2 DEF Passed, Spot
      <4>2. Spot(k, i)' = d
        BY <1>0 DEF Spot
      <4> QED BY <1>1, <2>1, <3>4, <4>1, <4>2 DEF WrittenAt
    <3>6. Written(k, v)'
      BY <1>3, <3>5 DEF Written, Depths
    <3>7. Written(k, acked[k])'
      BY <3>1, <3>6 DEF Written, WrittenAt
    <3>8. acked'[k] # NoValue
      BY <1>3, <3>1, MarksAssumption
    <3> QED BY <2>2, <3>7, <3>8 DEF KeyKnows
  <2>4. CASE ~c.alone
    <3>1. acked'[k] = Several
      BY <1>4, <1>6, <2>4 DEF Leaves
    <3>2. Several \notin Values /\ Several # NoValue
      BY MarksAssumption
    <3> QED BY <2>2, <3>1, <3>2 DEF KeyKnows
  <2> QED BY <2>3, <2>4
<1> QED BY <1>5, <1>6

\* A crash leaves the files as they are, and nobody knows what.
LEMMA CrashKey ==
  ASSUME Typed, NEW p \in Procs, Crash(p), NEW k \in Keys, k = proc[p].key,
         proc[p].op = "iPut"
  PROVE  KeyKnows(k)'
<1>1. acked'[k] = Unknown
  BY DEF Crash, Typed, ProgramOK, AckedOK
<1> QED BY <1>1, UnknownKey

LEMMA StepKey ==
  ASSUME Typed, Provenance, Removed, AllKept, CallsKnow, NEW p \in Procs, Step(p),
         NEW k \in Keys, KeyKnows(k)
  PROVE  KeyKnows(k)'
<1>1. Moved(p) /\ Touches(p)
  BY StepMoves, StepTouches
<1>2. CASE ~Changes(proc[p].op, proc[p].key, k)
  BY <1>1, <1>2, OtherKey
<1>3. CASE Removes(proc[p].op, proc[p].key, k)
  BY <1>1, <1>3, RemovedKey
<1>4. CASE proc[p].op = "iPut" /\ proc[p].key = k
  <2>1. CASE Mkdir(p)
    BY <1>1, <1>4, <2>1, MkdirKey
  <2>2. CASE OpenWrite(p)
    BY <1>1, <1>4, <2>2, OpenWriteKey
  <2>3. CASE Write(p)
    BY <1>4, <2>3, WriteKey
  <2>4. CASE StatDirect(p) \/ StatParent(p) \/ CountLevel(p) \/ StatLevel(p) \/ StatRest(p) \/ StatPlace(p)
    <3>1. proc[p].pc \in {"statDirect", "statParent", "count", "statLevel", "statRest", "statPlace"}
      BY <2>4 DEF StatDirect, StatParent, CountLevel, StatLevel, StatRest, StatPlace
    <3>2. UNCHANGED <<dirs, file, data>>
      BY <2>4 DEF StatDirect, StatParent, CountLevel, StatLevel, StatRest, StatPlace, fsys
    <3>3. proc[p].pc # "idle"
      BY <3>1
    <3>4. UNCHANGED acked
      <4>1. UNCHANGED acked \/ Return(p, IDB_ERR_PART_FULL)
        BY <2>4 DEF StatDirect, StatParent, CountLevel, StatLevel, StatRest, StatPlace,
                    Goto, GoDeeper, Found
      <4>2. IDB_ERR_PART_FULL # IDB_OK
        BY DEF IDB_ERR_PART_FULL, IDB_OK
      <4> QED BY <3>3, <4>1, <4>2, ReturnMoves
    <3> QED BY <1>1, <3>1, <3>2, <3>4, WalkKey
  <2>5. CASE OpenDirect(p) \/ LookLevel(p) \/ LookRest(p) \/ OpenPlace(p) \/ Lseek(p) \/ ReadFile(p)
             \/ Unlink(p) \/ ReadDir(p) \/ UnlinkDir(p) \/ Rmdir(p)
    <3>1. proc[p].pc \in Reading \cup {"openDirect", "openPlace"} \cup Looking \cup {"unlink"} \cup Wiping
      BY <2>5 DEF OpenDirect, LookLevel, LookRest, OpenPlace, Lseek, ReadFile, Unlink,
                  ReadDir, UnlinkDir, Rmdir, Reading, Looking, Wiping
    <3>2. proc[p].pc # "idle"
      BY <3>1 DEF Reading, Looking, Wiping
    <3> QED BY <1>4, <3>1, <3>2, CallFields DEF CallOK, FitsOp
  <2> QED BY <2>1, <2>2, <2>3, <2>4, <2>5 DEF Step
<1> QED BY <1>2, <1>3, <1>4 DEF Changes

LEMMA StepKnown ==
  ASSUME Provenanced, Promises, Known, NEW p \in Procs, Step(p)
  PROVE  Known' /\ Answers(p)
<1>1. Typed /\ Provenance /\ Heard /\ Removed /\ AllKept /\ ProperDirs /\ CallsKnow /\ KeysKnown
  BY DEF Provenanced, Promises, Known
<1>2. Moved(p) /\ Touches(p)
  BY <1>1, StepMoves, StepTouches
<1>3. ProperDirs'
  BY <1>1, <1>2, ProperKept
<1>4. proc[p].pc # "idle" /\ proc[p].key \in Keys
  <2>1. proc[p].pc # "idle"
    BY <1>1, <1>2, NotIdle DEF Moved
  <2> QED BY <1>1, <2>1, CallFields
<1>5. ASSUME NEW q \in Procs PROVE CallKnows(q)'
  BY <1>1, <1>2, <1>4, OwnCall, OtherCall
<1>6. Answers(p)
  BY <1>1, OwnCall
<1>7. ASSUME NEW k \in Keys PROVE KeyKnows(k)'
  <2>1. KeyKnows(k)
    BY <1>1 DEF KeysKnown
  <2> QED BY <1>1, <2>1, StepKey
<1>8. CallsKnow'
  BY <1>5 DEF CallsKnow
<1>9. KeysKnown'
  BY <1>7 DEF KeysKnown
<1> QED BY <1>3, <1>6, <1>8, <1>9 DEF Known

LEMMA CrashKnown ==
  ASSUME Provenanced, Promises, Known, NEW p \in Procs, Crash(p)
  PROVE  Known'
<1>1. Typed /\ Provenance /\ Heard /\ Removed /\ AllKept /\ ProperDirs /\ CallsKnow /\ KeysKnown
  BY DEF Provenanced, Promises, Known
<1>2. Moved(p) /\ Touches(p) /\ proc'[p] = Idle
  BY <1>1, CrashMoves
<1>3. ProperDirs'
  BY <1>1, <1>2, ProperKept
<1>4. proc[p].pc # "idle" /\ proc[p].key \in Keys
  <2>1. proc[p].pc # "idle"
    BY <1>1, <1>2, NotIdle DEF Moved
  <2> QED BY <1>1, <2>1, CallFields
<1>5. ASSUME NEW q \in Procs PROVE CallKnows(q)'
  BY <1>1, <1>2, <1>4, KnowsIdle, OtherCall
<1>6. ASSUME NEW k \in Keys PROVE KeyKnows(k)'
  <2>1. KeyKnows(k)
    BY <1>1 DEF KeysKnown
  <2>2. CASE ~Changes(proc[p].op, proc[p].key, k)
    BY <1>1, <1>2, <2>1, <2>2, OtherKey
  <2>3. CASE Removes(proc[p].op, proc[p].key, k)
    BY <1>1, <1>2, <2>3, RemovedKey
  <2>4. CASE proc[p].op = "iPut" /\ proc[p].key = k
    BY <1>1, <2>4, CrashKey
  <2> QED BY <2>2, <2>3, <2>4 DEF Changes
<1>7. CallsKnow'
  BY <1>5 DEF CallsKnow
<1>8. KeysKnown'
  BY <1>6 DEF KeysKnown
<1> QED BY <1>3, <1>7, <1>8 DEF Known

----------------------------------------------------------------------------
(* What is promised of the keys after a step of a call.                    *)

LEMMA MovedPromises ==
  ASSUME Typed, Promises, NEW p \in Procs, Moved(p),
         \A k \in Keys : acked'[k] # acked[k] => proc'[p] = Idle
  PROVE  Promises'
<1>1. Heard /\ Removed /\ AllKept /\ SoleAlone
  BY DEF Promises
<1>2. \A q \in Procs : q # p => proc'[q] = proc[q]
  BY DEF Moved, Others
<1>3. proc[p] # Idle /\ (proc'[p] = Idle \/ Carries(proc'[p], proc[p]))
  BY DEF Moved
<1>4. \A q \in Procs : proc'[q] # Idle => proc[q] # Idle /\ Carries(proc'[q], proc[q])
  BY <1>2, <1>3 DEF Carries
<1>5. ASSUME NEW k \in Keys, acked'[k] # acked[k]
      PROVE  /\ proc[p].op = "iPut" /\ k = proc[p].key
             /\ acked'[k] = Unknown \/ Leaves(proc[p], acked'[k])
             /\ proc'[p] = Idle
  BY <1>5 DEF Moved
<1>6. Heard'
  <2> SUFFICES ASSUME NEW q \in Procs, NEW r \in Procs, q # r, proc'[q] # Idle, proc'[r] # Idle
               PROVE  /\ proc'[q].alone => ~Disturbs(proc'[r].op, proc'[r].key, proc'[q])
                      /\ proc'[q].kept => ~Undoes(proc'[r].op, proc'[r].key, proc'[q])
    BY DEF Heard, Idle, Disturbs, Undoes, Changes, Removes
  <2>1. /\ proc[q] # Idle /\ Carries(proc'[q], proc[q])
        /\ proc[r] # Idle /\ Carries(proc'[r], proc[r])
    BY <1>4
  <2>2. /\ proc[q].alone => ~Disturbs(proc[r].op, proc[r].key, proc[q])
        /\ proc[q].kept => ~Undoes(proc[r].op, proc[r].key, proc[q])
    BY <1>1, <2>1 DEF Heard
  <2> QED BY <2>1, <2>2 DEF Carries, Disturbs, Undoes
<1>7. Removed'
  <2> SUFFICES ASSUME NEW k \in Keys, NEW q \in Procs, Removing(q, k)' PROVE acked'[k] = Unknown
    BY DEF Removed
  <2>1. proc'[q] # Idle /\ Removes(proc'[q].op, proc'[q].key, k)
    BY DEF Removing, Idle, Removes
  <2>2. proc[q] # Idle /\ Carries(proc'[q], proc[q])
    BY <1>4, <2>1
  <2>3. Removing(q, k)
    BY <2>1, <2>2 DEF Removing, Carries
  <2>4. acked[k] = Unknown
    BY <1>1, <2>3 DEF Removed
  <2>5. SUFFICES ASSUME acked'[k] # acked[k] PROVE acked'[k] = Unknown
    BY <2>4
  <2>6. /\ proc[p].op = "iPut" /\ k = proc[p].key /\ proc'[p] = Idle
        /\ acked'[k] = Unknown \/ Leaves(proc[p], acked'[k])
    BY <1>5, <2>5
  <2>7. q # p
    BY <2>1, <2>6
  <2>8. Undoes(proc[q].op, proc[q].key, proc[p])
    BY <2>3, <2>6 DEF Removing, Undoes
  <2>9. ~proc[p].kept
    BY <1>1, <1>3, <2>2, <2>7, <2>8 DEF Heard
  <2> QED BY <2>6, <2>9 DEF Leaves
<1>8. AllKept'
  <2> SUFFICES ASSUME NEW k \in Keys, NEW q \in Procs,
                      acked'[k] \in Values \cup {NoValue}, Putting(q, k)'
               PROVE  proc'[q].kept
    BY DEF AllKept
  <2>1. proc'[q] # Idle /\ proc[q] # Idle /\ Carries(proc'[q], proc[q])
    BY <1>4 DEF Putting, Idle
  <2>2. Putting(q, k)
    BY <2>1 DEF Putting, Carries
  <2>3. CASE acked'[k] = acked[k]
    <3>1. proc[q].kept
      BY <1>1, <2>2, <2>3 DEF AllKept
    <3> QED BY <2>1, <3>1 DEF Carries
  <2>4. CASE acked'[k] # acked[k]
    <3>1. /\ proc[p].op = "iPut" /\ k = proc[p].key /\ proc'[p] = Idle
          /\ acked'[k] = Unknown \/ Leaves(proc[p], acked'[k])
      BY <1>5, <2>4
    <3>2. q # p
      BY <2>1, <3>1
    <3>3. acked'[k] # Unknown /\ acked'[k] # Several
      BY MarksAssumption
    <3>4. proc[p].alone
      BY <3>1, <3>3 DEF Leaves
    <3>5. Disturbs(proc[q].op, proc[q].key, proc[p])
      BY <2>2, <3>1 DEF Putting, Disturbs, Changes
    <3> QED BY <1>1, <1>3, <2>1, <3>2, <3>4, <3>5 DEF Heard
  <2> QED BY <2>3, <2>4
<1>9. SoleAlone'
  <2> SUFFICES ASSUME NEW k \in Keys, NEW q \in Procs, Users(k, "iPut")' = {q}
               PROVE  /\ acked'[k] # Several
                      /\ Putting(q, k)' /\ proc'[q].kept => proc'[q].alone
    BY DEF SoleAlone
  <2>1. Users(k, "iPut") = {q}
    BY DEF Users, Moved
  <2>2. acked[k] # Several /\ (Putting(q, k) /\ proc[q].kept => proc[q].alone)
    BY <1>1, <2>1 DEF SoleAlone
  <2>3. ASSUME Putting(q, k)', proc'[q].kept PROVE proc'[q].alone
    <3>1. proc[q] # Idle /\ Carries(proc'[q], proc[q])
      BY <1>4, <2>3 DEF Putting, Idle
    <3>2. Putting(q, k) /\ proc[q].kept
      BY <2>3, <3>1 DEF Putting, Carries
    <3> QED BY <2>2, <3>1, <3>2 DEF Carries
  <2>4. ASSUME acked'[k] # acked[k] PROVE acked'[k] # Several
    <3>1. /\ proc[p].op = "iPut" /\ k = proc[p].key
          /\ acked'[k] = Unknown \/ Leaves(proc[p], acked'[k])
      BY <1>5, <2>4
    <3>2. p \in Users(k, "iPut") /\ proc[p].val \in Values
      <4>1. proc[p].pc # "idle"
        BY <1>3, NotIdle
      <4> QED BY <3>1, <4>1, CallFields
    <3>3. q = p
      BY <2>1, <3>2
    <3>4. Putting(p, k)
      BY <1>3, <3>1 DEF Putting
    <3>5. Several # Unknown /\ Several \notin Values
      BY MarksAssumption
    <3> QED BY <2>2, <3>1, <3>2, <3>3, <3>4, <3>5 DEF Leaves
  <2> QED BY <2>2, <2>3, <2>4
<1> QED BY <1>6, <1>7, <1>8, <1>9 DEF Promises

LEMMA StepAcks ==
  ASSUME Typed, NEW p \in Procs, Step(p)
  PROVE  \A k \in Keys : acked'[k] # acked[k] => proc'[p] = Idle
<1>1. UNCHANGED acked \/ \E r : Return(p, r)
  BY DEF Step, StatDirect, StatParent, CountLevel, StatLevel, StatRest, StatPlace, Mkdir, OpenWrite, Write,
         OpenDirect, LookLevel, LookRest, OpenPlace, Lseek, ReadFile, Unlink, ReadDir, UnlinkDir,
         Rmdir, GoOn, Goto, GoDeeper, Found, Opened
<1>2. proc[p].pc # "idle"
  <2>1. proc[p] # Idle
    BY StepMoves DEF Moved
  <2> QED BY <2>1, NotIdle
<1> QED BY <1>1, <1>2, ReturnMoves

----------------------------------------------------------------------------
(* A call begins.                                                          *)

\* The call d is where c is in the code.
Stays(d, c) == /\ d.pc = c.pc /\ d.op = c.op /\ d.key = c.key /\ d.val = c.val
               /\ d.lvl = c.lvl /\ d.place = c.place /\ d.made = c.made
               /\ d.fd = c.fd /\ d.size = c.size /\ d.todo = c.todo /\ d.was = c.was

\* Process p begins op on k: what it and the others know of each other.
Begins(p, op, k) ==
  LET busy == {q \in Procs : proc[q] # Idle}
      n    == proc'[p]
  IN
  /\ op \in Ops /\ k \in Keys /\ proc[p] = Idle
  /\ op = "iPut" => p \in Users(k, "iPut")
  /\ n # Idle /\ n.op = op /\ n.key = k /\ n.pc \in {"statDirect", "openDirect"}
  /\ n.pc = "statDirect" => op # "iGet"
  /\ n.made = 0 /\ n.todo = <<>>
  /\ op \in {"iGet", "iKeyDelete"} => n.was = acked[k]
  /\ n.alone <=> \A q \in busy : ~Disturbs(proc[q].op, proc[q].key, n)
  /\ n.kept <=> \A q \in busy : ~Undoes(proc[q].op, proc[q].key, n)
  /\ \A q \in Procs : q # p /\ proc[q] = Idle => proc'[q] = Idle
  /\ \A q \in busy :
       /\ proc'[q] # Idle /\ Stays(proc'[q], proc[q])
       /\ proc'[q].alone <=> proc[q].alone /\ ~Disturbs(op, k, proc[q])
       /\ proc'[q].kept <=> proc[q].kept /\ ~Undoes(op, k, proc[q])
  /\ \A j \in Keys : acked'[j] = IF Removes(op, k, j) THEN Unknown ELSE acked[j]
  /\ UNCHANGED <<program, dirs, file, data, last>>

LEMMA StartBegins ==
  ASSUME Typed, NEW p \in Procs, Start(p)
  PROVE  \E op, k : Begins(p, op, k)
<1>1. PICK o \in program.ops[p] :
        \/ o.op = "iPut" /\ \E v \in program.values[o.key] : Begin(p, o.op, o.key, v)
        \/ o.op # "iPut" /\ Begin(p, o.op, o.key, <<>>)
  BY DEF Start
<1>2. program \in Program
  BY ProgramsAssumption DEF Typed, ProgramOK
<1>3. PICK op, k, v : op = o.op /\ k = o.key /\ Begin(p, op, k, v)
  BY <1>1
<1>4. op \in Ops /\ k \in Keys /\ o = [op |-> op, key |-> k]
  BY <1>1, <1>2, <1>3 DEF Program, Ops
<1>5. op = "iPut" => p \in Users(k, "iPut")
  BY <1>1, <1>4 DEF Users
<1> DEFINE busy == {q \in Procs : proc[q] # Idle}
           l == IF op = "iGet" THEN "openDirect" ELSE "statDirect"
           call == Call(op, k, v, l)
           a == \A q \in busy : ~Disturbs(proc[q].op, proc[q].key, call)
           b == \A q \in busy : ~Undoes(proc[q].op, proc[q].key, call)
           new == [call EXCEPT !.alone = a, !.kept = b]
           seen(c) == [c EXCEPT !.alone = @ /\ ~Disturbs(op, k, c), !.kept = @ /\ ~Undoes(op, k, c)]
<1>6. /\ proc[p] = Idle
      /\ proc' = [q \in Procs |-> IF q = p THEN new ELSE IF q \in busy THEN seen(proc[q]) ELSE proc[q]]
      /\ acked' = [j \in Keys |-> IF Removes(op, k, j) THEN Unknown ELSE acked[j]]
      /\ UNCHANGED <<program, fsys, last, crashes>>
  BY <1>3 DEF Begin
<1>7. PICK n, c : n = new /\ c = call
  OBVIOUS
<1>8. /\ n.op = op /\ n.key = k /\ n.pc = l /\ n.made = 0 /\ n.todo = <<>>
      /\ op \in {"iGet", "iKeyDelete"} => n.was = acked[k]
      /\ n.alone = a /\ n.kept = b
      /\ call.op = op /\ call.key = k
  <2> HIDE DEF a, b, l
  <2> QED BY <1>7 DEF Call
<1>9. a <=> \A q \in busy : ~Disturbs(proc[q].op, proc[q].key, n)
  BY <1>8 DEF Disturbs
<1>10. b <=> \A q \in busy : ~Undoes(proc[q].op, proc[q].key, n)
  BY <1>8 DEF Undoes
<1>11. n # Idle
  BY <1>8 DEF Idle
<1>12. proc'[p] = n
  BY <1>6, <1>7
<1>13. ASSUME NEW q \in busy
       PROVE  /\ proc'[q] # Idle /\ Stays(proc'[q], proc[q])
              /\ proc'[q].alone <=> proc[q].alone /\ ~Disturbs(op, k, proc[q])
              /\ proc'[q].kept <=> proc[q].kept /\ ~Undoes(op, k, proc[q])
  <2>1. PICK d, x, y : /\ d = proc[q]
                       /\ x = (d.alone /\ ~Disturbs(op, k, d))
                       /\ y = (d.kept /\ ~Undoes(op, k, d))
    OBVIOUS
  <2>2. q \in Procs /\ q # p /\ d # Idle
    BY <1>6, <1>13, <2>1
  <2>3. d.pc # "idle" /\ d \in CallType
    BY <2>1, <2>2, NotIdle, CallFields
  <2>4. proc'[q] = seen(d)
    BY <1>6, <1>13, <2>1, <2>2
  <2>5. seen(d) = [d EXCEPT !.alone = x, !.kept = y]
    BY <2>1, <2>3 DEF CallType
  <2> HIDE DEF seen
  <2>6. PICK e : e = [d EXCEPT !.alone = x, !.kept = y]
    OBVIOUS
  <2>7. e.alone = x /\ e.kept = y /\ e.pc = d.pc /\ Stays(e, d)
    BY <2>3, <2>6 DEF CallType, Stays
  <2>8. e # Idle
    BY <2>3, <2>7 DEF Idle
  <2> QED BY <2>1, <2>4, <2>5, <2>6, <2>7, <2>8
<1>14. \A q \in Procs : q # p /\ proc[q] = Idle => proc'[q] = Idle
  BY <1>6
<1>15. \A j \in Keys : acked'[j] = IF Removes(op, k, j) THEN Unknown ELSE acked[j]
  BY <1>6
<1>16. UNCHANGED <<program, dirs, file, data, last>>
  BY <1>6 DEF fsys
<1>17. l \in {"statDirect", "openDirect"} /\ (l = "statDirect" => op # "iGet")
  OBVIOUS
<1>18. /\ n.alone <=> \A q \in busy : ~Disturbs(proc[q].op, proc[q].key, n)
       /\ n.kept <=> \A q \in busy : ~Undoes(proc[q].op, proc[q].key, n)
  <2> HIDE DEF a, b, busy
  <2> QED BY <1>8, <1>9, <1>10
<1> HIDE DEF a, b, l, new, seen, call
<1>19. Begins(p, op, k)
  BY <1>4, <1>5, <1>6, <1>8, <1>11, <1>12, <1>13, <1>14, <1>15, <1>16, <1>17, <1>18 DEF Begins
<1> QED BY <1>19

LEMMA BeginsFacts ==
  ASSUME NEW p \in Procs, NEW op, NEW k, Begins(p, op, k)
  PROVE  /\ op \in Ops /\ k \in Keys /\ proc[p] = Idle /\ proc'[p] # Idle
         /\ proc'[p].op = op /\ proc'[p].key = k
         /\ op = "iPut" => p \in Users(k, "iPut")
         /\ \A q \in Procs : q # p /\ proc'[q] # Idle =>
              /\ proc[q] # Idle /\ Stays(proc'[q], proc[q])
              /\ proc'[q].alone <=> proc[q].alone /\ ~Disturbs(op, k, proc[q])
              /\ proc'[q].kept <=> proc[q].kept /\ ~Undoes(op, k, proc[q])
         /\ \A q \in Procs : proc[q] # Idle =>
              /\ proc'[p].alone => ~Disturbs(proc[q].op, proc[q].key, proc'[p])
              /\ proc'[p].kept => ~Undoes(proc[q].op, proc[q].key, proc'[p])
              /\ q # p /\ proc'[q] # Idle
         /\ (\A q \in Procs : proc[q] # Idle => ~Disturbs(proc[q].op, proc[q].key, proc'[p]))
              => proc'[p].alone
         /\ (\A q \in Procs : proc[q] # Idle => ~Undoes(proc[q].op, proc[q].key, proc'[p]))
              => proc'[p].kept
         /\ \A j \in Keys : acked'[j] = IF Removes(op, k, j) THEN Unknown ELSE acked[j]
         /\ UNCHANGED <<program, dirs, file, data, last>>
BY DEF Begins

LEMMA StartPromises ==
  ASSUME Typed, Promises, NEW p \in Procs, NEW op, NEW k, Begins(p, op, k)
  PROVE  Promises'
<1>1. Heard /\ Removed /\ AllKept /\ SoleAlone
  BY DEF Promises
<1>2. /\ op \in Ops /\ k \in Keys /\ proc[p] = Idle /\ proc'[p] # Idle
      /\ proc'[p].op = op /\ proc'[p].key = k
      /\ op = "iPut" => p \in Users(k, "iPut")
      /\ UNCHANGED program
  BY BeginsFacts
<1>3. \A q \in Procs : q # p /\ proc'[q] # Idle =>
        /\ proc[q] # Idle /\ Stays(proc'[q], proc[q])
        /\ proc'[q].alone <=> proc[q].alone /\ ~Disturbs(op, k, proc[q])
        /\ proc'[q].kept <=> proc[q].kept /\ ~Undoes(op, k, proc[q])
  BY BeginsFacts
<1>4. \A q \in Procs : proc[q] # Idle =>
        /\ proc'[p].alone => ~Disturbs(proc[q].op, proc[q].key, proc'[p])
        /\ proc'[p].kept => ~Undoes(proc[q].op, proc[q].key, proc'[p])
        /\ q # p /\ proc'[q] # Idle
  BY BeginsFacts
<1>5. \A j \in Keys : acked'[j] = IF Removes(op, k, j) THEN Unknown ELSE acked[j]
  BY BeginsFacts
<1>6. /\ Unknown \notin Values /\ Unknown # NoValue /\ Unknown # Several
  BY MarksAssumption
<1>7. Heard'
  <2> SUFFICES ASSUME NEW q \in Procs, NEW r \in Procs, q # r, proc'[q] # Idle, proc'[r] # Idle
               PROVE  /\ proc'[q].alone => ~Disturbs(proc'[r].op, proc'[r].key, proc'[q])
                      /\ proc'[q].kept => ~Undoes(proc'[r].op, proc'[r].key, proc'[q])
    BY DEF Heard, Idle, Disturbs, Undoes, Changes, Removes
  <2>1. CASE r = p
    <3>1. q # p
      BY <2>1
    <3>2. /\ Stays(proc'[q], proc[q])
          /\ proc'[q].alone => ~Disturbs(op, k, proc[q])
          /\ proc'[q].kept => ~Undoes(op, k, proc[q])
      BY <1>3, <3>1
    <3> QED BY <1>2, <2>1, <3>2 DEF Stays, Disturbs, Undoes
  <2>2. CASE q = p
    <3>1. r # p
      BY <2>2
    <3>2. proc[r] # Idle /\ Stays(proc'[r], proc[r])
      BY <1>3, <3>1
    <3>3. /\ proc'[p].alone => ~Disturbs(proc[r].op, proc[r].key, proc'[p])
          /\ proc'[p].kept => ~Undoes(proc[r].op, proc[r].key, proc'[p])
      BY <1>4, <3>2
    <3> QED BY <2>2, <3>2, <3>3 DEF Stays
  <2>3. CASE q # p /\ r # p
    <3>1. /\ proc[q] # Idle /\ Stays(proc'[q], proc[q])
          /\ proc'[q].alone => proc[q].alone
          /\ proc'[q].kept => proc[q].kept
      BY <1>3, <2>3
    <3>2. proc[r] # Idle /\ Stays(proc'[r], proc[r])
      BY <1>3, <2>3
    <3>3. /\ proc[q].alone => ~Disturbs(proc[r].op, proc[r].key, proc[q])
          /\ proc[q].kept => ~Undoes(proc[r].op, proc[r].key, proc[q])
      BY <1>1, <3>1, <3>2 DEF Heard
    <3> QED BY <3>1, <3>2, <3>3 DEF Stays, Disturbs, Undoes
  <2> QED BY <2>1, <2>2, <2>3
<1>8. Removed'
  <2> SUFFICES ASSUME NEW j \in Keys, NEW q \in Procs, Removing(q, j)' PROVE acked'[j] = Unknown
    BY DEF Removed
  <2>1. proc'[q] # Idle /\ Removes(proc'[q].op, proc'[q].key, j)
    BY DEF Removing, Idle, Removes
  <2>2. CASE q = p
    BY <1>2, <1>5, <2>1, <2>2
  <2>3. CASE q # p
    <3>1. Removing(q, j)
      BY <1>3, <2>1, <2>3 DEF Removing, Stays
    <3> QED BY <1>1, <1>5, <3>1 DEF Removed
  <2> QED BY <2>2, <2>3
<1>9. AllKept'
  <2> SUFFICES ASSUME NEW j \in Keys, NEW q \in Procs,
                      acked'[j] \in Values \cup {NoValue}, Putting(q, j)'
               PROVE  proc'[q].kept
    BY DEF AllKept
  <2>1. acked'[j] = acked[j] /\ ~Removes(op, k, j)
    BY <1>5, <1>6
  <2>2. proc'[q] # Idle /\ proc'[q].op = "iPut" /\ proc'[q].key = j
    BY DEF Putting, Idle
  <2>3. CASE q = p
    <3>1. ASSUME NEW r \in Procs, proc[r] # Idle PROVE ~Undoes(proc[r].op, proc[r].key, proc'[p])
      <4>1. SUFFICES ASSUME Undoes(proc[r].op, proc[r].key, proc'[p]) PROVE FALSE
        OBVIOUS
      <4>2. Removing(r, j)
        BY <2>2, <2>3, <3>1, <4>1 DEF Undoes, Removing
      <4>3. acked[j] = Unknown
        BY <1>1, <4>2 DEF Removed
      <4> QED BY <1>6, <2>1, <4>3
    <3> QED BY <2>3, <3>1, BeginsFacts
  <2>4. CASE q # p
    <3>1. /\ proc[q] # Idle /\ Stays(proc'[q], proc[q])
          /\ proc'[q].kept <=> proc[q].kept /\ ~Undoes(op, k, proc[q])
      BY <1>3, <2>2, <2>4
    <3>2. Putting(q, j)
      BY <2>2, <3>1 DEF Putting, Stays
    <3>3. proc[q].kept
      BY <1>1, <2>1, <3>2 DEF AllKept
    <3>4. ~Undoes(op, k, proc[q])
      BY <2>1, <3>2 DEF Undoes, Putting
    <3> QED BY <3>1, <3>3, <3>4
  <2> QED BY <2>3, <2>4
<1>10. SoleAlone'
  <2> SUFFICES ASSUME NEW j \in Keys, NEW q \in Procs, Users(j, "iPut")' = {q}
               PROVE  /\ acked'[j] # Several
                      /\ Putting(q, j)' /\ proc'[q].kept => proc'[q].alone
    BY DEF SoleAlone
  <2>1. Users(j, "iPut") = {q}
    BY <1>2 DEF Users
  <2>2. acked[j] # Several /\ (Putting(q, j) /\ proc[q].kept => proc[q].alone)
    BY <1>1, <2>1 DEF SoleAlone
  <2>3. acked'[j] # Several
    BY <1>5, <1>6, <2>2
  <2>4. ASSUME Putting(q, j)', proc'[q].kept PROVE proc'[q].alone
    <3>1. proc'[q] # Idle /\ proc'[q].op = "iPut" /\ proc'[q].key = j
      BY <2>4 DEF Putting, Idle
    <3>2. CASE q = p
      <4>1. ASSUME NEW r \in Procs, proc[r] # Idle
            PROVE  ~Disturbs(proc[r].op, proc[r].key, proc'[p])
        <5>1. SUFFICES ASSUME Disturbs(proc[r].op, proc[r].key, proc'[p]) PROVE FALSE
          OBVIOUS
        <5>2. ~Undoes(proc[r].op, proc[r].key, proc'[p]) /\ r # p
          BY <1>4, <2>4, <3>2, <4>1
        <5>3. proc[r].op = "iPut" /\ proc[r].key = j
          BY <3>1, <3>2, <5>1, <5>2 DEF Disturbs, Changes, Undoes
        <5>4. proc[r].pc # "idle"
          BY <4>1, NotIdle
        <5>5. r \in Users(j, "iPut")
          BY <5>3, <5>4, CallFields
        <5> QED BY <2>1, <3>2, <5>2, <5>5
      <4> QED BY <3>2, <4>1, BeginsFacts
    <3>3. CASE q # p
      <4>1. /\ proc[q] # Idle /\ Stays(proc'[q], proc[q])
            /\ proc'[q].alone <=> proc[q].alone /\ ~Disturbs(op, k, proc[q])
            /\ proc'[q].kept <=> proc[q].kept /\ ~Undoes(op, k, proc[q])
        BY <1>3, <3>1, <3>3
      <4>2. Putting(q, j) /\ proc[q].kept /\ ~Undoes(op, k, proc[q])
        BY <2>4, <3>1, <4>1 DEF Putting, Stays
      <4>3. proc[q].alone
        BY <2>2, <4>2
      <4>4. ~Disturbs(op, k, proc[q])
        <5>1. SUFFICES ASSUME Disturbs(op, k, proc[q]) PROVE FALSE
          OBVIOUS
        <5>2. op = "iPut" /\ k = j
          BY <4>2, <5>1 DEF Disturbs, Changes, Undoes, Putting
        <5> QED BY <1>2, <2>1, <3>3, <5>2
      <4> QED BY <4>1, <4>3, <4>4
    <3> QED BY <3>2, <3>3
  <2> QED BY <2>3, <2>4
<1> QED BY <1>7, <1>8, <1>9, <1>10 DEF Promises

LEMMA StartKnown ==
  ASSUME Typed, Known, NEW p \in Procs, NEW op, NEW k, Begins(p, op, k)
  PROVE  Known'
<1>1. ProperDirs /\ CallsKnow /\ KeysKnown
  BY DEF Known
<1>2. /\ op \in Ops /\ k \in Keys /\ proc[p] = Idle /\ proc'[p] # Idle
      /\ proc'[p].op = op /\ proc'[p].key = k
      /\ UNCHANGED <<program, dirs, file, data, last>>
  BY BeginsFacts
<1>3. \A q \in Procs : q # p /\ proc'[q] # Idle =>
        /\ proc[q] # Idle /\ Stays(proc'[q], proc[q])
        /\ proc'[q].alone => proc[q].alone /\ ~Disturbs(op, k, proc[q])
        /\ proc'[q].kept => proc[q].kept /\ ~Undoes(op, k, proc[q])
  BY BeginsFacts
<1>4. \A j \in Keys : acked'[j] = IF Removes(op, k, j) THEN Unknown ELSE acked[j]
  BY BeginsFacts
<1>5. ProperDirs'
  BY <1>1, <1>2 DEF ProperDirs
<1>6. CallKnows(p)'
  <2>0. PICK n : n = proc'[p]
    OBVIOUS
  <2>1. /\ n.op = op /\ n.key = k /\ n.pc \in {"statDirect", "openDirect"}
        /\ n.pc = "statDirect" => op # "iGet"
        /\ n.made = 0 /\ n.todo = <<>>
        /\ op \in {"iGet", "iKeyDelete"} => n.was = acked[k]
    BY <2>0 DEF Begins
  <2>2. Shape(n)
    BY <2>1 DEF Shape, Wiping, Choosing
  <2>3. CASE op = "iPut"
    <3>1. PutKnows(n)'
      BY <2>1 DEF PutKnows, Choosing, Making
    <3>2. Way(p)'
      BY <2>0, <2>1 DEF Way
    <3> QED BY <2>0, <2>1, <2>2, <2>3, <3>1, <3>2, KnowsAsPut
  <2>4. CASE op = "iGet"
    <3>1. acked'[k] = acked[k]
      BY <1>2, <1>4, <2>4 DEF Removes
    <3>2. GetKnows(n)'
      BY <2>1, <2>4, <3>1 DEF GetKnows, Looking, Reading
    <3> QED BY <2>0, <2>1, <2>2, <2>4, <3>2, KnowsAsGet
  <2>5. CASE op \in {"iDelete", "iKeyDelete"}
    <3>1. ASSUME op = "iKeyDelete", n.was \in Values \cup {Several}
          PROVE  \E i \in Depths(k) : Spot(k, i) \in dirs
      <4>1. acked[k] \in Values \cup {Several}
        BY <2>1, <3>1
      <4>2. PICK i \in Depths(k) : Spot(k, i) \in DOMAIN file
        BY <1>1, <1>2, <4>1 DEF KeysKnown, KeyKnows
      <4> QED BY <4>2 DEF Typed, FilesOK
    <3>2. op = "iKeyDelete" /\ n.was \in Values \cup {Several} =>
            \E i \in Depths(k)' : Spot(k, i)' \in dirs'
      BY <1>2, <3>1 DEF Depths, Spot
    <3>3. DeleteKnows(n)'
      BY <2>1, <3>2 DEF DeleteKnows, Looking, Wiping
    <3> QED BY <2>0, <2>1, <2>2, <2>5, <3>3, KnowsAsDelete
  <2> QED BY <1>2, <2>3, <2>4, <2>5 DEF Ops
<1>7. ASSUME NEW q \in Procs, q # p PROVE CallKnows(q)'
  <2>1. SUFFICES ASSUME proc'[q] # Idle PROVE CallKnows(q)'
    BY KnowsIdle
  <2>2. PICK c, x : c = proc[q] /\ x = proc'[q]
    OBVIOUS
  <2>3. /\ c # Idle /\ Stays(x, c)
        /\ x.alone => c.alone /\ ~Disturbs(op, k, c)
        /\ x.kept => c.kept
    BY <1>3, <1>7, <2>1, <2>2
  <2>4. Shape(c) /\ Way(q) /\ PutKnows(c) /\ GetKnows(c) /\ DeleteKnows(c)
    BY <1>1, <2>2, <2>3 DEF CallsKnow, CallKnows
  <2>5. c.key \in Keys /\ c.op \in Ops
    <3>1. proc[q].pc # "idle"
      BY <2>2, <2>3, NotIdle
    <3> QED BY <2>2, <3>1, CallFields
  <2>6. Shape(x)
    BY <2>3, <2>4 DEF Shape, Stays
  <2>7. CASE c.op = "iPut"
    <3>1. Way(q)'
      <4>1. Target(q)' = Target(q)
        BY <2>2, <2>3 DEF Target, LevelOf, Stays
      <4>2. \A d : Up(d)' = Up(d)
        BY DEF Up
      <4>3. SUFFICES ASSUME x.kept PROVE Way(q)'
        BY <2>2 DEF Way
      <4>4. /\ x.pc = "mkdir" => Up(Target(q)) \in dirs \cup {Root}
            /\ x.pc = "openWrite" => x.place \in dirs
            /\ x.pc = "write" => x.place \in DOMAIN file /\ file[x.place] = x.fd
        BY <2>2, <2>3, <2>4, <2>7, <4>3 DEF Way, Stays
      <4> QED BY <1>2, <2>2, <4>1, <4>2, <4>4 DEF Way
    <3>2. PutKnows(x)'
      <4>1. PutKnows(x)
        BY <2>3, <2>4 DEF PutKnows, Stays
      <4> QED BY <1>2, <4>1 DEF PutKnows, Passed, Spot
    <3> QED BY <2>2, <2>3, <2>6, <2>7, <3>1, <3>2, KnowsAsPut DEF Stays
  <2>8. CASE c.op = "iGet"
    <3>1. GetKnows(x)
      BY <2>3, <2>4 DEF GetKnows, Stays
    <3>2. x.alone => acked'[x.key] = acked[x.key]
      <4>1. x.alone => ~Removes(op, k, c.key)
        BY <2>3, <2>8 DEF Disturbs, Changes
      <4> QED BY <1>4, <2>3, <2>5, <4>1 DEF Stays
    <3>3. GetKnows(x)'
      BY <1>2, <3>1, <3>2 DEF GetKnows, Passed, Spot
    <3> QED BY <2>2, <2>3, <2>6, <2>8, <3>3, KnowsAsGet DEF Stays
  <2>9. CASE c.op \in {"iDelete", "iKeyDelete"}
    <3>1. DeleteKnows(x)
      <4>1. Job(x) = Job(c)
        BY <2>3 DEF Job, Stays
      <4> QED BY <2>3, <2>4, <4>1 DEF DeleteKnows, Stays
    <3>2. DeleteKnows(x)'
      BY <1>2, <3>1, DeleteKnowsStays
    <3> QED BY <2>2, <2>3, <2>6, <2>9, <3>2, KnowsAsDelete DEF Stays
  <2> QED BY <2>5, <2>7, <2>8, <2>9 DEF Ops
<1>8. ASSUME NEW j \in Keys PROVE KeyKnows(j)'
  <2>1. CASE acked'[j] = Unknown
    BY <2>1, UnknownKey
  <2>2. CASE acked'[j] # Unknown
    <3>1. acked'[j] = acked[j] /\ KeyKnows(j)
      BY <1>1, <1>4, <2>2 DEF KeysKnown
    <3>2. ASSUME NEW q \in Procs, Putting(q, j) PROVE Putting(q, j)' /\ proc'[q].pc = proc[q].pc
      <4>1. q # p /\ proc[q] # Idle
        BY <1>2, <3>2 DEF Putting
      <4>2. proc'[q] # Idle /\ Stays(proc'[q], proc[q])
        BY <4>1 DEF Begins
      <4> QED BY <3>2, <4>2 DEF Putting, Stays
    <3>3. ASSUME acked'[j] \in Values,
                 \A q \in Procs : Putting(q, j)' => proc'[q].pc \notin {"mkdir", "openWrite", "write"}
          PROVE  Written(j, acked[j])'
      <4>1. Written(j, acked[j])
        BY <3>1, <3>2, <3>3 DEF KeyKnows
      <4> QED BY <1>2, <3>1, <4>1 DEF Written, WrittenAt, Passed, Depths, Spot
    <3>4. ASSUME acked'[j] = NoValue, \A q \in Procs : Putting(q, j)' => proc'[q].pc # "write"
          PROVE  Unwritten(j)'
      <4>1. Unwritten(j)
        BY <3>1, <3>2, <3>4 DEF KeyKnows
      <4> QED BY <1>2, <4>1 DEF Unwritten, Depths, Spot
    <3>5. acked'[j] \in Values \cup {Several} => \E i \in Depths(j)' : Spot(j, i)' \in DOMAIN file'
      <4>1. acked[j] \in Values \cup {Several} => \E i \in Depths(j) : Spot(j, i) \in DOMAIN file
        BY <3>1 DEF KeyKnows
      <4> QED BY <1>2, <3>1, <4>1 DEF Depths, Spot
    <3> QED BY <3>3, <3>4, <3>5 DEF KeyKnows
  <2> QED BY <2>1, <2>2
<1>9. CallsKnow'
  BY <1>6, <1>7 DEF CallsKnow
<1>10. KeysKnown'
  BY <1>8 DEF KeysKnown
<1> QED BY <1>5, <1>9, <1>10 DEF Known

----------------------------------------------------------------------------
(* The invariant holds from the start and through every step.              *)

LEMMA WholeFirst == Init => Whole
<1> SUFFICES ASSUME Init PROVE Whole
  OBVIOUS
<1>1. Provenanced
  BY TypedInit, ProvenanceInit DEF Provenanced
<1>2. /\ \A p \in Procs : proc[p] = Idle
      /\ \A k \in Keys : acked[k] = NoValue
      /\ dirs = {} /\ DOMAIN file = {}
  BY DEF Init
<1>3. NoValue \notin Values \cup {Several, Unknown}
  BY MarksAssumption
<1>4. Promises
  BY <1>2, <1>3 DEF Promises, Heard, Removed, AllKept, SoleAlone, Removing, Putting
<1>5. CallsKnow /\ ProperDirs
  BY <1>2 DEF CallsKnow, CallKnows, ProperDirs
<1>6. KeysKnown
  BY <1>2, <1>3 DEF KeysKnown, KeyKnows, Unwritten
<1> QED BY <1>1, <1>4, <1>5, <1>6 DEF Whole, Known

LEMMA WholeStays ==
  ASSUME Typed, Promises, Known, UNCHANGED vars
  PROVE  Promises' /\ Known'
<1>1. UNCHANGED <<program, dirs, file, data, proc, acked>>
  BY DEF vars, fsys, history
<1>2. Promises'
  <2>1. Heard' /\ Removed' /\ AllKept'
    BY <1>1 DEF Promises, Heard, Removed, AllKept, Removing, Putting
  <2>2. SoleAlone'
    BY <1>1 DEF Promises, SoleAlone, Putting, Users
  <2> QED BY <2>1, <2>2 DEF Promises
<1>3. CallsKnow'
  <2> SUFFICES ASSUME NEW p \in Procs PROVE CallKnows(p)'
    BY DEF CallsKnow
  <2>1. CASE proc'[p] = Idle
    BY <2>1 DEF CallKnows
  <2>2. CASE proc'[p] # Idle
    <3>0. PICK x : x = proc[p]
      OBVIOUS
    <3>1. /\ proc'[p] = x /\ x # Idle /\ x.op \in Ops
          /\ Shape(x) /\ Way(p) /\ PutKnows(x) /\ GetKnows(x) /\ DeleteKnows(x)
      BY <1>1, <2>2, <3>0 DEF Known, CallsKnow, CallKnows, Typed, ProcsOK, CallOK, CallType
    <3>2. Way(p)'
      BY <1>1, <3>1 DEF Way, Target, LevelOf
    <3>3. PutKnows(x)' /\ GetKnows(x)'
      BY <1>1, <3>1 DEF PutKnows, GetKnows, Passed, Spot
    <3>4. DeleteKnows(x)'
      BY <1>1, <3>1, DeleteKnowsStays
    <3> QED BY <3>1, <3>2, <3>3, <3>4, KnowsAsPut, KnowsAsGet, KnowsAsDelete DEF Ops
  <2> QED BY <2>1, <2>2
<1>4. KeysKnown' /\ ProperDirs'
  BY <1>1 DEF Known, KeysKnown, KeyKnows, Written, WrittenAt, Unwritten, Passed, Depths, Spot,
              Putting, ProperDirs
<1> QED BY <1>2, <1>3, <1>4 DEF Known

LEMMA WholeSteps == Whole /\ [Next]_vars => Whole'
<1> SUFFICES ASSUME Whole, [Next]_vars PROVE Whole'
  OBVIOUS
<1>0. Provenanced /\ Promises /\ Known /\ Typed
  BY DEF Whole, Provenanced
<1>1. Provenanced'
  BY <1>0, ProvenanceNext
<1>2. CASE UNCHANGED vars
  BY <1>0, <1>1, <1>2, WholeStays DEF Whole
<1>3. ASSUME NEW p \in Procs, Start(p) PROVE Promises' /\ Known'
  <2>1. PICK op, k : Begins(p, op, k)
    BY <1>0, <1>3, StartBegins
  <2> QED BY <1>0, <2>1, StartPromises, StartKnown
<1>4. ASSUME NEW p \in Procs, Step(p) PROVE Promises' /\ Known'
  <2>1. Known'
    BY <1>0, <1>4, StepKnown
  <2>2. Moved(p) /\ \A k \in Keys : acked'[k] # acked[k] => proc'[p] = Idle
    BY <1>0, <1>4, StepMoves, StepAcks
  <2> QED BY <1>0, <2>1, <2>2, MovedPromises
<1>5. ASSUME NEW p \in Procs, Crash(p) PROVE Promises' /\ Known'
  <2>1. Known'
    BY <1>0, <1>5, CrashKnown
  <2>2. Moved(p) /\ proc'[p] = Idle
    BY <1>0, <1>5, CrashMoves
  <2> QED BY <1>0, <2>1, <2>2, MovedPromises
<1> QED BY <1>1, <1>2, <1>3, <1>4, <1>5 DEF Whole, Next

LEMMA WholeAlways == Spec => []Whole
BY WholeFirst, WholeSteps, PTL DEF Spec

----------------------------------------------------------------------------
(* What the calls answer.                                                  *)

LEMMA QuietAnswersNext ==
  Whole /\ QuietGets /\ QuietDeletes /\ [Next]_vars => QuietGets' /\ QuietDeletes'
<1> SUFFICES ASSUME Whole, QuietGets, QuietDeletes, [Next]_vars
             PROVE  QuietGets' /\ QuietDeletes'
  OBVIOUS
<1>1. Provenanced /\ Promises /\ Known /\ Typed
  BY DEF Whole, Provenanced
<1>2. CASE UNCHANGED last
  BY <1>2 DEF QuietGets, QuietDeletes
<1>3. ASSUME NEW p \in Procs, Start(p) PROVE UNCHANGED last
  <2>1. PICK op, k : Begins(p, op, k)
    BY <1>1, <1>3, StartBegins
  <2> QED BY <2>1 DEF Begins
<1>4. ASSUME NEW p \in Procs, Step(p) PROVE QuietGets' /\ QuietDeletes'
  <2>1. Answers(p)
    BY <1>1, <1>4, StepKnown
  <2>2. CASE ~UNCHANGED last
    BY <2>1, <2>2 DEF Answers, QuietGets, QuietDeletes
  <2> QED BY <1>2, <2>2
<1>5. ASSUME NEW p \in Procs, Crash(p) PROVE UNCHANGED last
  BY <1>5 DEF Crash
<1>6. UNCHANGED vars => UNCHANGED last
  BY DEF vars
<1> QED BY <1>2, <1>3, <1>4, <1>5, <1>6 DEF Next

LEMMA QuietAnswersAlways == Spec => [](QuietGets /\ QuietDeletes)
<1>1. Init => QuietGets /\ QuietDeletes
  BY DEF Init, QuietGets, QuietDeletes
<1> QED BY <1>1, WholeAlways, QuietAnswersNext, PTL DEF Spec

(* A get that no put or delete of its key overlaps returns what the last   *)
(* completed put of it wrote, or NULL if there was none, whatever other    *)
(* calls of iPut, iDelete and iKeyDelete do in the meantime to the         *)
(* directories that iIsKeyDirExists walks through: levels that fill,       *)
(* neighbours that come and go, subkeys made and removed, calls cut off.   *)
THEOREM UndisturbedGetsAnswer == Spec => []QuietGets
BY QuietAnswersAlways, PTL

(* DeleteDir of a key that has a value, with nobody writing or deleting    *)
(* the key or anything below it at the same time, never meets an entry     *)
(* that is gone or a directory that has something in it again: iKeyDelete  *)
(* succeeds.                                                               *)
THEOREM UndisturbedDeletesSucceed == Spec => []QuietDeletes
BY QuietAnswersAlways, PTL

----------------------------------------------------------------------------
(* What stays of a put that has succeeded.                                 *)

\* A lookup comes to a value with no directory of its key on the way.
LEMMA SpotReadable ==
  ASSUME Typed, NEW k \in Keys, NEW i \in Depths(k), Spot(k, i) \in DOMAIN file,
         \A j \in 1..(i - 1) : Spot(k, j) \notin dirs
  PROVE  Readable(k)
<1> DEFINE T == dirs \cup {Root}
           P == Front(k)
           l == Last(k)
<1>1. /\ i \in Nat /\ i < Len(l) /\ Len(l) \in Nat \ {0} /\ l \in Names /\ k # <<>>
  BY SpotFacts, KeyParts
<1>2. CASE i = 0
  <2>1. Plain(k) = Spot(k, i)
    BY <1>1, <1>2 DEF Plain, Spot
  <2> QED BY <2>1 DEF Readable
<1>3. CASE i # 0
  <2>1. Spot(k, i) \in dirs
    BY DEF Typed, FilesOK
  <2>2. \A n \in 1..i : Level(P, l, n) \in T
    BY <2>1, LevelsOfSpot DEF Typed
  <2>3. i \in 1..i /\ i \in 1..Len(l) /\ \A j \in 1..(i - 1) : j \in 1..i /\ j \in Depths(k)
    BY <1>1, <1>3 DEF Depths
  <2>4. \A j \in Depths(k) : Spot(k, j) # Root
    BY SpotFacts DEF Root
  <2>5. i \in LookupEnds(T, P, l)
    BY <2>1, <2>3 DEF LookupEnds, Spot
  <2>6. ASSUME NEW j \in 1..(i - 1) PROVE j \notin LookupEnds(T, P, l)
    <3>1. Level(P, l, j) \in T /\ Spot(k, j) \notin T
      BY <2>2, <2>3, <2>4
    <3> QED BY <3>1 DEF LookupEnds, Spot
  <2>7. iIsKeyDirExists(T, P, l) = Spot(k, i)
    <3> HIDE DEF T, P, l
    <3>1. iIsKeyDirExists(T, P, l) = IF Level(P, l, i) \in T THEN Place(P, l, i) ELSE NoDir
      BY <1>1, <2>5, <2>6, LookupAt
    <3> QED BY <2>2, <2>3, <3>1 DEF Spot, P, l
  <2> QED BY <2>7 DEF Readable
<1> QED BY <1>2, <1>3

(* Once a put has succeeded the key has a value for every later get until  *)
(* somebody deletes it, also while others put the same key: for names of   *)
(* at most two characters, which have one partition level at most, and     *)
(* between two puts of the only writer of a longer name.                   *)
THEOREM AckedStays == Spec => []AckedStaysReadable
<1>1. Whole => AckedStaysReadable
  <2> SUFFICES ASSUME Whole, NEW k \in Keys, Acked(k) PROVE
         \/ Len(Last(k)) <= 2
         \/ \E p \in Procs : Users(k, "iPut") = {p} /\ proc[p] = Idle
         => Readable(k)
    BY DEF AckedStaysReadable
  <2>1. Typed /\ SoleAlone /\ KeyKnows(k)
    BY DEF Whole, Provenanced, Promises, Known, KeysKnown
  <2>2. CASE Len(Last(k)) <= 2
    <3>1. PICK i \in Depths(k) : Spot(k, i) \in DOMAIN file
      BY <2>1 DEF KeyKnows, Acked
    <3>2. \A j \in 1..(i - 1) : FALSE
      BY <2>2, KeyParts DEF Depths
    <3> QED BY <2>1, <3>1, <3>2, SpotReadable
  <2>3. ASSUME NEW p \in Procs, Users(k, "iPut") = {p}, proc[p] = Idle PROVE Readable(k)
    <3>1. acked[k] \in Values
      BY <2>1, <2>3 DEF SoleAlone, Acked
    <3>2. ~\E q \in Procs : Putting(q, k)
      BY <2>1, <2>3 DEF Putting, Typed, ProcsOK, CallOK, FitsProgram
    <3>3. PICK i \in Depths(k) : WrittenAt(k, i, acked[k])
      BY <2>1, <3>1, <3>2 DEF KeyKnows, Written
    <3> QED BY <2>1, <3>3, SpotReadable DEF WrittenAt, Passed
  <2> QED BY <2>2, <2>3
<1> QED BY <1>1, WholeAlways, PTL
=============================================================================
