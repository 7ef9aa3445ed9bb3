----------------------------- MODULE SubkeyList -----------------------------
(***************************************************************************)
(* Listing and counting the subkeys of a key: iSubkeyWalk, iSubkeys and    *)
(* iSubkeyTotal of src/src/idb_helpers.c, over WalkDir of                  *)
(* src/src/isdk_utils.c.  A walk goes through the keys of a directory      *)
(* first and then, level by level, through its partitions.  It runs on the *)
(* directories that the puts and key deletes of KeyStore leave behind.     *)
(***************************************************************************)
EXTENDS KeyStore

CONSTANTS
  NoPattern,     \* the pattern NULL
  NoList,        \* iSubkeys' NULL
  Calls,         \* the arguments of the walks: [pat, skip, count]
  DupProcesses,  \* the settings of IDBDuplicationKeyProcess
  Orders,        \* the orders in which readdir returns entries: see Entries
  SizeBits       \* bound: the width of size_t, wider than any listing

\* A pattern is a name, or the beginning of one and a star.
ASSUME CallsAssumption ==
  \A c \in Calls : /\ c.skip \in Nat /\ c.count \in Nat
                   /\ c.pat # NoPattern =>
                        \A i \in 1..(Len(c.pat) - 1) : c.pat[i] \in Char
ASSUME DupAssumption  == DupProcesses \subseteq TIDBProcesses
ASSUME SizeAssumption == SizeBits \in Nat

VARIABLE IDBDuplicationKeyProcess  \* global option

listVars == <<vars, IDBDuplicationKeyProcess>>

Parents == {Front(K) : K \in Keys}

\* fnmatch
Matches(pat, k) ==
  \/ pat = NoPattern
  \/ pat # <<>> /\ Last(pat) = "*" /\ IsPrefix(Front(pat), k)
  \/ pat = k

\* The keys and the partition levels in the level p of P, in readdir order.
Entries(T, P, p, ord) ==
  SelectSeq(ord, LAMBDA k : [at |-> P, part |-> p, name |-> k] \in T)
Levels(T, P, p, ord) ==
  SelectSeq(ord, LAMBDA k : Len(k) = 1 /\ Level(P, p \o k, Len(p) + 1) \in T)

----------------------------------------------------------------------------
(* A walk carries                                                          *)
(*   tree  the directories,                                                *)
(*   list  the names listed so far,                                        *)
(*   skip  the matching keys still to skip,                                *)
(*   n     its count, -1 after an error,                                   *)
(*   seen  the partition levels it went through at the present level.      *)
(* Its arguments r are the pattern, the count still wanted (0: all), the   *)
(* way to process duplicates ("count": iSubkeyTotal) and the order.        *)

\* Mutant: one key too many.
EnoughLate(r, n) == r.left > 0 /\ n > r.left

Enough(r, n) == r.left > 0 /\ n >= r.left

\* Mutant: names are listed without their partition characters.
FullNameRest(p, k) == k

FullName(p, k) == p \o k

\* _iSubkeysWalker.  The parameter decides whether a duplicate is one, the
\* global option what becomes of it; dkFixed deletes the directory that is
\* being walked.
Visit(w, P, p, k, r) ==
  IF r.dup = "count" THEN [w EXCEPT !.n = @ + 1]
  ELSE IF r.dup = dkReserved \/ FullName(p, k) \notin ToSet(w.list)
    THEN [w EXCEPT !.n = @ + 1, !.list = Append(@, FullName(p, k))]
  ELSE CASE IDBDuplicationKeyProcess = dkFixed ->
              [w EXCEPT !.tree = DeleteDir(@, Level(P, p, Len(p)))]
         [] IDBDuplicationKeyProcess = dkStopped -> [w EXCEPT !.n = -1]
         [] OTHER -> [w EXCEPT !.n = @ + 1]

\* WalkDir over the keys of a directory.  The entries were read when it was
\* opened, so the loop goes on after the directory is deleted.
WalkKeys(w, P, p, r) ==
  IF Level(P, p, Len(p)) \notin w.tree THEN [w EXCEPT !.n = -1]
  ELSE FoldLeft(
         LAMBDA x, k :
           IF x.n < 0 \/ Enough(r, x.n) \/ ~Matches(r.pat, k) THEN x
           ELSE IF x.skip > 0 THEN [x EXCEPT !.skip = @ - 1]
           ELSE Visit(x, P, p, k, r),
         [w EXCEPT !.n = 0], Entries(w.tree, P, p, r.ord))

\* Mutant: the count of a level replaces that of the keys before it.
AddCountLast(n, m) == IF m < 0 THEN -1 ELSE m

AddCount(n, m) == IF m < 0 THEN -1 ELSE n + m

RECURSIVE Walk(_, _, _, _)

\* WalkDir over the partition levels of a directory.  Each level is walked
\* with a copy of the record: its own skip count, and the whole count left.
WalkLevels(w, P, p, r) ==
  IF Level(P, p, Len(p)) \notin w.tree THEN [w EXCEPT !.n = -1]
  ELSE FoldLeft(
         LAMBDA x, k :
           IF x.n < 0 \/ Enough(r, x.seen) THEN x
           ELSE LET y == Walk([x EXCEPT !.skip = w.skip], P, p \o k, r)
                IN  [y EXCEPT !.n = AddCount(x.n, y.n),
                              !.seen = IF Enough(r, y.n) THEN r.left
                                       ELSE x.seen + 1],
         [w EXCEPT !.seen = 0], Levels(w.tree, P, p, r.ord))

\* _iSubkeyWalk.  What is left of a count of 0, or of a count already
\* reduced, is an unsigned number.  While the pattern begins with a
\* character there is one level to go to, and if it does not exist its -1
\* is added to the count.
Walk(w, P, p, r) ==
  LET x == WalkKeys(w, P, p, r)
      s == [r EXCEPT !.left = (@ - x.n) % 2^SizeBits]
  IN  IF x.n < 0 \/ Enough(r, x.n) THEN x
      ELSE IF r.pat \in {NoPattern, <<>>} \/ Head(r.pat) = "*"
        THEN WalkLevels(x, P, p, s)
      ELSE LET y == Walk(x, P, Append(p, Head(r.pat)), [s EXCEPT !.pat = Tail(@)])
           IN  [y EXCEPT !.n = x.n + @]

iSubkeyWalk(P, c, dup, ord) ==
  Walk([tree |-> Dirs, list |-> <<>>, skip |-> c.skip, n |-> 0, seen |-> 0],
       P, <<>>, [pat |-> c.pat, left |-> c.count, dup |-> dup, ord |-> ord])

----------------------------------------------------------------------------
iSubkeys(P, c, dup, ord) ==
  LET w == iSubkeyWalk(P, c, dup, ord) IN
  /\ fs' = [d \in w.tree |-> fs[d]]
  /\ last' = [op |-> "iSubkeys", key |-> P, call |-> c, dup |-> dup,
              ord |-> ord, ret |-> IF w.n < 0 THEN NoList ELSE w.list]
  /\ UNCHANGED <<options, IDBDuplicationKeyProcess>>

iSubkeyTotal(P, pat, ord) ==
  LET c == [pat |-> pat, skip |-> 0, count |-> 0] IN
  /\ last' = [op |-> "iSubkeyTotal", key |-> P, pat |-> pat,
              ret |-> iSubkeyWalk(P, c, "count", ord).n]
  /\ UNCHANGED <<fs, options, IDBDuplicationKeyProcess>>

SetDuplication(p) ==
  /\ p # IDBDuplicationKeyProcess
  /\ IDBDuplicationKeyProcess' = p
  /\ last' = [op |-> "SetOptions"]
  /\ UNCHANGED <<fs, options>>

ListInit == Init /\ IDBDuplicationKeyProcess \in DupProcesses

\* The calls that make and remove directories, and the listings.
ListNext ==
  \/ (Put \/ KeyDel \/ Options) /\ UNCHANGED IDBDuplicationKeyProcess
  \/ \E P \in Parents, ord \in Orders, c \in Calls :
       \/ \E dup \in TIDBProcesses : iSubkeys(P, c, dup, ord)
       \/ iSubkeyTotal(P, c.pat, ord)
  \/ \E p \in DupProcesses : SetDuplication(p)

ListSpec == ListInit /\ [][ListNext]_listVars

----------------------------------------------------------------------------
(* Properties.                                                             *)

Listed(c) == c.skip = 0 /\ c.count = 0

\* The directories of keys right below P, copies of one key included.
Copies(P) == {d \in Dirs : d.at = P /\ d.name # <<>>}

\* A listing of everything agrees with the lookups, which walk the levels by
\* a name instead of by what is there: when duplicates are let pass, the
\* keys listed are those that exist and match, whatever levels they are in,
\* and with dkIgnored each is listed once.
ListAgreesWithLookup ==
  [][LET c == last'.call IN
     ( /\ last'.op = "iSubkeys" /\ Listed(c) /\ last'.ret # NoList
       /\ IDBDuplicationKeyProcess = dkIgnored \/ last'.dup = dkReserved ) =>
       /\ ToSet(last'.ret) =
            {Last(K) : K \in {J \in Keys : /\ Front(J) = last'.key
                                           /\ iKeyIsExists(J)
                                           /\ Matches(c.pat, Last(J))}}
       /\ last'.dup # dkReserved =>
            Len(last'.ret) = Cardinality(ToSet(last'.ret))]_listVars

\* Without partition levels the pages of a listing are consecutive slices of
\* it: no key is on two pages and none is left out between them.
PagesAreSlices ==
  [][LET c   == last'.call
         all == Entries(Dirs, last'.key, <<>>, last'.ord)
     IN ( /\ last'.op = "iSubkeys" /\ c.pat = NoPattern
          /\ Plain(last'.key) \in Dirs
          /\ \A d \in Dirs : d.at = last'.key => d.part = <<>> )
        => last'.ret = SubSeq(all, c.skip + 1,
                              IF c.count = 0 THEN Len(all)
                              ELSE Min({c.skip + c.count, Len(all)}))]_listVars

\* With dkStopped a listing of everything fails exactly when some key has
\* two directories, in whatever levels the copies are.
StoppedFindsDuplicates ==
  [][( /\ last'.op = "iSubkeys" /\ Listed(last'.call)
       /\ last'.call.pat = NoPattern /\ Plain(last'.key) \in Dirs
       /\ last'.dup # dkReserved
       /\ IDBDuplicationKeyProcess = dkStopped ) =>
       (last'.ret = NoList <=>
          \E d, e \in Copies(last'.key) :
            d # e /\ d.part \o d.name = e.part \o e.name)]_listVars

\* The directories, partitions included, that make up the matching subkeys.
Counted(P, pat) == {d \in Copies(P) : Matches(pat, d.part \o d.name)}

\* Whether every level is there that the pattern leads the walk to.
LevelsThere(P, pat) ==
  pat # NoPattern => \A i \in DOMAIN pat : pat[i] # "*" => Level(P, pat, i) \in Dirs

\* The total counts every directory of the matching subkeys once, in whatever
\* levels they are, while no level of the pattern is missing.
TotalCountsCopies ==
  [][LET P == last'.key IN
     last'.op = "iSubkeyTotal" /\ LevelsThere(P, last'.pat) =>
       last'.ret = IF Plain(P) \notin Dirs THEN -1 ELSE Cardinality(Counted(P, last'.pat))]_listVars

\* Listing never makes a key disappear: dkFixed removes duplicates only.
ListingKeepsKeys ==
  [][last'.op = "iSubkeys" =>
       \A K \in Keys : iKeyIsExists(K) => iKeyIsExists(K)']_listVars
=============================================================================
