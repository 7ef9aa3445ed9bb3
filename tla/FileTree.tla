------------------------------ MODULE FileTree ------------------------------
(***************************************************************************)
(* The file tree the library works on, with directories, files and         *)
(* symbolic links, and the functions of src/src/isdk_utils.c and           *)
(* src/src/idb_helpers.c that make, remove, list and name parts of it.     *)
(*                                                                         *)
(* A path in the tree is a sequence of names from the root; a path as a    *)
(* program writes it is a text: a sequence of names and separators.        *)
(***************************************************************************)
EXTENDS Integers, Sequences, FiniteSets, TLC, SequencesExt, FiniteSetsExt

CONSTANTS
  Hidden,   \* the names that begin with a dot
  NULL      \* nothing

Sep   == "/"
DirNode     == [kind |-> "dir",  to |-> <<>>, data |-> NULL]
FileNode(v) == [kind |-> "file", to |-> <<>>, data |-> v]
LinkNode(x) == [kind |-> "link", to |-> x,    data |-> NULL]

Parent(p)      == Front(p)
Children(t, d) == {p \in DOMAIN t : p # <<>> /\ Front(p) = d}
Below(t, d)    == {p \in DOMAIN t : IsPrefix(d, p)}
Names(x)       == SelectSeq(x, LAMBDA c : c # Sep)
Absolute(x)    == x # <<>> /\ x[1] = Sep
Slashed(x)     == x # <<>> /\ Last(x) = Sep

----------------------------------------------------------------------------
(* Path resolution, by the operating system.                               *)

\* What the names ns lead to from directory d: [err, at].  "absent" says that
\* only the last name is missing.  Too many links are ELOOP.
RECURSIVE Resolve(_, _, _, _, _)
Resolve(t, d, ns, follow, hops) ==
  IF ns = <<>> THEN [err |-> "", at |-> d]
  ELSE IF Head(ns) = "." THEN Resolve(t, d, Tail(ns), follow, hops)
  ELSE IF Head(ns) = ".." THEN Resolve(t, IF d = <<>> THEN d ELSE Parent(d), Tail(ns), follow, hops)
  ELSE
    LET c == Append(d, Head(ns)) IN
    IF c \notin DOMAIN t
    THEN [err |-> IF Len(ns) = 1 THEN "absent" ELSE "ENOENT", at |-> c]
    ELSE CASE t[c].kind = "dir"  -> Resolve(t, c, Tail(ns), follow, hops)
           [] t[c].kind = "file" -> [err |-> IF Len(ns) = 1 THEN "" ELSE "ENOTDIR", at |-> c]
           [] t[c].kind = "link" ->
                IF Len(ns) = 1 /\ ~follow THEN [err |-> "", at |-> c]
                ELSE IF hops = 0 THEN [err |-> "ELOOP", at |-> c]
                ELSE Resolve(t, IF Absolute(t[c].to) THEN <<>> ELSE d,
                             Names(t[c].to) \o Tail(ns), follow, hops - 1)

MaxHops == 4

Lookup(t, cwd, x, follow) ==
  LET r == Resolve(t, IF Absolute(x) THEN <<>> ELSE cwd, Names(x),
                   follow \/ Slashed(x), MaxHops)
  IN  IF x = <<>> THEN [err |-> "ENOENT", at |-> cwd]
      ELSE IF r.err = "" /\ Slashed(x) /\ t[r.at].kind # "dir"
      THEN [r EXCEPT !.err = "ENOTDIR"] ELSE r

ENOENT  == 2
EEXIST  == 17
ENOTDIR == 20
EISDIR  == 21
EINVAL  == 22
EDEADLK == 35
ENOTEMPTY == 39
ELOOP   == 40
Errno(err) == CASE err = ""       -> 0
                [] err = "ENOTDIR" -> ENOTDIR
                [] err = "ELOOP"   -> ELOOP
                [] OTHER           -> ENOENT

stat(t, cwd, x)  == Lookup(t, cwd, x, TRUE)
lstat(t, cwd, x) == Lookup(t, cwd, x, FALSE)
IsDir(t, cwd, x) == LET r == stat(t, cwd, x) IN r.err = "" /\ t[r.at].kind = "dir"

----------------------------------------------------------------------------
(* What a path is.                                                         *)

PATH_IS_DIR        == 1
PATH_IS_FILE       == -1
PATH_IS_SYM_DIR    == 2
PATH_IS_SYM_FILE   == -999
PATH_IS_NOT_EXISTS == 0

DirectoryExists(t, cwd, x) ==
  LET r == stat(t, cwd, x) IN
  IF r.err # "" THEN PATH_IS_NOT_EXISTS
  ELSE IF t[r.at].kind = "dir" THEN PATH_IS_DIR ELSE PATH_IS_FILE

IsDirectory(t, cwd, x) ==
  LET l == lstat(t, cwd, x)
      r == stat(t, cwd, x)
      err(e) == IF Errno(e) = ENOENT THEN PATH_IS_NOT_EXISTS ELSE -Errno(e)
  IN  IF l.err # "" THEN err(l.err)
      ELSE IF r.err # "" THEN err(r.err)
      ELSE IF t[l.at].kind = "link"
           THEN IF t[r.at].kind = "dir" THEN PATH_IS_SYM_DIR ELSE PATH_IS_SYM_FILE
           ELSE IF t[r.at].kind = "dir" THEN PATH_IS_DIR ELSE PATH_IS_FILE

----------------------------------------------------------------------------
(* Making and removing: [tree, ret].  Files can be written and removed.    *)

\* Adding a node where nothing is, not even a link.  Only the path of a
\* directory may end in a separator.
Add(t, cwd, x, node) ==
  LET l == IF x = <<>> THEN [err |-> "ENOENT", at |-> cwd]
           ELSE Resolve(t, IF Absolute(x) THEN <<>> ELSE cwd, Names(x), FALSE, MaxHops) IN
  IF l.err = "absent" /\ (Slashed(x) => node.kind = "dir")
  THEN [tree |-> (l.at :> node) @@ t, ret |-> 0]
  ELSE [tree |-> t, ret |-> IF l.err = "" THEN EEXIST ELSE Errno(l.err)]

\* Mutant: what is there is not looked at.
do_mkdirAny(t, cwd, x) ==
  IF stat(t, cwd, x).err = "" THEN [tree |-> t, ret |-> 0]
  ELSE [Add(t, cwd, x, DirNode) EXCEPT !.ret = IF @ \in {0, EEXIST} THEN 0 ELSE -1]

\* EEXIST is success, even when what exists is a link that leads nowhere.
do_mkdir(t, cwd, x) ==
  LET r == stat(t, cwd, x)
      m == Add(t, cwd, x, DirNode)
  IN  IF r.err = "" THEN [tree |-> t, ret |-> IF t[r.at].kind = "dir" THEN 0 ELSE -1]
      ELSE [m EXCEPT !.ret = IF @ \in {0, EEXIST} THEN 0 ELSE -1]

\* Every directory on the way, up to the first that fails.
ForceDirectories(t, cwd, x) ==
  LET stops == {i \in 2..Len(x) : x[i] = Sep /\ x[i - 1] # Sep}
      ways  == [i \in 1..Cardinality(stops) |->
                  SubSeq(x, 1, SetToSortSeq(stops, <)[i] - 1)] \o <<x>>
  IN  FoldLeft(LAMBDA s, w : IF s.ret # 0 THEN s ELSE do_mkdir(s.tree, cwd, w),
               [tree |-> t, ret |-> 0], ways)

\* The first open needs the file, the second needs it missing.
open_or_create_file(t, cwd, x) ==
  LET r == stat(t, cwd, x) IN
  IF r.err = "" /\ t[r.at].kind = "file" THEN [tree |-> t, ret |-> 0]
  ELSE Add(t, cwd, x, FileNode(<<>>))

\* symlink(2) makes no link to the empty path.
iKeyAliasAt(t, cwd, to, x) ==
  IF to = <<>> THEN [tree |-> t, ret |-> ENOENT] ELSE Add(t, cwd, x, LinkNode(to))

\* rename(2): onto nothing, a file onto a file, a directory onto an empty one;
\* EEXIST stands for the errors of a destination that is in the way.
MoveDir(t, cwd, src, dest) ==
  LET s == lstat(t, cwd, src)
      d == lstat(t, cwd, dest)
      over == d.err = "" /\ (t[d.at].kind = "dir") = (t[s.at].kind = "dir")
                /\ Children(t, d.at) = {}
      to(p) == d.at \o SubSeq(p, Len(s.at) + 1, Len(p))
      moved == Below(t, s.at)
  IN  IF s.err # "" THEN [tree |-> t, ret |-> Errno(s.err)]
      ELSE IF d.err = "" /\ d.at = s.at THEN [tree |-> t, ret |-> 0]
      ELSE IF IsPrefix(s.at, d.at) THEN [tree |-> t, ret |-> EINVAL]
      ELSE IF d.err # "absent" /\ ~over THEN [tree |-> t, ret |-> EEXIST]
      ELSE [tree |-> [p \in (DOMAIN t \ (moved \cup {d.at})) \cup {to(q) : q \in moved} |->
                        IF IsPrefix(d.at, p)
                        THEN t[s.at \o SubSeq(p, Len(d.at) + 1, Len(p))] ELSE t[p]],
            ret |-> 0]

----------------------------------------------------------------------------
(* Listing one directory.                                                  *)

\* Option sets.
LIST_DIRS         == {"DIR", "NORMAL"}
LIST_FILES        == {"FILE", "NORMAL"}
LIST_NORMAL_DIRS  == LIST_DIRS \cup {"SYMBOLIC"}
LIST_NORMAL_FILES == LIST_FILES \cup {"SYMBOLIC"}
LIST_HIDDEN_DIRS  == {"DIR", "SYMBOLIC", "HIDDEN"}
LIST_ALL_FILES    == LIST_FILES \cup {"SYMBOLIC", "HIDDEN"}

WALK_ITEM_OK    == 0
WALK_ITEM_SKIP  == 1
WALK_ITEM_STOP  == -1
WALK_ITEM_ERROR == -2

Shown(n, o) ==
  IF "HIDDEN" \in o THEN "NORMAL" \in o \/ n \in Hidden ELSE n \notin Hidden

\* Mutant: a link is a file, wherever it leads.
ListedAsFile(t, c, o) ==
  CASE t[c].kind = "dir"  -> "DIR" \in o
    [] t[c].kind = "file" -> "FILE" \in o
    [] OTHER              -> {"SYMBOLIC", "FILE"} \subseteq o

\* WalkDir's switch on the type of the entry c.
Listed(t, c, o) ==
  LET r == Resolve(t, Parent(c), <<Last(c)>>, TRUE, MaxHops) IN
  CASE t[c].kind = "dir"  -> "DIR" \in o
    [] t[c].kind = "file" -> "FILE" \in o
    [] t[c].kind = "link" ->
         CASE r.err = ""    -> "SYMBOLIC" \in o
                                 /\ IF t[r.at].kind = "dir" THEN "DIR" \in o ELSE "FILE" \in o
           [] r.err \in {"absent", "ENOENT"} -> "SYMBOLIC_NONE" \in o
           [] OTHER         -> FALSE

\* readdir's order is the file system's; here it is fixed.
Entries(t, d) == SetToSeq(Children(t, d))

\* The names that match are pat, all of them if NULL.  verdict is what the
\* processor answers to a name.  [total, seen]: seen is what it was shown.
WalkDir(t, cwd, x, pat, o, skip, count, verdict) ==
  LET d == stat(t, cwd, x)
      item(s, c) ==
        IF s.done \/ s.stopped <= WALK_ITEM_STOP
             \/ ~Shown(Last(c), o) \/ ~Listed(t, c, o)
             \/ (pat # NULL /\ Last(c) \notin pat)
        THEN s
        ELSE IF s.skip > 0 THEN [s EXCEPT !.skip = @ - 1]
        ELSE LET v     == verdict[Last(c)]
                 total == IF v = WALK_ITEM_SKIP THEN s.total ELSE s.total + 1
             IN  [s EXCEPT !.stopped = v, !.total = total,
                           !.seen = Append(@, Last(c)),
                           !.done = v # WALK_ITEM_SKIP /\ count > 0 /\ total >= count]
      end == FoldLeft(item, [total |-> 0, skip |-> skip, stopped |-> 0, seen |-> <<>>,
                             done |-> FALSE], Entries(t, d.at))
  IN  IF ~IsDir(t, cwd, x) THEN [total |-> -1, seen |-> <<>>]
      ELSE [total |-> IF end.stopped <= WALK_ITEM_ERROR THEN -1 ELSE end.total,
            seen  |-> end.seen]

AllOK(t) == [n \in {Last(p) : p \in DOMAIN t \ {<<>>}} |-> WALK_ITEM_OK]

CountDir(t, cwd, x, pat, o) == WalkDir(t, cwd, x, pat, o, 0, 0, AllOK(t)).total

IsFileExistsInDir(t, cwd, x, pat, o) ==
  WalkDir(t, cwd, x, pat, o, 0, 1, AllOK(t)).total >= 1

ListDir(t, cwd, x, pat, o, skip, count) ==
  LET w == WalkDir(t, cwd, x, pat, o, skip, count, AllOK(t)) IN
  IF w.total = -1 THEN NULL ELSE w.seen

iAttrCountInFile(t, cwd, x, pat) == CountDir(t, cwd, x, pat, LIST_ALL_FILES)
iAttrsInFile(t, cwd, x, pat, skip, count) ==
  ListDir(t, cwd, x, pat, LIST_ALL_FILES, skip, count)

----------------------------------------------------------------------------
(* Walking a whole tree.                                                   *)

\* What fts_read returns for the entry c, with directories after what is in
\* them.  up are the directories it came through.  A physical walk without
\* stat tells nothing of files and links; a logical one goes through links.
RECURSIVE Visit(_, _, _, _)
Visit(t, c, physical, up) ==
  LET r == Resolve(t, Parent(c), <<Last(c)>>, TRUE, MaxHops)
      node(i) == <<[info |-> i, name |-> Last(c), at |-> c]>>
      in(d) == FlattenSeq([i \in DOMAIN Entries(t, d) |->
                             Visit(t, Entries(t, d)[i], physical, up \cup {d})]) \o node("DP")
  IN  IF t[c].kind = "dir" THEN IF c \in up THEN node("DC") ELSE in(c)
      ELSE IF physical \/ t[c].kind = "file" THEN node("NSOK")
      ELSE IF r.err # "" THEN node("SLNONE")
      ELSE IF t[r.at].kind = "file" THEN node("F")
      ELSE IF r.at \in up THEN node("DC") ELSE in(r.at)

\* What DeleteDir does with a node: rmdir or unlink.
Removed(t, n) ==
  LET without == [tree |-> [p \in DOMAIN t \ {n.at} |-> t[p]], ret |-> 0] IN
  CASE n.info = "DC" -> [tree |-> t, ret |-> EDEADLK]
    [] n.info = "DP" ->
         IF t[n.at].kind # "dir" THEN [tree |-> t, ret |-> ENOTDIR]
         ELSE IF Children(t, n.at) # {} THEN [tree |-> t, ret |-> ENOTEMPTY]
         ELSE without
    [] OTHER -> IF t[n.at].kind = "dir" THEN [tree |-> t, ret |-> EISDIR] ELSE without

RemoveAll(t, nodes) ==
  FoldLeft(LAMBDA s, n : IF s.ret # 0 THEN s ELSE Removed(s.tree, n),
           [tree |-> t, ret |-> 0], nodes)

\* Mutant: the walk goes through links.
DeleteDirLogical(t, cwd, x) ==
  LET l == lstat(t, cwd, x) IN
  IF l.err # "" THEN [tree |-> t, ret |-> Errno(l.err)]
  ELSE RemoveAll(t, Visit(t, l.at, FALSE, {}))

\* A path that does not end in a separator.  The first failure ends the walk,
\* which is physical; a link that is itself the path is unlinked as well.
DeleteDir(t, cwd, x) ==
  LET l == lstat(t, cwd, x) IN
  IF l.err # "" THEN [tree |-> t, ret |-> Errno(l.err)]
  ELSE RemoveAll(t, Visit(t, l.at, TRUE, {}))

\* Mutant: a link that leads back is passed over.
FTSErrorNone(i) == 0

FTSError(i) == IF i = "DC" THEN EDEADLK ELSE 0

\* FTSWalkDir's switch on what fts_read says.
FTSListed(i, o) ==
  CASE i = "DP"            -> "DIR" \in o
    [] i = "SLNONE"        -> "SYMBOLIC_NONE" \in o
    [] i \in {"F", "NSOK"} -> "FILE" \in o
    [] i = "DC"            -> FALSE

\* The directory that is walked is listed with its content; names stand for
\* paths.  A node is read before the loop sees that it is to end: after a
\* STOP or an error with nodes left errno has a value of before the walk, and
\* that is the result; a walk that comes to its end has made it 0.
FTSWalkDir(t, c, pat, o, verdict, errno) ==
  LET nodes == Visit(t, c, "PHYSICAL" \in o, {})
      item(s, n) ==
        IF s.err # 0 \/ s.stopped = WALK_ITEM_STOP THEN [s EXCEPT !.left = TRUE]
        ELSE IF ~FTSListed(n.info, o) \/ (pat # NULL /\ n.name \notin pat)
        THEN [s EXCEPT !.err = FTSError(n.info)]
        ELSE LET v == verdict[n.name] IN
             [s EXCEPT !.stopped = v, !.seen = Append(@, n.name),
                       !.total = IF v = WALK_ITEM_SKIP THEN @ ELSE @ + 1]
      end == FoldLeft(item, [err |-> 0, total |-> 0, stopped |-> 0, seen |-> <<>>,
                             left |-> FALSE], nodes)
      err == IF end.left /\ errno # 0 THEN errno ELSE end.err
  IN  [total |-> IF err # 0 THEN -err ELSE end.total, seen |-> end.seen]

FTSCountDir(t, c, pat, o, errno) == FTSWalkDir(t, c, pat, o, AllOK(t), errno).total
FTSListDir(t, c, pat, o, errno) ==
  LET w == FTSWalkDir(t, c, pat, o, AllOK(t), errno) IN IF w.total < 0 THEN NULL ELSE w.seen

----------------------------------------------------------------------------
(* Paths as texts.                                                         *)

sdsJoinPathLen(x, y) ==
  IF x = <<>> THEN y ELSE IF Slashed(x) THEN x \o y ELSE x \o <<Sep>> \o y

\* Separators at the end are dropped first.
Trimmed(x) == SubSeq(x, 1, Max({0} \cup {i \in DOMAIN x : x[i] # Sep}))

RemoveLastPathName(x) ==
  LET y == Trimmed(x) IN
  SubSeq(y, 1, Max({0} \cup {i \in DOMAIN y : y[i] = Sep}))

ExtractLastPathName(x) ==
  [dir |-> RemoveLastPathName(x),
   name |-> IF Trimmed(x) = <<>> THEN NULL ELSE Last(Trimmed(x))]

Seps(x) == {i \in DOMAIN x : x[i] = Sep}

Unrooted(x) == SubSeq(x, Min({i \in DOMAIN x : x[i] # Sep} \cup {Len(x) + 1}), Len(x))

\* What is left when the parts both have in common are taken away; a part is
\* what a separator ends.
RECURSIVE DropCommon(_, _)
DropCommon(from, to) ==
  LET part(x) == SubSeq(x, 1, Min(Seps(x))) IN
  IF Seps(from) # {} /\ Seps(to) # {} /\ part(from) = part(to)
  THEN DropCommon(SubSeq(from, Len(part(from)) + 1, Len(from)),
                  SubSeq(to, Len(part(to)) + 1, Len(to)))
  ELSE [from |-> from, to |-> to]

\* Mutant: the directories in common are counted too.
CountUpAll(from, rest) == Cardinality(Seps(from)) - IF Slashed(from) THEN 1 ELSE 0

\* Mutant: a last separator is always taken off.
CountUpLess(from, rest) == Cardinality(Seps(rest)) - 1

\* How many directories up.
CountUp(from, rest) == Cardinality(Seps(rest)) - IF Slashed(from) THEN 1 ELSE 0

\* The count of ".." goes on below zero and never comes to an end.
Unending == <<"unending">>

GetRelativePath(aFrom, aTo) ==
  LET rest == DropCommon(Unrooted(aFrom), Unrooted(aTo))
      ups  == CountUp(aFrom, rest.from)
  IN  IF ups < 0 THEN Unending
      ELSE FlattenSeq([i \in 1..ups |-> <<"..", Sep>>]) \o rest.to

\* The link is made below aDir; what it holds is relative to where it is.
iKeyAlias(t, cwd, dir, key, alias) ==
  iKeyAliasAt(t, cwd, GetRelativePath(alias, key), sdsJoinPathLen(dir, alias))

=============================================================================
