------------------------------ MODULE Library ------------------------------
(***************************************************************************)
(* A program of one process that uses the library around the key store:    *)
(* the calls that change the file tree, the database handles of            *)
(* src/src/idb.c, and the text functions on a buffer.  Partitions are off. *)
(***************************************************************************)
EXTENDS FileTree, Texts

CONSTANTS
  Handles,   \* the handles a program may make
  Programs   \* see ProgramAssumption

\* A program: the tree it starts in, the texts one of which its buffer starts
\* with, the calls it makes, and how many of them (a bound).
ASSUME ProgramAssumption ==
  \A g \in Programs : g.calls \in Nat /\ g.texts # {} /\ <<>> \in DOMAIN g.tree

VARIABLES
  program,
  tree, cwd,    \* the file tree, and the working directory
  handle,       \* of every handle its record, or NULL
  alive,        \* "yes", or how the program ended
  buffer,       \* a C string
  last,         \* the last call with its result
  calls,
  start, coded, \* history: what the buffer was at first, the calls on it
  lastPath      \* history: the path of the handle opened last

vars == <<program, tree, cwd, handle, alive, buffer, last, calls, start, coded, lastPath>>

IDB_VALUE_NAME == ".value"
ERR_IDB_CLOSED == -1

----------------------------------------------------------------------------
(* The handles.                                                            *)

\* What a get finds: the value file of the key below the working directory.
iGetInFile(t, d, key) ==
  LET r == stat(t, d, key \o <<Sep, IDB_VALUE_NAME>>) IN
  IF r.err = "" /\ t[r.at].kind = "file" THEN t[r.at].data ELSE NULL

\* Mutant: a handle that is opened stays where it is.
StayBelow(t, d, h) == d

\* Where chdir leads; it fails when the path is no directory.
Chdir(t, d, h) == IF IsDir(t, d, h.path) THEN stat(t, d, h.path).at ELSE d

\* partitionFullProcess is what the memory happens to hold; what matters is
\* whether that is one of the enumeration.
NewHandle(known) == [opened |-> FALSE, path |-> NULL, maxPageSize |-> 0,
                     partitionFullProcess |-> known]

\* The option's default -1 as a size_t (of 16 bits, a bound).
IDBMaxPageCount == (-1) % 2^16

Ended(c) == last' = c /\ calls' = calls + 1 /\ UNCHANGED program

Call(c) == alive = "yes" /\ calls < program.calls /\ c \in program.ops

OnTree(c)   == Ended(c) /\ UNCHANGED <<cwd, handle, alive, buffer, start, coded, lastPath>>
OnHandle(c) == Ended(c) /\ UNCHANGED <<tree, buffer, start, coded>>

iDB_New(h) ==
  LET c == [op |-> "New", h |-> h] IN
  /\ Call(c) /\ handle[h] = NULL
  /\ \E known \in BOOLEAN : handle' = [handle EXCEPT ![h] = NewHandle(known)]
  /\ OnHandle(c @@ [ret |-> 0]) /\ UNCHANGED <<cwd, alive, lastPath>>

\* An opened handle is closed first.
iDB_Free(h) ==
  LET c == [op |-> "Free", h |-> h] IN
  /\ Call(c) /\ handle[h] # NULL
  /\ handle' = [handle EXCEPT ![h] = NULL]
  /\ OnHandle(c @@ [ret |-> 0]) /\ UNCHANGED <<cwd, alive, lastPath>>

\* Opening goes to the directory, and is refused when that fails.
iDB_SetOpened(h, b) ==
  LET c    == [op |-> "SetOpened", h |-> h, to |-> b]
      r    == handle[h]
      try  == b /\ r.path # NULL
      done == try /\ IsDir(tree, cwd, r.path)
  IN
  /\ Call(c) /\ r # NULL
  /\ handle' = [handle EXCEPT ![h].opened = done,
                              ![h].maxPageSize = IF done THEN Min({@, IDBMaxPageCount}) ELSE @]
  /\ cwd' = IF try THEN Chdir(tree, cwd, r) ELSE cwd
  /\ lastPath' = IF done THEN r.path ELSE lastPath
  /\ OnHandle(c @@ [ret |-> 0]) /\ UNCHANGED alive

\* The flag that is passed on is still false: the handle is not opened.
iDB_Open(h, x) ==
  LET c == [op |-> "Open", h |-> h, path |-> x] IN
  /\ Call(c) /\ handle[h] # NULL
  /\ handle' = IF handle[h].opened THEN handle ELSE [handle EXCEPT ![h].path = x]
  /\ OnHandle(c @@ [ret |-> FALSE]) /\ UNCHANGED <<cwd, alive, lastPath>>

\* Mutant: the path is freed and the handle stays open.
iDB_CloseHalf(h) ==
  LET c == [op |-> "Close", h |-> h] IN
  /\ Call(c) /\ handle[h] # NULL
  /\ handle' = IF handle[h].opened THEN [handle EXCEPT ![h].path = NULL] ELSE handle
  /\ OnHandle(c @@ [ret |-> handle[h].opened]) /\ UNCHANGED <<cwd, alive, lastPath>>

iDB_Close(h) ==
  LET c == [op |-> "Close", h |-> h] IN
  /\ Call(c) /\ handle[h] # NULL
  /\ handle' = IF handle[h].opened
               THEN [handle EXCEPT ![h].opened = FALSE, ![h].path = NULL] ELSE handle
  /\ OnHandle(c @@ [ret |-> handle[h].opened]) /\ UNCHANGED <<cwd, alive, lastPath>>

\* Keys are looked up from the working directory, whoever has set it.
iDB_GetString(h, key) ==
  LET c == [op |-> "GetString", h |-> h, key |-> key] IN
  /\ Call(c) /\ handle[h] # NULL
  /\ OnHandle(c @@ [ret |-> IF handle[h].opened THEN iGetInFile(tree, cwd, key)
                            ELSE ERR_IDB_CLOSED])
  /\ UNCHANGED <<cwd, handle, alive, lastPath>>

\* The body is empty: nothing is stored, and what it returns is undefined.
iDBAttr_PutString(h, key) ==
  LET c == [op |-> "PutString", h |-> h, key |-> key] IN
  /\ Call(c) /\ handle[h] # NULL
  /\ \E garbage \in {0, 1} : OnHandle(c @@ [ret |-> garbage])
  /\ UNCHANGED <<cwd, handle, alive, lastPath>>

\* iIncrByInFile takes the length of a path that is NULL.
iDBAttr_IncrBy(h, key) ==
  LET c == [op |-> "IncrBy", h |-> h, key |-> key] IN
  /\ Call(c) /\ handle[h] # NULL
  /\ alive' = IF handle[h].opened THEN "dead" ELSE alive
  /\ OnHandle(c @@ [ret |-> ERR_IDB_CLOSED]) /\ UNCHANGED <<cwd, handle, lastPath>>

\* The page size is cut to maxPageSize, which nothing sets: 0 is no limit.
\* partitionFullProcess is passed on as the way to process duplicates; outside
\* the enumeration the walker takes the subkeys one by one and appends none.
iDB_Subkeys(h, key, page, size) ==
  LET c == [op |-> "Subkeys", h |-> h, key |-> key, page |-> page, size |-> size]
      n == Min({size, handle[h].maxPageSize})
      all == ListDir(tree, cwd, key, NULL, LIST_NORMAL_DIRS, page * n, n)
  IN
  /\ Call(c) /\ handle[h] # NULL
  /\ OnHandle(c @@ [ret |-> IF ~handle[h].opened THEN ERR_IDB_CLOSED
                            ELSE IF all = NULL \/ handle[h].partitionFullProcess THEN all
                            ELSE <<>>])
  /\ UNCHANGED <<cwd, handle, alive, lastPath>>

----------------------------------------------------------------------------
(* The calls that change the tree.                                         *)

Change(c, r) == Call(c) /\ tree' = r.tree /\ OnTree(c @@ [ret |-> r.ret])

Force(x)    == Change([op |-> "ForceDirectories", path |-> x], ForceDirectories(tree, cwd, x))
Create(x)   == Change([op |-> "open_or_create_file", path |-> x],
                      open_or_create_file(tree, cwd, x))
Move(x, y)  == Change([op |-> "MoveDir", path |-> x, dest |-> y], MoveDir(tree, cwd, x, y))
Delete(x)   == Change([op |-> "DeleteDir", path |-> x], DeleteDir(tree, cwd, x))

Alias(dir, key, alias) ==
  LET c == [op |-> "iKeyAlias", path |-> dir, key |-> key, alias |-> alias]
      hangs == GetRelativePath(alias, key) = Unending
  IN  \/ ~hangs /\ Change(c, iKeyAlias(tree, cwd, dir, key, alias))
      \/ /\ hangs /\ Call(c) /\ alive' = "hung"
         /\ Ended(c @@ [ret |-> 0])
         /\ UNCHANGED <<tree, cwd, handle, buffer, start, coded, lastPath>>

----------------------------------------------------------------------------
(* The calls on the buffer.                                                *)

OnText(c, s) ==
  /\ Call(c) /\ buffer' = CStr(s) /\ coded' = Append(coded, c)
  /\ Ended(c) /\ UNCHANGED <<tree, cwd, handle, alive, start, lastPath>>

Encode(unsafe) == OnText([op |-> "UrlEncode", unsafe |-> unsafe], UrlEncode(buffer, unsafe))
Decode == \E past \in {0, Letter_A} : OnText([op |-> "UrlDecode"], UrlDecode(buffer, past))
ToUpper == OnText([op |-> "strToUpperCase"], strToUpperCase(buffer))
ToLower == OnText([op |-> "strToLowerCase"], strToLowerCase(buffer))
Trim    == OnText([op |-> "strTrim"], strTrim(buffer))
Replace(search, new) ==
  OnText([op |-> "strReplaceChars", search |-> search, new |-> new],
         strReplaceChars(buffer, search, new))

----------------------------------------------------------------------------
Init ==
  /\ program \in Programs
  /\ tree = program.tree /\ cwd = <<>>
  /\ handle = [h \in Handles |-> NULL]
  /\ alive = "yes"
  /\ buffer \in program.texts /\ start = buffer
  /\ last = [op |-> "none"] /\ calls = 0
  /\ coded = <<>> /\ lastPath = NULL

HandleCalls(c) ==
  \/ c.op = "New" /\ iDB_New(c.h)
  \/ c.op = "Free" /\ iDB_Free(c.h)
  \/ c.op = "SetOpened" /\ iDB_SetOpened(c.h, c.to)
  \/ c.op = "Open" /\ iDB_Open(c.h, c.path)
  \/ c.op = "Close" /\ iDB_Close(c.h)
  \/ c.op = "GetString" /\ iDB_GetString(c.h, c.key)
  \/ c.op = "PutString" /\ iDBAttr_PutString(c.h, c.key)
  \/ c.op = "IncrBy" /\ iDBAttr_IncrBy(c.h, c.key)
  \/ c.op = "Subkeys" /\ iDB_Subkeys(c.h, c.key, c.page, c.size)

TreeCalls(c) ==
  \/ c.op = "ForceDirectories" /\ Force(c.path)
  \/ c.op = "open_or_create_file" /\ Create(c.path)
  \/ c.op = "MoveDir" /\ Move(c.path, c.dest)
  \/ c.op = "DeleteDir" /\ Delete(c.path)
  \/ c.op = "iKeyAlias" /\ Alias(c.path, c.key, c.alias)

TextCalls(c) ==
  \/ c.op = "UrlEncode" /\ Encode(c.unsafe)
  \/ c.op = "UrlDecode" /\ Decode
  \/ c.op = "strToUpperCase" /\ ToUpper
  \/ c.op = "strToLowerCase" /\ ToLower
  \/ c.op = "strTrim" /\ Trim
  \/ c.op = "strReplaceChars" /\ Replace(c.search, c.new)

Next == \E c \in program.ops : HandleCalls(c) \/ TreeCalls(c) \/ TextCalls(c)

Spec == Init /\ [][Next]_vars

----------------------------------------------------------------------------
(* Properties of the tree.                                                 *)

Calling(op) == last'.op = op /\ calls' # calls

\* Everything in the tree is in a directory, and an opened handle has a path
\* (the type invariant).
TypeOK ==
  /\ \A p \in DOMAIN tree \ {<<>>} : Parent(p) \in DOMAIN tree /\ tree[Parent(p)].kind = "dir"
  /\ cwd \in DOMAIN tree => tree[cwd].kind = "dir"
  /\ \A h \in Handles : handle[h] # NULL => (handle[h].opened => handle[h].path # NULL)

\* ForceDirectories adds directories and touches nothing else; when it says
\* that it succeeded the directory is there, unless a link that leads nowhere
\* has its name, which mkdir takes for the directory of another process.
ForceMakes ==
  [][Calling("ForceDirectories") =>
       /\ \A p \in DOMAIN tree : p \in DOMAIN tree' /\ tree'[p] = tree[p]
       /\ \A p \in DOMAIN tree' \ DOMAIN tree : tree'[p].kind = "dir"
       /\ last'.ret = 0 =>
            LET e == ExtractLastPathName(last'.path) IN
            /\ e.dir # <<>> => IsDir(tree', cwd, e.dir)
            /\ lstat(tree', cwd, Trimmed(last'.path))
                 = lstat(tree', cwd, sdsJoinPathLen(e.dir, <<e.name>>))
       /\ last'.ret = 0 =>
            \/ IsDir(tree', cwd, last'.path)
            \/ LET l == lstat(tree', cwd, Trimmed(last'.path)) IN
               l.err = "" /\ tree'[l.at].kind = "link"]_vars

\* DeleteDir, which goes from node to node, removes what the path names and
\* all that is physically below it, and succeeds: a link goes, and what it
\* leads to stays, also when that is above the link.
DeleteStaysBelow ==
  [][Calling("DeleteDir") =>
       LET l == lstat(tree, cwd, last'.path)
           gone == DOMAIN tree \ DOMAIN tree'
       IN  /\ gone = IF l.err = "" THEN {p \in DOMAIN tree : IsPrefix(l.at, p)} ELSE {}
           /\ \A p \in DOMAIN tree' : tree'[p] = tree[p]
           /\ (last'.ret = 0) = (l.err = "")]_vars

\* An alias leads to its key from wherever it is made, when no path has empty
\* parts and the alias is made through real directories.
AliasReachesKey ==
  [][Calling("iKeyAlias") =>
       LET c    == last'
           own  == sdsJoinPathLen(c.path, c.alias)
           ways == {SubSeq(own, 1, i - 1) : i \in Seps(own) \ {1}}
           key  == stat(tree, cwd, sdsJoinPathLen(c.path, c.key))
           real(w) == LET r == lstat(tree, cwd, w) IN r.err = "" /\ tree[r.at].kind = "dir"
           whole(x) == \A i \in DOMAIN x : i > 1 => x[i] # Sep \/ x[i - 1] # Sep
       IN  alive' = "yes" /\ c.ret = 0 /\ key.err = "" /\ whole(c.alias) /\ whole(c.key)
             /\ (\A w \in ways : real(w))
           => LET r == stat(tree', cwd, own) IN r.err = "" /\ r.at = key.at]_vars

\* An alias never comes back exactly when its path ends in a separator and
\* its key is below it: all its parts were dropped as common, and one more is
\* taken off the count of those that are left.
AliasReturns ==
  [][Calling("iKeyAlias") =>
       (alive' = "hung" <=> /\ Slashed(last'.alias)
                            /\ IsPrefix(Unrooted(last'.alias), Unrooted(last'.key)))]_vars

----------------------------------------------------------------------------
(* Properties of listings.                                                 *)

\* WalkDir's switch and IsDirectory tell the same of every name, and CountDir,
\* ListDir with a page, and IsFileExistsInDir agree.
ListsAgree(d, o, pat, skip, count) ==
  LET class(n) == IsDirectory(tree, d, <<n>>)
      wanted(n) == CASE class(n) = PATH_IS_DIR      -> "DIR" \in o
                     [] class(n) = PATH_IS_FILE     -> "FILE" \in o
                     [] class(n) = PATH_IS_SYM_DIR  -> {"SYMBOLIC", "DIR"} \subseteq o
                     [] class(n) = PATH_IS_SYM_FILE -> {"SYMBOLIC", "FILE"} \subseteq o
                     [] class(n) = PATH_IS_NOT_EXISTS -> "SYMBOLIC_NONE" \in o
                     [] OTHER                       -> FALSE
      names == {n \in {Last(p) : p \in Children(tree, d)} :
                  wanted(n) /\ Shown(n, o) /\ (pat = NULL \/ n \in pat)}
      x     == <<Sep>> \o d
      all   == ListDir(tree, cwd, x, pat, o, 0, 0)
      page  == ListDir(tree, cwd, x, pat, o, skip, count)
  IN  /\ ToSet(all) = names /\ Len(all) = Cardinality(names)
      /\ CountDir(tree, cwd, x, pat, o) = Cardinality(names)
      /\ IsFileExistsInDir(tree, cwd, x, pat, o) = (names # {})
      /\ page = SubSeq(all, skip + 1, IF count = 0 THEN Len(all)
                                      ELSE Min({Len(all), skip + count}))

\* What the processor answers is obeyed: the names up to the first STOP or
\* ERROR are shown to it, skipped ones are not counted, an error loses the
\* count.
VerdictObeyed(d, o, n, v) ==
  LET x   == <<Sep>> \o d
      all == ListDir(tree, cwd, x, NULL, o, 0, 0)
      w   == WalkDir(tree, cwd, x, NULL, o, 0, 0, [AllOK(tree) EXCEPT ![n] = v])
      end == IF v < 0 /\ n \in ToSet(all) THEN CHOOSE i \in DOMAIN all : all[i] = n
             ELSE Len(all)
  IN  /\ w.seen = SubSeq(all, 1, end)
      /\ w.total = CASE v = WALK_ITEM_ERROR /\ n \in ToSet(all) -> -1
                     [] v = WALK_ITEM_SKIP /\ n \in ToSet(all)  -> end - 1
                     [] OTHER                                   -> end

Dirs == {p \in DOMAIN tree \ {<<>>} : tree[p].kind = "dir"}

ListAgrees ==
  \A d \in Dirs, o \in program.options :
    /\ \A pat \in {NULL} \cup {{Last(p)} : p \in Children(tree, d)}, skip, count \in 0..2 :
         /\ ListsAgree(d, o, pat, skip, count)
         /\ skip = 0 /\ count = 0 => Len(iAttrsInFile(tree, <<>>, d, pat, 0, 0))
                                     = iAttrCountInFile(tree, <<>>, d, pat)
    /\ \A n \in DOMAIN AllOK(tree), v \in {WALK_ITEM_SKIP, WALK_ITEM_STOP, WALK_ITEM_ERROR} :
         VerdictObeyed(d, o, n, v)

\* Every <<d, e>> such that directory d leads to directory e, through one name
\* or more.
Reach ==
  LET leads == UNION {{<<Parent(p), r.at>> : r \in {Resolve(tree, Parent(p), <<Last(p)>>, TRUE, MaxHops)}} :
                      p \in {q \in DOMAIN tree \ {<<>>} : IsDir(tree, Parent(q), <<Last(q)>>)}}
      grow(R, d) == R \cup {<<e[1], f[2]>> : e \in {x \in R : x[2] = d}, f \in {x \in R : x[1] = d}}
  IN  FoldSet(LAMBDA d, R : grow(R, d), leads, {e[1] : e \in leads})

\* A physical walk of a whole tree counts every node below it once, and links
\* as files; a logical one does the same where there are no links, and fails
\* exactly when some way through links comes back to a directory it is in.  A
\* walk that a processor stops, and errno 0, has counted what it was shown.
FtsAgrees ==
  LET linked(d) == \E p \in Below(tree, d) : tree[p].kind = "link"
      cyclic == {d \in DOMAIN tree : <<d, d>> \in Reach}
  IN  \A d \in Dirs :
        LET of(k)  == {p \in Below(tree, d) : tree[p].kind \in k}
            fts(o) == FTSCountDir(tree, d, NULL, o, 0)
            all    == FTSListDir(tree, d, NULL, {"PHYSICAL", "DIR", "FILE"}, 0)
        IN  /\ fts({"PHYSICAL", "DIR"}) = Cardinality(of({"dir"}))
            /\ fts({"PHYSICAL", "FILE"}) = Cardinality(of({"file", "link"}))
            /\ ~linked(d) => FTSListDir(tree, d, NULL, {"DIR", "FILE"}, 0) = all
            /\ fts({"DIR"}) < 0 <=> \E e \in cyclic : e = d \/ <<d, e>> \in Reach
            /\ \A n \in ToSet(all) :
                 LET w == FTSWalkDir(tree, d, NULL, {"PHYSICAL", "DIR", "FILE"},
                                     [AllOK(tree) EXCEPT ![n] = WALK_ITEM_STOP], 0)
                 IN  /\ w.seen = SubSeq(all, 1, Min({i \in DOMAIN all : all[i] = n}))
                     /\ w.total = Len(w.seen)

----------------------------------------------------------------------------
(* Properties of handles and texts.                                        *)

\* An open handle answers from the store that was opened last, whichever
\* handle it was, closed or not: gets find its values, a listing has nothing
\* but its subkeys, and all of them when it is asked for without a page and
\* partitionFullProcess happens to be of the enumeration.
AnswersFromLastOpened ==
  [][(Calling("GetString") \/ Calling("Subkeys")) =>
     LET c   == last'
         at  == sdsJoinPathLen(lastPath, c.key)
         all == ListDir(tree, <<>>, at, NULL, LIST_NORMAL_DIRS, 0, 0)
     IN  handle[c.h].opened /\ Absolute(lastPath) =>
           IF c.op = "GetString" THEN c.ret = iGetInFile(tree, <<>>, at)
           ELSE /\ c.ret = NULL <=> all = NULL
                /\ all # NULL => ToSet(c.ret) \subseteq ToSet(all)
                /\ c.size = 0 /\ handle[c.h].partitionFullProcess => c.ret = all]_vars

\* A text of plain characters is what it was after it has been encoded and
\* decoded, and also when it was brought to one case in between, as long as
\* the letters are not encoded.
Ops == [i \in DOMAIN coded |-> coded[i].op]
UrlRoundTrip ==
  LET plain == (\A i \in DOMAIN start : start[i] < 128) \/ ~CharIsSigned
      noLetters == coded # <<>> /\ coded[1].op = "UrlEncode"
                     /\ coded[1].unsafe \cap (Uppers \cup Lowers) = {}
  IN  /\ plain /\ Ops = <<"UrlEncode", "UrlDecode">> => buffer = start
      /\ plain /\ noLetters /\ Ops = <<"UrlEncode", "strToUpperCase", "UrlDecode">>
           => buffer = strToUpperCase(start)
      /\ plain /\ noLetters /\ Ops = <<"UrlEncode", "strToLowerCase", "UrlDecode">>
           => buffer = strToLowerCase(start)

\* Decoding never makes a text longer than the memory it is in; encoding
\* leaves no character that is not to be there; trimming takes blanks from
\* both ends and nothing else.
CodingBounds ==
  [][/\ Calling("UrlDecode") => Len(UrlDecode(buffer, 0)) <= Len(buffer)
     /\ Calling("UrlEncode") =>
          \A i \in DOMAIN buffer' : is_printable(buffer'[i]) \/ buffer'[i] = Percent
     /\ Calling("strTrim") =>
          \E a, b \in 0..Len(buffer) :
            /\ buffer' = SubSeq(buffer, a + 1, b)
            /\ \A i \in DOMAIN buffer : (i <= a \/ i > b) => buffer[i] \in Blank
            /\ \A i \in {1, Len(buffer')} \cap DOMAIN buffer' : buffer'[i] \notin Blank]_vars

\* A larger unit never brings a number closer to zero or changes its sign,
\* also where the product is more than an int64_t can hold.
UnitsGrow(t) ==
  LET n(i) == Signed(t).sign * strToInt64x(t \o IF i = 0 THEN <<>> ELSE <<Units[i]>>) IN
  \A i \in DOMAIN Units : 0 <= n(i - 1) /\ n(i - 1) <= n(i)

\* The comparisons agree with each other: stricmp is an order, equal where
\* the lower-case texts are, and the prefix and suffix tests ignore case as
\* it does; numbers with units are in the order of their units.
ComparisonsAgree ==
  \A s \in program.others :
    LET t == buffer
        low(x) == strToLowerCase(x)
    IN  /\ (stricmp(t, s) = 0) = (low(t) = low(s))
        /\ (stricmp(t, s) > 0) = (stricmp(s, t) < 0)
        /\ \A u \in program.others : stricmp(t, s) <= 0 /\ stricmp(s, u) <= 0 => stricmp(t, u) <= 0
        /\ striBeginWith(t, s) = strBeginWith(low(t), low(s))
        /\ striEndWith(t, s) = strEndWith(low(t), low(s))
        /\ strBeginWith(t, s) = strEndWith(Reverse(t), Reverse(s))
        /\ utf8StrLen(t \o s) = utf8StrLen(t) + utf8StrLen(s)
        /\ strToInt64x(strTrim(t)) = strToInt64x(t)
        /\ ToSet(t) \subseteq Digits \cup Blank \cup {43, 45} => strToInt64x(t) = strToInt64(t)
        /\ ToSet(t) \subseteq Digits \cup Blank \cup {43, 45, 46} => UnitsGrow(t)

=============================================================================
