------------------------------ MODULE AttrProcs ------------------------------
(***************************************************************************)
(* The attributes of one key: values and counters kept in files of the     *)
(* key's directory, in extended attributes of that directory, or in both   *)
(* (src/src/idb_helpers.c, src/src/isdk_xattr.c), used by several          *)
(* processes.  One system call is one step, and every process carries its  *)
(* errno from call to call, as C does: several functions here read it.     *)
(*                                                                         *)
(* The key's directory is at a fixed place, which a walk finds or a put    *)
(* makes: in its parent, or `depth' partition levels below it.  A row of   *)
(* stat calls is one step, because directories only appear here.           *)
(* A number's text is what "%lld" makes of it; numbers stay far from the   *)
(* ends of int64_t, and texts hold no blanks and no "0x".                  *)
(***************************************************************************)
EXTENDS Integers, Sequences, FiniteSets, SequencesExt, FiniteSetsExt

CONSTANTS
  Procs,      \* the processes
  Programs,   \* what they may be up to, see Program
  NULL,       \* no text, no attribute name
  Unknown,    \* what a write that failed or was overlapped has left
  MaxInodes   \* bound: value files in use at a time


VARIABLES
  program, setting,  \* what runs, where: [platform, paged, depth]
  dir,               \* whether the key's directory is made
  object, data,      \* the inode of every stored attribute; the bytes of inodes
  errno,             \* of every process
  proc,              \* the call every process is in
  last,              \* the call that returned last, with its result
  calls, crashes, faults,
  tried,             \* history: the texts written to every stored attribute
  acked,             \* history: what the last write has left, by Slot
  added              \* history: the sum of the increments begun

fsys == <<dir, object, data>>
vars == <<program, setting, fsys, errno, proc, last, calls, crashes, faults,
          tried, acked, added>>

EPERM   == 1
ENOENT  == 2
ENOEXEC == 8
EEXIST  == 17
EINVAL  == 22
ENOSPC  == 28
ERANGE  == 34
ENODATA == 61

----------------------------------------------------------------------------
(* Texts and names.                                                        *)

Digit == <<"0", "1", "2", "3", "4", "5", "6", "7", "8", "9">>
\* Up to the nineteen digits that a long long can have.
Decimal(n) ==
  LET rest[i \in 0..19] == IF i = 0 THEN (IF n < 0 THEN -n ELSE n) ELSE rest[i - 1] \div 10
      width == Max({i \in 1..19 : i = 1 \/ rest[i - 1] > 0})
  IN  (IF n < 0 THEN <<"-">> ELSE <<>>)
        \o [i \in 1..width |-> Digit[1 + (rest[width - i] % 10)]]

\* strtoll with base 0: a leading 0 means octal; it stops where the digits do.
\* `whole' says that it stopped at the end.
Strtoll(s) ==
  LET t    == IF s # <<>> /\ s[1] = "-" THEN Tail(s) ELSE s
      base == IF t # <<>> /\ t[1] = "0" THEN 8 ELSE 10
      run  == Max({k \in 0..Len(t) :
                     \A i \in 1..k : \E d \in 1..base : Digit[d] = t[i]})
      number[k \in 0..run] ==
        IF k = 0 THEN 0
        ELSE base * number[k - 1] + (CHOOSE d \in 0..9 : Digit[d + 1] = t[k])
  IN  [value |-> IF t # s THEN -number[run] ELSE number[run], whole |-> run = Len(t)]

IDB_VALUE_NAME == <<".", "value">>

MakeAttrFileName(a) == IF a \in {NULL, <<>>} THEN IDB_VALUE_NAME ELSE a

GenerateXattrName(a) ==
  IF a = NULL THEN Tail(IDB_VALUE_NAME)
  ELSE IF a # <<>> /\ Head(a) = "." THEN Tail(a) ELSE a

Stored(store, a) ==
  <<store, IF store = "file" THEN MakeAttrFileName(a) ELSE GenerateXattrName(a)>>

\* The calls.  Those in one store make the same system calls as the general
\* one does with that store; the last argument says what they do to errno.
Call(kind, st, a, v) == [kind |-> kind, stores |-> st, attr |-> a, arg |-> v]

iIsExists(a, st)     == Call("exists", st, a, "clear")
iIsExistsInFile(a)   == Call("exists", {"file"}, a, "keep")
iIsExistsInXattr(a)  == Call("exists", {"xattr"}, a, "keep")
iGet(a, st)          == Call("get", st, a, 0)
iGetInFile(a)        == iGet(a, {"file"})
iGetInXattr(a)       == iGet(a, {"xattr"})
iGetInt(a, st)       == Call("getInt", st, a, 0)
iGetCount(st)        == Call("getCount", st, <<".", "count">>, 0)
iPut(a, v, st)       == Call("put", st, a, v)
iPutInFile(a, v)     == iPut(a, v, {"file"})
iPutInXattr(a, v)    == iPut(a, v, {"xattr"})
iPutInt(a, n, st)    == Call("putInt", st, a, n)
iIncrBy(a, n, st)    == Call("incrBy", st, a, n)
iIncr(a, st)         == iIncrBy(a, 1, st)
iDecr(a, st)         == iIncrBy(a, -1, st)
iIncrByInFile(a, n)  == Call("incrInFile", {"file"}, a, n)
IncrByDirValue(a, n) == Call("incrDir", {"file"}, a, n)
iDelete(a, st)       == Call("delete", st, a, "keep")
iDeleteInFile(a)     == iDelete(a, {"file"})
iDeleteInXattr(a)    == Call("delete", {"xattr"}, a, "cut")

\* What two calls must share to be about one attribute: where a get looks
\* first.
Slot(c) == Stored(IF "xattr" \in c.stores THEN "xattr" ELSE "file", c.attr)

\* A call: its kind, the stores it uses, the attribute's name (a sequence of
\* characters, or NULL) and its argument, a text or a number.
IsCall(c) ==
  /\ c.kind \in {"exists", "get", "getInt", "getCount", "put", "putInt",
                 "incrBy", "incrInFile", "incrDir", "delete"}
  /\ c.stores \subseteq {"file", "xattr"}
  /\ c.kind \in {"incrInFile", "incrDir"} => c.stores = {"file"}
  /\ c.kind = "put" => c.arg \in Seq(STRING)
  /\ c.kind \in {"putInt", "incrBy", "incrDir"} => c.arg \in Int

Objects(g) ==
  LET cs == UNION {g.ops[p] : p \in Procs}
  IN  {Stored(s, c.attr) : s \in {"file", "xattr"}, c \in cs}

\* A program: the calls of each process, the platforms and places it runs on
\* (partition levels only with paging),
\* the attributes there are with their first text (there are none without the
\* directory), and three bounds: calls by each process, processes that die,
\* writes that fail.
IsProgram(g) ==
  /\ \A p \in Procs : \A c \in g.ops[p] : IsCall(c)
  /\ \A s \in g.settings :
       /\ s.platform \in {"linux", "bsd", "sun", "mac"}
       /\ s.paged \in BOOLEAN /\ s.depth \in Nat
       /\ ~s.paged => s.depth = 0
  /\ g.dir \in BOOLEAN /\ (DOMAIN g.seed # {} => g.dir)
  /\ DOMAIN g.seed \subseteq Objects(g)
  /\ IsFiniteSet(DOMAIN g.seed) /\ Cardinality(DOMAIN g.seed) <= MaxInodes
  /\ \A o \in DOMAIN g.seed : g.seed[o] \in Seq(STRING)
  /\ g.calls \in Nat /\ g.crashes \in Nat /\ g.faults \in Nat

ASSUME ProgramsAssumption == \A g \in Programs : IsProgram(g)
ASSUME InodesAssumption   == MaxInodes \in Nat

Writes(c) == c.kind \in {"put", "putInt", "incrBy", "incrDir", "delete"}

\* What write(2) at an offset makes of a file's bytes; a gap reads as zeros.
WriteAt(old, off, s) ==
  [i \in 1..off |-> IF i <= Len(old) THEN old[i] ELSE "nul"]
    \o s \o SubSeq(old, off + Len(s) + 1, Len(old))

----------------------------------------------------------------------------
(* Moving a process on.                                                    *)

Idle == [pc |-> "idle", fd |-> 0]
Dead == [pc |-> "dead", fd |-> 0]

Goto(p, c) == proc' = [proc EXCEPT ![p] = c]
At(p, pc)  == [proc[p] EXCEPT !.pc = pc]
Stay(p, c) == Goto(p, c) /\ UNCHANGED <<last, acked>>
Errno(p, e) == errno' = [errno EXCEPT ![p] = e]

\* The call is over with result r; s is what it has left in its slot.
Finish(p, r, s) ==
  LET c == proc[p] IN
  /\ proc' = [proc EXCEPT ![p] = Idle]
  /\ last' = [by |-> p, call |-> c, ret |-> r, before |-> acked[Slot(c)]]
  /\ acked' = [acked EXCEPT ![Slot(c)] =
                 IF ~Writes(c) THEN @ ELSE IF c.alone THEN s ELSE Unknown]

\* The directory the process is trying is there.
Here(p) == dir /\ (proc[p].where = "home" \/ setting.depth = 0)

The(p, store)     == Stored(store, proc[p].attr)
Present(p, store) == Here(p) /\ object[The(p, store)] # 0
Bytes(p, store)   == data[object[The(p, store)]]

\* Linux takes no attribute name that is only the prefix "user.".  ENODATA
\* stands for ENOATTR of FreeBSD and Mac OS and ENOENT of Solaris: the callers
\* look only at whether errno is set.
BadName(p)   == setting.platform = "linux" /\ The(p, "xattr")[2] = <<>>
NoXattr(p)   == IF BadName(p) THEN EINVAL ELSE IF Here(p) THEN ENODATA ELSE ENOENT
AtomicXattr  == setting.platform # "sun"

InUse == {object[o] : o \in DOMAIN object} \cup {proc[p].fd : p \in Procs}
Fresh == CHOOSE n \in 1..MaxInodes : n \notin InUse

\* The inode of an attribute that is opened or set.  Bound: one is only made
\* while an inode is left.
FreshLeft == \E n \in 1..MaxInodes : n \notin InUse
Inode(o)  == IF object[o] = 0 THEN Fresh ELSE object[o]
Room(o)   == object[o] = 0 => FreshLeft

FirstRead(st)  == CASE "xattr" \in st -> "size"  [] st = {"file"} -> "open"
                    [] st = {} -> "none"
FirstWrite(st) == CASE "xattr" \in st -> IF AtomicXattr THEN "setxattr" ELSE "truncXattr"
                    [] st = {"file"} -> "trunc"  [] st = {} -> "noWrite"

\* The other processes inside a call on the same attribute.
Others(p, c) == {q \in Procs \ {p} : /\ proc[q].pc \notin {"idle", "dead"}
                                     /\ Slot(proc[q]) = Slot(c)}

\* Call c of process p before its first step.
Begun(p, c) ==
  [kind  |-> c.kind, stores |-> c.stores, attr |-> c.attr, arg |-> c.arg,
   pc    |-> CASE c.kind \in {"get", "getInt", "getCount", "incrBy"}
                                             -> FirstRead(c.stores)
             [] c.kind = "exists"            -> "check"
             [] c.kind \in {"put", "putInt"} -> "find"
             [] c.kind = "delete"            -> "locate"
             [] c.kind = "incrDir"           -> "openRW"
             [] c.kind = "incrInFile"        -> "nullDir",
   where |-> "plain", fd |-> 0, len |-> 0, result |-> 0,
   text  |-> CASE c.kind = "put"    -> c.arg
             [] c.kind = "putInt" -> Decimal(c.arg)
             [] OTHER             -> <<>>,
   found |-> FALSE,
   after |-> last # NULL /\ last.by = p /\ last.call.found,
   alone |-> \A q \in Others(p, c) : ~Writes(proc[q])]

Begin(p, c) ==
  /\ proc[p].pc = "idle" /\ calls[p] < program.calls
  /\ c \in program.ops[p]
  /\ proc' = [q \in Procs |-> IF q = p THEN Begun(p, c)
                              ELSE IF q \in Others(p, c) /\ Writes(c)
                                   THEN [proc[q] EXCEPT !.alone = FALSE]
                                   ELSE proc[q]]
  /\ calls' = [calls EXCEPT ![p] = @ + 1]
  /\ added' = IF c.kind = "incrBy" THEN added + c.arg ELSE added
  /\ UNCHANGED <<program, setting, fsys, errno, last, crashes, faults, tried, acked>>

\* What every step inside a call leaves alone.
Inside == UNCHANGED <<program, setting, calls, crashes, added>>
Local  == Inside /\ UNCHANGED <<fsys, faults, tried>>

----------------------------------------------------------------------------
(* Getting.                                                                *)

\* What a caller of _iGet makes of the text it found, or of NULL.
Answer(p, t) ==
  LET c == proc[p]
      n == IF t = NULL \/ errno[p] # 0 THEN 0 ELSE Strtoll(t).value
      go(r) == Finish(p, r, Unknown)
  IN  CASE c.kind = "get"      -> go(t)
        [] c.kind = "getInt"   -> go(n)
        [] c.kind = "getCount" -> go(IF t = NULL THEN 0
                                     ELSE IF errno[p] # 0 THEN -errno[p]
                                     ELSE IF Strtoll(t).whole THEN n ELSE -1)
        [] c.kind = "incrBy"   ->
             Stay(p, [At(p, "find") EXCEPT !.result = n + c.arg,
                                           !.text = Decimal(n + c.arg)])

NotThere(p) ==
  IF proc[p].kind \in {"exists", "delete"}
  THEN Finish(p, FALSE, acked[Slot(proc[p])]) ELSE Answer(p, NULL)

\* A walk through the levels follows when the plain place has nothing.
Missed(p) ==
  IF proc[p].where = "plain" /\ setting.paged THEN Stay(p, At(p, "walk"))
  ELSE NotThere(p)

AfterXattr(p) ==
  IF "file" \in proc[p].stores THEN Stay(p, At(p, "open")) ELSE Missed(p)

\* No store was asked for.
NoRead(p) == /\ proc[p].pc = "none" /\ Local /\ UNCHANGED errno
             /\ Missed(p)

\* GetXattr asks for the size first.
XattrSize(p) ==
  /\ proc[p].pc = "size" /\ Local
  /\ IF Present(p, "xattr")
     THEN LET n == Len(Bytes(p, "xattr")) IN
          /\ UNCHANGED errno
          /\ IF n = 0 THEN Answer(p, <<>>)
             ELSE Stay(p, [At(p, IF AtomicXattr THEN "value" ELSE "openXattr")
                             EXCEPT !.len = n])
     ELSE Errno(p, NoXattr(p)) /\ AfterXattr(p)

\* Mutant: the value is not cut to what was read.
LinuxValueLong(b, n) == IF Len(b) <= n THEN b \o [i \in 1..n - Len(b) |-> "nul"] ELSE NULL

\* getxattr(2) into n bytes: a longer value does not fit.
LinuxValue(b, n) == IF Len(b) <= n THEN b ELSE NULL

\* extattr_get_file into n bytes: a longer value is cut.
BsdValue(b, n) == SubSeq(b, 1, Min({n, Len(b)}))

\* Then GetXattr asks for as many bytes.
XattrValue(p) ==
  LET n == proc[p].len
      b == Bytes(p, "xattr")
      v == IF setting.platform = "bsd" THEN BsdValue(b, n) ELSE LinuxValue(b, n)
  IN
  /\ proc[p].pc = "value" /\ Local
  /\ IF Present(p, "xattr") /\ v # NULL
     THEN Answer(p, v) /\ UNCHANGED errno
     ELSE /\ Errno(p, IF Present(p, "xattr") THEN ERANGE ELSE NoXattr(p))
          /\ AfterXattr(p)

\* On Solaris an attribute is a file of its own.
Open(p, store) ==
  /\ proc[p].pc = IF store = "xattr" THEN "openXattr" ELSE "open"
  /\ Local
  /\ IF Present(p, store)
     THEN /\ Stay(p, [At(p, IF store = "xattr" THEN "read" ELSE "seek")
                       EXCEPT !.fd = object[The(p, store)]])
          /\ UNCHANGED errno
     ELSE /\ Errno(p, ENOENT)
          /\ IF store = "xattr" THEN AfterXattr(p) ELSE Missed(p)

Seek(p) ==
  /\ proc[p].pc = "seek" /\ Local /\ UNCHANGED errno
  /\ Stay(p, [At(p, "read") EXCEPT !.len = Len(data[proc[p].fd])])

Read(p) ==
  LET b == data[proc[p].fd] IN
  /\ proc[p].pc = "read" /\ Local /\ UNCHANGED errno
  /\ Answer(p, SubSeq(b, 1, Min({proc[p].len, Len(b)})))

\* iIsKeyDirExists: errno is cleared, then set by every level that does not
\* have the key.
Walk(p) ==
  LET found == dir /\ setting.depth > 0 IN
  /\ proc[p].pc = "walk" /\ Local
  /\ Errno(p, IF found /\ setting.depth = 1 THEN 0 ELSE ENOENT)
  /\ IF found
     THEN LET next == CASE proc[p].kind = "exists" -> "check"
                        [] proc[p].kind = "delete" -> "remove"
                        [] OTHER                   -> FirstRead(proc[p].stores)
          IN  Stay(p, [At(p, next) EXCEPT !.where = "home"])
     ELSE NotThere(p)

----------------------------------------------------------------------------
(* Asking, putting, deleting.                                              *)

\* _AttrIsExists: with both stores only the extended attribute counts.
Check(p) ==
  LET st == proc[p].stores
      yes == CASE "xattr" \in st -> Present(p, "xattr")
               [] st = {"file"}  -> Present(p, "file")
               [] st = {}        -> FALSE
  IN
  /\ proc[p].pc = "check" /\ Local
  /\ Errno(p, IF yes THEN IF proc[p].arg = "clear" THEN 0 ELSE errno[p]
              ELSE IF st = {} THEN ENOEXEC
              ELSE IF st = {"file"} THEN ENOENT ELSE NoXattr(p))
  /\ IF yes THEN Finish(p, TRUE, Unknown) ELSE Missed(p)

\* Mutant: errno is not cleared.
ErrnoKept(p) == IF dir /\ setting.depth = 0 THEN errno[p] ELSE ENOENT

\* iFindKeyDirToPut clears errno; a key that is not there sets it.
ErrnoOfPlace(p) ==
  IF dir /\ setting.depth = 0 THEN IF setting.paged THEN 0 ELSE errno[p] ELSE ENOENT

\* Mutant: the directory is not made.
AtPlaceOnly(p) == FirstWrite(proc[p].stores)

AtPlace(p) == IF dir THEN FirstWrite(proc[p].stores) ELSE "mkdir"

FindPlace(p) ==
  /\ proc[p].pc = "find" /\ Inside
  /\ UNCHANGED <<fsys, faults>>
  /\ Errno(p, ErrnoOfPlace(p))
  /\ tried' = [tried EXCEPT ![Slot(proc[p])] = @ \cup {proc[p].text}]
  /\ Stay(p, [At(p, AtPlace(p)) EXCEPT !.where = "home", !.found = dir])

MakeDir(p) ==
  /\ proc[p].pc = "mkdir" /\ Inside
  /\ dir' = TRUE
  /\ \E e \in {errno[p]} \cup IF dir THEN {EEXIST} ELSE {} : Errno(p, e)
  /\ Stay(p, At(p, FirstWrite(proc[p].stores)))
  /\ UNCHANGED <<object, data, faults, tried>>

\* A put has come to its end; an increment does not look at how it ended.
PutDone(p, r) ==
  LET left == IF r = 0 THEN proc[p].text ELSE Unknown IN
  Finish(p, IF proc[p].kind = "incrBy" THEN proc[p].result ELSE r, left)

NoWrite(p) == /\ proc[p].pc = "noWrite" /\ Local /\ UNCHANGED errno
              /\ PutDone(p, ENOEXEC)

\* The result of the attribute is lost when a file follows.
AfterSet(p, r) ==
  IF "file" \in proc[p].stores THEN Stay(p, At(p, "trunc")) ELSE PutDone(p, r)

\* Mutant: the new value is put behind the old one.
SetAppend(old, new) == old \o new

\* setxattr(2) replaces the value.
SetValue(old, new) == new

SetXattr(p) ==
  LET o == The(p, "xattr")
      n == Inode(o)
  IN
  /\ proc[p].pc = "setxattr" /\ Inside
  /\ \/ /\ ~BadName(p) /\ Room(o)
        /\ object' = [object EXCEPT ![o] = n]
        /\ data' = [data EXCEPT ![n] =
                      SetValue(IF object[o] = 0 THEN <<>> ELSE @, proc[p].text)]
        /\ AfterSet(p, 0)
        /\ UNCHANGED <<dir, errno, faults, tried>>
     \/ /\ BadName(p) /\ Errno(p, EINVAL) /\ AfterSet(p, EINVAL)
        /\ UNCHANGED <<fsys, faults, tried>>
     \/ /\ ~BadName(p) /\ faults < program.faults
        /\ faults' = faults + 1 /\ Errno(p, ENOSPC) /\ AfterSet(p, ENOSPC)
        /\ UNCHANGED <<fsys, tried>>

\* Mutant: what a file holds is kept.
OpenedKeeping(old) == old

\* What O_TRUNC leaves.
Opened(old) == <<>>

\* open with O_CREAT|O_TRUNC: of a value file, or of an attribute on Solaris.
Truncate(p, store) ==
  LET o == The(p, store)
      n == Inode(o)
  IN
  /\ proc[p].pc = IF store = "xattr" THEN "truncXattr" ELSE "trunc"
  /\ Inside /\ Room(o)
  /\ object' = [object EXCEPT ![o] = n]
  /\ data' = [data EXCEPT ![n] = IF object[o] = 0 THEN <<>> ELSE Opened(@)]
  /\ Stay(p, [At(p, IF store = "xattr" THEN "writeXattr" ELSE "write") EXCEPT !.fd = n])
  /\ UNCHANGED <<dir, errno, faults, tried>>

\* A write that fails has written nothing.
Write(p, store) ==
  LET after(r) == IF store = "xattr" THEN AfterSet(p, r) ELSE PutDone(p, r) IN
  /\ proc[p].pc = IF store = "xattr" THEN "writeXattr" ELSE "write"
  /\ Inside
  /\ \/ /\ data' = [data EXCEPT ![proc[p].fd] = WriteAt(@, 0, proc[p].text)]
        /\ after(0)
        /\ UNCHANGED <<dir, object, errno, faults, tried>>
     \/ /\ faults < program.faults
        /\ faults' = faults + 1 /\ Errno(p, ENOSPC)
        /\ after(IF store = "xattr" THEN ENOSPC ELSE 1)
        /\ UNCHANGED <<fsys, tried>>

\* iDelete looks for a directory first, for the attribute only there.
Locate(p) ==
  LET here == dir /\ setting.depth = 0 IN
  /\ proc[p].pc = "locate" /\ Local
  /\ Errno(p, IF here THEN errno[p] ELSE ENOENT)
  /\ Stay(p, At(p, IF here \/ ~setting.paged THEN "remove" ELSE "walk"))

\* _DeleleAttr: with both stores only the extended attribute goes.
\* iDeleteInXattr keeps the error in a bool, so that errno becomes 1.
DeleteAttr(p) ==
  LET st    == proc[p].stores
      store == IF "xattr" \in st THEN "xattr" ELSE "file"
  IN
  /\ proc[p].pc = "remove" /\ Inside
  /\ IF st # {} /\ Present(p, store)
     THEN /\ object' = [object EXCEPT ![The(p, store)] = 0]
          /\ Finish(p, TRUE, IF Cardinality(st) = 1 THEN NULL ELSE Unknown)
          /\ UNCHANGED errno
     ELSE /\ Errno(p, IF st = {} THEN ENOEXEC
                      ELSE IF proc[p].arg = "cut" THEN EPERM
                      ELSE IF store = "file" THEN ENOENT ELSE NoXattr(p))
          /\ Finish(p, FALSE, acked[Slot(proc[p])])
          /\ UNCHANGED object
  /\ UNCHANGED <<dir, data, faults, tried>>

----------------------------------------------------------------------------
(* IncrByDirValue, on the directory itself, and what is built on it.       *)

\* The directory itself is named.
OpenRW(p) ==
  LET o == The(p, "file")
      n == Inode(o)
  IN
  /\ proc[p].pc = "openRW" /\ Inside
  /\ IF dir
     THEN /\ Room(o)
          /\ object' = [object EXCEPT ![o] = n]
          /\ data' = IF object[o] = 0 THEN [data EXCEPT ![n] = <<>>] ELSE data
          /\ Stay(p, [At(p, "seekRW") EXCEPT !.fd = n])
          /\ UNCHANGED errno
     ELSE /\ Errno(p, ENOENT) /\ Finish(p, 0, acked[Slot(proc[p])])
          /\ UNCHANGED <<object, data>>
  /\ UNCHANGED <<dir, faults, tried>>

SeekRW(p) ==
  LET n == Len(data[proc[p].fd]) IN
  /\ proc[p].pc = "seekRW" /\ Local /\ UNCHANGED errno
  /\ Stay(p, [At(p, IF n = 0 THEN "writeRW" ELSE "readRW") EXCEPT
                !.len = n, !.result = proc[p].arg, !.text = Decimal(proc[p].arg)])

\* The bytes are read over the start of the file's path: strtoll may go on
\* into what is left of it.
ReadRW(p) ==
  LET b == data[proc[p].fd]
      t == SubSeq(b, 1, Min({proc[p].len, Len(b)}))
      n == IF errno[p] # 0 THEN proc[p].arg
           ELSE proc[p].arg + Strtoll(t \o SubSeq(setting.path, Len(t) + 1,
                                                  Len(setting.path))).value
  IN
  /\ proc[p].pc = "readRW" /\ Local /\ Errno(p, 0)
  /\ Stay(p, [At(p, "writeRW") EXCEPT !.len = Len(t), !.result = n, !.text = Decimal(n)])

\* The new number goes where the reading stopped: behind the old one.
WriteRW(p) ==
  LET c == proc[p]
      left == CASE acked[Slot(c)] = NULL    -> c.text
                [] acked[Slot(c)] = Unknown -> Unknown
                [] OTHER                    -> acked[Slot(c)] \o c.text
  IN
  /\ c.pc = "writeRW" /\ Inside
  /\ data' = [data EXCEPT ![c.fd] = WriteAt(@, c.len, c.text)]
  /\ tried' = [tried EXCEPT ![Slot(c)] = @ \cup {c.text}]
  /\ Finish(p, c.result, left)
  /\ UNCHANGED <<dir, object, errno, faults>>

\* iIncrByInFile asks for a directory of no name: the process dies.
NullDir(p) ==
  /\ proc[p].pc = "nullDir" /\ Local /\ UNCHANGED <<errno, last, acked>>
  /\ proc' = [proc EXCEPT ![p] = Dead]

Crash(p) ==
  /\ proc[p].pc \notin {"idle", "dead"} /\ crashes < program.crashes
  /\ crashes' = crashes + 1
  /\ proc' = [proc EXCEPT ![p] = Dead]
  /\ acked' = [acked EXCEPT ![Slot(proc[p])] = IF Writes(proc[p]) THEN Unknown ELSE @]
  /\ UNCHANGED <<program, setting, fsys, errno, last, calls, faults, tried, added>>

----------------------------------------------------------------------------
\* A program starts with the directory made or not, and with the texts of
\* g.seed stored.
Init ==
  /\ program \in Programs
  /\ setting \in program.settings
  /\ dir = program.dir
  /\ LET seeds == SetToSeq(DOMAIN program.seed)
         inode(o) == Max({0} \cup {i \in DOMAIN seeds : seeds[i] = o})
     IN
     /\ object = [o \in Objects(program) |-> inode(o)]
     /\ data = [n \in 1..MaxInodes |->
                  IF n \in DOMAIN seeds THEN program.seed[seeds[n]] ELSE <<>>]
     /\ tried = [o \in Objects(program) |->
                   IF inode(o) = 0 THEN {} ELSE {program.seed[o]}]
     /\ acked = [o \in Objects(program) |->
                   IF inode(o) = 0 THEN NULL ELSE program.seed[o]]
  /\ errno = [p \in Procs |-> 0]
  /\ proc = [p \in Procs |-> Idle]
  /\ last = NULL
  /\ calls = [p \in Procs |-> 0]
  /\ crashes = 0 /\ faults = 0 /\ added = 0

Get(p) ==
  \/ NoRead(p) \/ XattrSize(p) \/ XattrValue(p)
  \/ Open(p, "xattr") \/ Open(p, "file") \/ Seek(p) \/ Read(p) \/ Walk(p)

Put(p) ==
  \/ FindPlace(p) \/ MakeDir(p) \/ NoWrite(p) \/ SetXattr(p)
  \/ Truncate(p, "xattr") \/ Write(p, "xattr")
  \/ Truncate(p, "file")  \/ Write(p, "file")

IncrDir(p) == OpenRW(p) \/ SeekRW(p) \/ ReadRW(p) \/ WriteRW(p) \/ NullDir(p)

Next ==
  \E p \in Procs :
    \/ \E c \in program.ops[p] : Begin(p, c)
    \/ Get(p) \/ Check(p) \/ Put(p) \/ Locate(p) \/ DeleteAttr(p) \/ IncrDir(p)
    \/ Crash(p)

Spec == Init /\ [][Next]_vars

----------------------------------------------------------------------------
(* Properties.                                                             *)

\* Every stored attribute has an inode of its own, and a process that reads
\* or writes one has it open (the type invariant).
TypeOK ==
  /\ \A o, q \in DOMAIN object : object[o] = object[q] /\ object[o] # 0 => o = q
  /\ \A o \in DOMAIN object : object[o] # 0 => dir
  /\ \A p \in Procs :
       /\ proc[p].pc \in {"seek", "read", "write", "writeXattr", "seekRW", "readRW",
                          "writeRW"} => proc[p].fd # 0
       /\ errno[p] \in {0, EPERM, ENOENT, ENOEXEC, EEXIST, EINVAL, ENOSPC, ERANGE, ENODATA}

\* A call that no write of the same attribute overlaps answers by what the
\* last writes left, on every platform and at every place: iGet returns that
\* text (after IncrByDirValue the old number's digits and the new one's),
\* iIsExists says whether there is one.  With both stores this holds as
\* long as no write fails.
QuietAnswers ==
  LET c == last.call
      known == c.alone /\ last.before # Unknown
                 /\ (Cardinality(c.stores) = 1 \/ faults = 0)
  IN  last # NULL /\ known =>
        /\ c.kind = "get"    => last.ret = last.before
        /\ c.kind = "exists" => last.ret = (last.before # NULL)

\* The size and the value are two calls, and writers run between them: what
\* iGet returns from the extended attributes is still a text that somebody
\* put, on FreeBSD the beginning of one.  (On Solaris two writers can mix.)
XattrProvenance ==
  LET c == last.call
      put(t) == \E u \in tried[Slot(c)] : IF setting.platform = "bsd"
                                          THEN IsPrefix(t, u) ELSE t = u
  IN  last # NULL /\ AtomicXattr /\ c.kind = "get" /\ c.stores = {"xattr"}
        => last.ret = NULL \/ put(last.ret)

\* Increments of two processes may be lost, but where an attribute is set in
\* one call a counter never runs ahead of them.
CounterNeverAhead ==
  AtomicXattr /\ program.counts =>
    \A o \in DOMAIN object : object[o] # 0 =>
      Strtoll(data[object[o]]).value <= program.start + added

\* A process that has just written an attribute whose directory was there
\* finds errno clean in a paged store, so its next increment counts, unless
\* the directory is two or more levels down.
RewrittenCounterCounts ==
  LET c == last.call IN
  last # NULL /\ c.kind = "incrBy" /\ c.alone /\ c.after
    /\ last.before \notin {NULL, Unknown} /\ Cardinality(c.stores) = 1
    /\ setting.paged /\ setting.depth < 2 /\ faults = 0
    => last.ret = Strtoll(last.before).value + c.arg

\* What test_putInt (src/src/idb_helpers.c) takes for granted: the number
\* that was put is the number that iGetInt reads.
NumberPutIsRead ==
  LET c == last.call IN
  last # NULL /\ c.kind = "getInt" /\ c.alone /\ last.before \notin {NULL, Unknown}
    => last.ret = Strtoll(last.before).value

============================================================================
