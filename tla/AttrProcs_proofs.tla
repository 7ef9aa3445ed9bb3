-------------------------- MODULE AttrProcs_proofs --------------------------
(***************************************************************************)
(* Proofs about the attributes of one key: every stored attribute keeps an *)
(* inode of its own, and what a get finds in an extended attribute is a    *)
(* text that somebody put, for any number of processes, attributes and     *)
(* calls and however their system calls interleave.                        *)
(***************************************************************************)
EXTENDS AttrProcs, FiniteSetTheorems, SequenceTheorems, WellFoundedInduction, TLAPS

----------------------------------------------------------------------------
(* The inductive invariant, part by part.                                  *)

IsText(t) == \E S : t \in Seq(S)
Errnos    == {0, EPERM, ENOENT, ENOEXEC, EEXIST, EINVAL, ENOSPC, ERANGE, ENODATA}
FdPcs     == {"seek", "read", "write", "writeXattr", "seekRW", "readRW", "writeRW"}
GetPcs    == {"none", "size", "value", "openXattr", "open", "seek", "read"}
Getting   == {"get", "getInt", "getCount", "incrBy"}
DirPcs    == {"setxattr", "truncXattr", "writeXattr", "trunc"}
SunPcs    == {"openXattr", "truncXattr", "writeXattr"}

\* A call of the program of process p, with what the steps have added.
IsCallOf(p, c) ==
  /\ c = [kind |-> c.kind, stores |-> c.stores, attr |-> c.attr, arg |-> c.arg,
          pc |-> c.pc, where |-> c.where, fd |-> c.fd, len |-> c.len,
          result |-> c.result, text |-> c.text, found |-> c.found,
          after |-> c.after, alone |-> c.alone]
  /\ \E b \in program.ops[p] : c.kind = b.kind /\ c.stores = b.stores /\ c.attr = b.attr
  /\ IsText(c.text)

\* What its next system call says about a call.
Fits(c) ==
  /\ c.pc \notin {"idle", "dead"}
  /\ c.kind = "get" => c.pc \in GetPcs \cup {"walk"}
  /\ c.pc \in GetPcs => c.kind \in Getting
  /\ c.pc = "walk" => c.kind \in Getting \cup {"exists", "delete"}
  /\ c.pc = "check" => c.kind = "exists"
  /\ c.pc \in {"locate", "remove"} => c.kind = "delete"
  /\ c.pc \in {"open", "seek"} => "file" \in c.stores
  /\ c.pc \in SunPcs => ~AtomicXattr
  /\ c.pc = "read" => "file" \in c.stores \/ ~AtomicXattr
  /\ c.pc = "setxattr" => "xattr" \in c.stores
  /\ c.pc = "value" => c.len \in Nat
  /\ c.pc \in {"mkdir", "setxattr"} => c.text \in tried[Slot(c)]
  /\ c.pc \in DirPcs => dir
  /\ c.pc \in FdPcs => c.fd # 0
  /\ c.fd \in 0..MaxInodes

CallOK(p, c) == IsCallOf(p, c) /\ Fits(c)

ProcsOK == /\ proc = [p \in Procs |-> proc[p]]
           /\ \A p \in Procs : proc[p] \in {Idle, Dead} \/ CallOK(p, proc[p])

\* The attributes of the key, and their inodes.
StateOK ==
  /\ program \in Programs /\ setting \in program.settings
  /\ object \in [Objects(program) -> 0..MaxInodes]
  /\ data = [n \in 1..MaxInodes |-> data[n]]
  /\ errno \in [Procs -> Errnos]
  /\ tried = [o \in Objects(program) |-> tried[o]]
  /\ \A o \in Objects(program) : \A t \in tried[o] : IsText(t)
  /\ \A o \in Objects(program) : object[o] # 0 => dir
  /\ \A o, q \in Objects(program) : object[o] = object[q] /\ object[o] # 0 => o = q

\* Where an extended attribute is set in one call it holds a text that was
\* put to it, and no call has it open.
Xattrs      == {o \in Objects(program) : o[1] = "xattr"}
NotXattr(n) == \A o \in Xattrs : object[o] # 0 => object[o] # n
TextsOK     == AtomicXattr =>
                 \A o \in Xattrs : object[o] # 0 => data[object[o]] \in tried[o]
FdsOK       == AtomicXattr => \A p \in Procs : NotXattr(proc[p].fd)

\* What a call returns, with the texts put to its attribute so far.
Put1(t, c)     == \E u \in tried[Slot(c)] :
                    IF setting.platform = "bsd" THEN IsPrefix(t, u) ELSE t = u
AnswerOK(c, r) == AtomicXattr /\ c.kind = "get" /\ c.stores = {"xattr"}
                    => /\ Slot(c) \in Objects(program)
                       /\ r = NULL \/ Put1(r, c)
LastOK         == last # NULL => AnswerOK(last.call, last.ret)

Inv == StateOK /\ ProcsOK /\ TextsOK /\ FdsOK /\ LastOK

----------------------------------------------------------------------------
(* Texts, names, inodes.                                                   *)

(* A non-empty set of naturals has a least element.                        *)
LEMMA LeastOfNats ==
  ASSUME NEW S \in SUBSET Nat, S # {}
  PROVE  \E x \in S : \A y \in S : x <= y
<1>1. PICK x \in S : \A y \in S : ~(<<y, x>> \in OpToRel(<, Nat))
  BY NatLessThanWellFounded, WFMin
<1>2. \A y \in S : ~(y < x)
  BY <1>1 DEF OpToRel
<1> QED BY <1>2

(* A bounded one has a largest.                                            *)
LEMMA MaxOfNats ==
  ASSUME NEW L \in Nat, NEW S \in SUBSET (0..L), S # {}
  PROVE  Max(S) \in S /\ \A y \in S : Max(S) >= y
<1> DEFINE U == {L - y : y \in S}
<1>1. U \in SUBSET Nat /\ U # {}
  <2>1. \A y \in S : y \in Nat /\ L - y \in Nat
    OBVIOUS
  <2> QED BY <2>1
<1> HIDE DEF U
<1>2. PICK x \in U : \A y \in U : x <= y
  BY <1>1, LeastOfNats
<1>3. PICK z \in S : x = L - z
  BY <1>2 DEF U
<1>4. \A y \in S : z >= y
  <2> SUFFICES ASSUME NEW y \in S PROVE z >= y
    OBVIOUS
  <2>1. L - y \in U
    BY DEF U
  <2>2. L - z <= L - y
    BY <1>2, <1>3, <2>1
  <2> QED BY <2>2
<1> QED BY <1>4 DEF Max

(* What "%lld" prints is a text.                                           *)
LEMMA DecimalIsText == ASSUME NEW n PROVE IsText(Decimal(n))
<1>1. PICK w, f : /\ w \in 1..19 /\ f = [i \in 1..w |-> f[i]]
                  /\ Decimal(n) = (IF n < 0 THEN <<"-">> ELSE <<>>) \o f
  <2> DEFINE r == CHOOSE r : r = [i \in 0..19 |->
                    IF i = 0 THEN IF n < 0 THEN -n ELSE n ELSE r[i - 1] \div 10]
             W == {i \in 1..19 : i = 1 \/ r[i - 1] > 0}
             g == [i \in 1..Max(W) |-> Digit[1 + (r[Max(W) - i] % 10)]]
  <2>1. Decimal(n) = (IF n < 0 THEN <<"-">> ELSE <<>>) \o g
    BY DEF Decimal
  <2>2. W \in SUBSET (0..19) /\ 1 \in W
    OBVIOUS
  <2> HIDE DEF W
  <2>3. Max(W) \in 1..19
    BY <2>2, MaxOfNats DEF W
  <2>4. g = [i \in 1..Max(W) |-> g[i]]
    OBVIOUS
  <2> HIDE DEF g
  <2> QED BY <2>1, <2>3, <2>4
<1> DEFINE S == {"-"} \cup {f[i] : i \in 1..w}
<1>2. f \in Seq(S)
  <2>1. \A i \in 1..w : f[i] \in S
    OBVIOUS
  <2> HIDE DEF S
  <2>2. w \in Nat
    BY <1>1
  <2>3. [i \in 1..w |-> f[i]] \in Seq(S)
    BY <2>1, <2>2
  <2> QED BY <1>1, <2>3
<1>3. <<"-">> \in Seq(S) /\ <<>> \in Seq(S)
  OBVIOUS
<1> HIDE DEF S
<1>4. Decimal(n) \in Seq(S)
  BY <1>1, <1>2, <1>3, ConcatProperties
<1> QED BY <1>4 DEF IsText

LEMMA TheType ==
  ASSUME NEW g, NEW p \in Procs, NEW b \in g.ops[p], NEW s \in {"file", "xattr"}
  PROVE  Stored(s, b.attr) \in Objects(g)
BY DEF Objects

LEMMA StoredStore ==
  ASSUME NEW s, NEW a
  PROVE  Stored(s, a)[1] = s
BY DEF Stored

(* A call's attributes are among those of the program.                     *)
LEMMA TheObject ==
  ASSUME NEW p \in Procs, NEW c, IsCallOf(p, c), NEW s \in {"file", "xattr"}
  PROVE  /\ Stored(s, c.attr) \in Objects(program)
         /\ Slot(c) \in Objects(program)
BY TheType DEF IsCallOf, Slot

LEMMA FreshInode ==
  ASSUME FreshLeft
  PROVE  Fresh \in 1..MaxInodes /\ Fresh \notin InUse
BY DEF FreshLeft, Fresh

LEMMA InodeType ==
  ASSUME StateOK, NEW o \in Objects(program), Room(o)
  PROVE  /\ Inode(o) \in 1..MaxInodes /\ Inode(o) # 0
         /\ \A q \in Objects(program) \ {o} : object[q] # Inode(o)
         /\ object[o] # 0 => Inode(o) = object[o]
         /\ object[o] = 0 => \A p \in Procs : proc[p].fd # Inode(o)
<1>1. CASE object[o] = 0
  <2>1. Inode(o) \in 1..MaxInodes /\ Inode(o) \notin InUse
    BY <1>1, FreshInode DEF Room, Inode
  <2> QED BY <1>1, <2>1, InodesAssumption DEF InUse, StateOK
<1>2. CASE object[o] # 0
  BY <1>2, InodesAssumption DEF Inode, StateOK
<1> QED BY <1>1, <1>2

----------------------------------------------------------------------------
(* How a step of process p may end: the call goes on, it returns, or the   *)
(* process dies.                                                           *)

\* After the step n is not the inode of an extended attribute.
Apart(n)   == \A o \in Xattrs : object'[o] # 0 => object'[o] # n

GoesOn(p)  == \E c : /\ proc' = [proc EXCEPT ![p] = c]
                     /\ CallOK(p, c)'
                     /\ last' = last
                     /\ AtomicXattr => c.fd = proc[p].fd \/ Apart(c.fd)
Returns(p) == /\ proc' = [proc EXCEPT ![p] = Idle]
              /\ last'.call = proc[p]
              /\ AnswerOK(proc[p], last'.ret)
Dies(p)    == proc' = [proc EXCEPT ![p] = Dead] /\ last' = last
Ends(p)    == GoesOn(p) \/ Returns(p) \/ Dies(p)

\* What the steps inside a call have in common.
Grows == /\ program' = program /\ setting' = setting
         /\ dir => dir'
         /\ \A o \in Objects(program) : tried[o] \subseteq tried'[o]

LEMMA InCallOK ==
  ASSUME ProcsOK, NEW p \in Procs, proc[p].pc \notin {"idle", "dead"}
  PROVE  CallOK(p, proc[p])
BY DEF ProcsOK, Idle, Dead

LEMMA SameCall ==
  ASSUME Grows, NEW p \in Procs, NEW c, CallOK(p, c)
  PROVE  CallOK(p, c)'
<1>1. Slot(c) \in Objects(program)
  BY TheObject DEF CallOK
<1> QED BY <1>1 DEF Grows, CallOK, IsCallOf, Fits, AtomicXattr

LEMMA SameAnswer ==
  ASSUME Grows, NEW c, NEW r, AnswerOK(c, r)
  PROVE  AnswerOK(c, r)'
BY DEF Grows, AnswerOK, Put1, AtomicXattr

(* An extended attribute keeps its inode, or gets one that nobody has open. *)
FreeInodes == \A o \in Xattrs : object'[o] # 0 =>
                \/ object'[o] = object[o]
                \/ \A q \in Procs : proc[q].fd # object'[o]

LEMMA EndsClosed ==
  ProcsOK /\ FdsOK /\ Grows /\ FreeInodes /\ (\E p \in Procs : Ends(p)) => FdsOK'
<1> SUFFICES ASSUME ProcsOK, FdsOK, Grows, FreeInodes, NEW p \in Procs, Ends(p),
                    AtomicXattr, NEW q \in Procs
             PROVE  Apart(proc'[q].fd)
  BY DEF FdsOK, AtomicXattr, Grows, NotXattr, Apart, Xattrs
<1>1. Apart(0)
  BY DEF Apart
<1>2. Apart(proc[q].fd)
  BY DEF FdsOK, NotXattr, Apart, FreeInodes
<1>3. \A c : proc' = [proc EXCEPT ![p] = c] =>
               proc'[q] = IF q = p THEN c ELSE proc[q]
  BY DEF ProcsOK
<1>4. CASE GoesOn(p)
  BY <1>2, <1>3, <1>4 DEF GoesOn
<1>5. CASE Returns(p) \/ Dies(p)
  BY <1>1, <1>2, <1>3, <1>5 DEF Returns, Dies, Idle, Dead
<1> QED BY <1>4, <1>5 DEF Ends

(* Whatever way a step ends, the processes stay well formed, and so does   *)
(* the last answer.                                                        *)
LEMMA EndsWell ==
  ProcsOK /\ LastOK /\ Grows /\ (\E p \in Procs : Ends(p))
    => ProcsOK' /\ LastOK'
<1> SUFFICES ASSUME ProcsOK, LastOK, Grows, NEW p \in Procs, Ends(p)
             PROVE  ProcsOK' /\ LastOK'
  OBVIOUS
<1>1. ASSUME NEW c, proc' = [proc EXCEPT ![p] = c], c \in {Idle, Dead} \/ CallOK(p, c)'
      PROVE  ProcsOK'
  <2>1. proc' = [q \in Procs |-> proc'[q]]
    BY <1>1 DEF ProcsOK
  <2>2. ASSUME NEW q \in Procs PROVE proc'[q] \in {Idle, Dead} \/ CallOK(q, proc[q])'
    <3>1. CASE q = p
      <4>1. proc'[p] = c
        BY <1>1 DEF ProcsOK
      <4>2. CASE CallOK(p, c)'
        BY <3>1, <4>1, <4>2 DEF CallOK, IsCallOf, Fits
      <4> QED BY <1>1, <3>1, <4>1, <4>2
    <3>2. CASE q # p
      <4>1. PICK d : d = proc[q] /\ proc'[q] = d
        BY <1>1, <3>2 DEF ProcsOK
      <4>2. d \in {Idle, Dead} \/ CallOK(q, d)
        BY <4>1 DEF ProcsOK
      <4>3. d \in {Idle, Dead} \/ CallOK(q, d)'
        BY <4>2, SameCall
      <4> QED BY <4>1, <4>3 DEF CallOK, IsCallOf, Fits
    <3> QED BY <3>1, <3>2
  <2> QED BY <2>1, <2>2 DEF ProcsOK
<1>2. ProcsOK'
  BY <1>1 DEF Ends, GoesOn, Returns, Dies
<1>3. ASSUME last' = last PROVE LastOK'
  <2>1. PICK c, r : c = last.call /\ r = last.ret
    OBVIOUS
  <2>2. last # NULL => AnswerOK(c, r)
    BY <2>1 DEF LastOK
  <2>3. last # NULL => AnswerOK(c, r)'
    BY <2>2, SameAnswer
  <2> QED BY <1>3, <2>1, <2>3 DEF LastOK, AnswerOK, Put1
<1>4. ASSUME Returns(p) PROVE LastOK'
  <2>1. PICK c, r : c = last'.call /\ r = last'.ret
    OBVIOUS
  <2>2. AnswerOK(c, r)
    BY <1>4, <2>1 DEF Returns
  <2>3. AnswerOK(c, r)'
    BY <2>2, SameAnswer
  <2> QED BY <2>1, <2>3 DEF LastOK, AnswerOK, Put1
<1> QED BY <1>2, <1>3, <1>4 DEF Ends, GoesOn, Dies

LEMMA Goes ==
  ASSUME Grows, NEW p \in Procs, NEW d, IsCallOf(p, d), Fits(d)',
         proc' = [proc EXCEPT ![p] = d], last' = last,
         AtomicXattr => d.fd = proc[p].fd \/ Apart(d.fd)
  PROVE  Ends(p)
BY DEF Grows, CallOK, IsCallOf, Ends, GoesOn

(* A call that is moved to another system call is the same call.           *)
LEMMA AtFields ==
  ASSUME NEW p \in Procs, NEW c, IsCallOf(p, c), NEW pc, NEW d, d = [c EXCEPT !.pc = pc]
  PROVE  /\ IsCallOf(p, d) /\ d.pc = pc
         /\ d.kind = c.kind /\ d.stores = c.stores /\ d.attr = c.attr /\ d.arg = c.arg
         /\ d.where = c.where /\ d.fd = c.fd /\ d.len = c.len /\ d.result = c.result
         /\ d.text = c.text /\ d.found = c.found /\ d.after = c.after
         /\ d.alone = c.alone /\ Slot(d) = Slot(c)
BY DEF IsCallOf, Slot

LEMMA NullAnswer ==
  ASSUME NEW p \in Procs, NEW c, IsCallOf(p, c)
  PROVE  AnswerOK(c, NULL)
BY TheObject DEF AnswerOK

(* The answers: all but that of a get are numbers, or the start of a put.  *)
LEMMA AnswerEnds ==
  ASSUME Grows, NEW p \in Procs, CallOK(p, proc[p]), proc[p].kind \in Getting,
         NEW t, Answer(p, t), AnswerOK(proc[p], t)
  PROVE  Ends(p)
<1>1. CASE proc[p].kind = "get"
  BY <1>1 DEF Answer, Finish, Ends, Returns
<1>2. CASE proc[p].kind \in {"getInt", "getCount"}
  <2>1. \E r : Finish(p, r, Unknown)
    BY <1>2 DEF Answer
  <2> QED BY <1>2, <2>1 DEF Finish, Ends, Returns, AnswerOK
<1>3. CASE proc[p].kind = "incrBy"
  <2>1. PICK n : Stay(p, [At(p, "find") EXCEPT !.result = n, !.text = Decimal(n)])
    BY <1>3 DEF Answer
  <2>2. PICK c : c = proc[p]
    OBVIOUS
  <2>3. PICK e : e = [c EXCEPT !.pc = "find"]
    OBVIOUS
  <2>4. PICK d : d = [e EXCEPT !.result = n, !.text = Decimal(n)]
    OBVIOUS
  <2>5. IsCallOf(p, c) /\ Fits(c)
    BY <2>2 DEF CallOK
  <2>6. IsCallOf(p, e) /\ e.pc = "find" /\ e.kind = c.kind /\ e.fd = c.fd
    BY <2>3, <2>5, AtFields
  <2>7. IsText(Decimal(n))
    BY DecimalIsText
  <2>8. IsCallOf(p, d) /\ d.pc = "find" /\ d.kind = c.kind /\ d.fd = c.fd
    BY <2>4, <2>6, <2>7 DEF IsCallOf
  <2>9. Fits(d)'
    BY <1>3, <2>2, <2>5, <2>8 DEF Fits, GetPcs, SunPcs, DirPcs, FdPcs
  <2>10. proc' = [proc EXCEPT ![p] = d] /\ last' = last
    BY <2>1, <2>2, <2>3, <2>4 DEF Stay, Goto, At
  <2> QED BY <2>2, <2>8, <2>9, <2>10, Goes
<1> QED BY <1>1, <1>2, <1>3 DEF Getting

LEMMA NotThereEnds ==
  ASSUME Grows, NEW p \in Procs, CallOK(p, proc[p]),
         proc[p].kind \in Getting \cup {"exists", "delete"}, NotThere(p)
  PROVE  Ends(p)
<1>1. CASE proc[p].kind \in {"exists", "delete"}
  BY <1>1 DEF NotThere, Finish, Ends, Returns, AnswerOK
<1>2. CASE proc[p].kind \notin {"exists", "delete"}
  <2>1. PICK c : c = proc[p]
    OBVIOUS
  <2>2. Answer(p, NULL) /\ AnswerOK(proc[p], NULL)
    BY <1>2, <2>1, NullAnswer DEF NotThere, CallOK
  <2> QED BY <1>2, <2>2, AnswerEnds
<1> QED BY <1>1, <1>2

LEMMA MissedEnds ==
  ASSUME Grows, NEW p \in Procs, CallOK(p, proc[p]),
         proc[p].kind \in Getting \cup {"exists", "delete"}, Missed(p)
  PROVE  Ends(p)
<1>1. PICK c : c = proc[p]
  OBVIOUS
<1>2. IsCallOf(p, c) /\ Fits(c)
  BY <1>1 DEF CallOK
<1>3. CASE Stay(p, At(p, "walk"))
  <2>1. PICK d : d = [c EXCEPT !.pc = "walk"]
    OBVIOUS
  <2>2. IsCallOf(p, d) /\ d.pc = "walk" /\ d.kind = c.kind /\ d.fd = c.fd
    BY <1>2, <2>1, AtFields
  <2>3. Fits(d)'
    BY <1>1, <1>2, <2>2 DEF Fits, GetPcs, SunPcs, DirPcs, FdPcs
  <2>4. proc' = [proc EXCEPT ![p] = d] /\ last' = last
    BY <1>1, <1>3, <2>1 DEF Stay, Goto, At
  <2> QED BY <1>1, <2>2, <2>3, <2>4, Goes
<1>4. CASE NotThere(p)
  BY <1>4, NotThereEnds
<1> QED BY <1>3, <1>4 DEF Missed

LEMMA AfterXattrEnds ==
  ASSUME Grows, NEW p \in Procs, CallOK(p, proc[p]), proc[p].kind \in Getting, AfterXattr(p)
  PROVE  Ends(p)
<1>1. PICK c : c = proc[p]
  OBVIOUS
<1>2. IsCallOf(p, c) /\ Fits(c)
  BY <1>1 DEF CallOK
<1>3. CASE "file" \in c.stores
  <2>1. PICK d : d = [c EXCEPT !.pc = "open"]
    OBVIOUS
  <2>2. IsCallOf(p, d) /\ d.pc = "open" /\ d.kind = c.kind /\ d.fd = c.fd /\ d.stores = c.stores
    BY <1>2, <2>1, AtFields
  <2>3. Fits(d)'
    BY <1>1, <1>2, <1>3, <2>2 DEF Fits, GetPcs, SunPcs, DirPcs, FdPcs
  <2>4. proc' = [proc EXCEPT ![p] = d] /\ last' = last
    BY <1>1, <1>3, <2>1 DEF AfterXattr, Stay, Goto, At
  <2> QED BY <1>1, <2>2, <2>3, <2>4, Goes
<1>4. CASE "file" \notin c.stores
  BY <1>1, <1>4, MissedEnds DEF AfterXattr
<1> QED BY <1>3, <1>4

(* The end of a put.                                                       *)
LEMMA PutDoneEnds ==
  ASSUME NEW p \in Procs, proc[p].kind # "get", NEW r, PutDone(p, r)
  PROVE  Ends(p)
BY DEF PutDone, Finish, Ends, Returns, AnswerOK

LEMMA AfterSetEnds ==
  ASSUME Grows, NEW p \in Procs, CallOK(p, proc[p]), proc[p].kind # "get", dir,
         NEW r, AfterSet(p, r)
  PROVE  Ends(p)
<1>1. PICK c : c = proc[p]
  OBVIOUS
<1>2. IsCallOf(p, c) /\ Fits(c)
  BY <1>1 DEF CallOK
<1>3. CASE "file" \in c.stores
  <2>1. PICK d : d = [c EXCEPT !.pc = "trunc"]
    OBVIOUS
  <2>2. IsCallOf(p, d) /\ d.pc = "trunc" /\ d.kind = c.kind /\ d.fd = c.fd
    BY <1>2, <2>1, AtFields
  <2>3. Fits(d)'
    BY <1>1, <1>2, <2>2 DEF Grows, Fits, GetPcs, SunPcs, DirPcs, FdPcs
  <2>4. proc' = [proc EXCEPT ![p] = d] /\ last' = last
    BY <1>1, <1>3, <2>1 DEF AfterSet, Stay, Goto, At
  <2> QED BY <1>1, <2>2, <2>3, <2>4, Goes
<1>4. CASE "file" \notin c.stores
  BY <1>1, <1>4, PutDoneEnds DEF AfterSet
<1> QED BY <1>3, <1>4

----------------------------------------------------------------------------
(* The steps of a get, a question, and the others that change no store.    *)

ErrnosOK == errno' \in [Procs -> Errnos]

LEMMA LocalKeeps ==
  Inv /\ Local /\ ErrnosOK /\ (\E p \in Procs : Ends(p)) => Inv'
<1> SUFFICES ASSUME Inv, Local, ErrnosOK, \E p \in Procs : Ends(p)
             PROVE  Inv'
  OBVIOUS
<1>1. Grows /\ FreeInodes
  BY DEF Local, Inside, fsys, Grows, FreeInodes
<1>2. ProcsOK' /\ LastOK'
  BY <1>1, EndsWell DEF Inv
<1>3. FdsOK'
  BY <1>1, EndsClosed DEF Inv
<1>4. StateOK'
  BY DEF Inv, StateOK, Local, Inside, fsys, ErrnosOK
<1>5. TextsOK'
  BY DEF Inv, TextsOK, Local, Inside, fsys, AtomicXattr, Xattrs
<1> QED BY <1>2, <1>3, <1>4, <1>5 DEF Inv

LEMMA LocalGrows == Local => Grows
BY DEF Local, Inside, fsys, Grows

LEMMA ErrnoType ==
  ASSUME StateOK, NEW p \in Procs, NEW e \in Errnos, Errno(p, e)
  PROVE  ErrnosOK
BY DEF StateOK, Errno, ErrnosOK

LEMMA ErrnoSame == StateOK /\ errno' = errno => ErrnosOK
BY DEF StateOK, ErrnosOK

LEMMA NoXattrType == ASSUME NEW p PROVE NoXattr(p) \in Errnos
BY DEF NoXattr, Errnos

(* What a call reads in an extended attribute that is set in one call.     *)
LEMMA XattrText ==
  ASSUME Inv, NEW p \in Procs, CallOK(p, proc[p]), Present(p, "xattr")
  PROVE  /\ The(p, "xattr") \in Xattrs
         /\ AtomicXattr => Bytes(p, "xattr") \in tried[The(p, "xattr")]
         /\ AtomicXattr => IsText(Bytes(p, "xattr"))
<1>1. PICK c : c = proc[p]
  OBVIOUS
<1>2. The(p, "xattr") \in Objects(program)
  BY <1>1, TheObject DEF The, CallOK
<1>3. The(p, "xattr") \in Xattrs
  BY <1>2, StoredStore DEF Xattrs, The
<1> QED BY <1>2, <1>3 DEF Inv, StateOK, TextsOK, Present, Bytes

LEMMA FirstReadPcs ==
  ASSUME NEW st \in SUBSET {"file", "xattr"}
  PROVE  /\ FirstRead(st) \in {"size", "open", "none"}
         /\ FirstRead(st) = "open" => "file" \in st
BY DEF FirstRead

LEMMA FirstWritePcs ==
  ASSUME NEW st \in SUBSET {"file", "xattr"}
  PROVE  /\ FirstWrite(st) \in {"setxattr", "truncXattr", "trunc", "noWrite"}
         /\ FirstWrite(st) = "setxattr" => "xattr" \in st
         /\ FirstWrite(st) = "truncXattr" => ~AtomicXattr
BY DEF FirstWrite

LEMMA CallStores ==
  ASSUME StateOK, NEW p \in Procs, NEW c, IsCallOf(p, c)
  PROVE  c.stores \in SUBSET {"file", "xattr"}
BY ProgramsAssumption DEF StateOK, IsCallOf, IsProgram, IsCall

LEMMA NoReadKeeps == ASSUME Inv, NEW p \in Procs, NoRead(p) PROVE Inv'
<1>1. CallOK(p, proc[p]) /\ proc[p].kind \in Getting /\ Grows
  BY InCallOK, LocalGrows DEF Inv, NoRead, CallOK, Fits, GetPcs
<1>2. Ends(p)
  BY <1>1, MissedEnds DEF NoRead
<1> QED BY <1>2, ErrnoSame, LocalKeeps DEF NoRead, Inv

LEMMA XattrSizeKeeps == ASSUME Inv, NEW p \in Procs, XattrSize(p) PROVE Inv'
<1>1. CallOK(p, proc[p]) /\ proc[p].kind \in Getting /\ Grows
  BY InCallOK, LocalGrows DEF Inv, XattrSize, CallOK, Fits, GetPcs
<1>2. ErrnosOK
  BY ErrnoSame, ErrnoType, NoXattrType DEF XattrSize, Inv
<1>3. PICK c : c = proc[p]
  OBVIOUS
<1>4. IsCallOf(p, c) /\ Fits(c)
  BY <1>1, <1>3 DEF CallOK
<1>5. ASSUME ~Present(p, "xattr") PROVE Ends(p)
  BY <1>1, <1>5, AfterXattrEnds DEF XattrSize
<1>6. CASE Present(p, "xattr")
  <2>1. PICK b : b = Bytes(p, "xattr")
    OBVIOUS
  <2>2. /\ The(p, "xattr") \in Xattrs
        /\ AtomicXattr => b \in tried[The(p, "xattr")] /\ IsText(b)
    BY <1>1, <1>6, <2>1, XattrText
  <2>3. CASE Len(b) = 0
    <3>1. Answer(p, <<>>)
      BY <1>6, <2>1, <2>3 DEF XattrSize
    <3>2. AnswerOK(c, <<>>)
      <4> SUFFICES ASSUME AtomicXattr, c.stores = {"xattr"}
                   PROVE  Slot(c) \in Objects(program) /\ Put1(<<>>, c)
        BY DEF AnswerOK
      <4>1. Slot(c) = The(p, "xattr")
        BY <1>3 DEF Slot, The
      <4>2. b = <<>>
        BY <2>2, <2>3, EmptySeq DEF IsText
      <4>3. IsPrefix(<<>>, <<>>)
        BY DEF IsPrefix
      <4> QED BY <2>2, <4>1, <4>2, <4>3 DEF Put1, Xattrs
    <3>3. Ends(p)
      BY <1>1, <1>3, <3>1, <3>2, AnswerEnds
    <3> QED BY <1>2, <3>3, LocalKeeps DEF XattrSize
  <2>4. CASE Len(b) # 0
    <3>1. PICK pc : pc = IF AtomicXattr THEN "value" ELSE "openXattr"
      OBVIOUS
    <3>2. PICK e : e = [c EXCEPT !.pc = pc]
      OBVIOUS
    <3>3. PICK n : n = Len(b)
      OBVIOUS
    <3>4. PICK d : d = [e EXCEPT !.len = n]
      OBVIOUS
    <3>5. IsCallOf(p, e) /\ e.pc = pc /\ e.kind = c.kind /\ e.fd = c.fd
      BY <1>4, <3>2, AtFields
    <3>6. IsCallOf(p, d) /\ d.pc = pc /\ d.kind = c.kind /\ d.fd = c.fd /\ d.len = n
      BY <3>4, <3>5 DEF IsCallOf
    <3>7. AtomicXattr => n \in Nat
      BY <2>2, <3>3, LenProperties DEF IsText
    <3>8. AtomicXattr' = AtomicXattr
      BY DEF XattrSize, Local, Inside, AtomicXattr
    <3>9. Fits(d)'
      BY <1>1, <1>3, <1>4, <3>1, <3>6, <3>7, <3>8 DEF Fits, GetPcs, SunPcs, DirPcs, FdPcs
    <3>10. proc' = [proc EXCEPT ![p] = d] /\ last' = last
      BY <1>3, <1>6, <2>1, <2>4, <3>1, <3>2, <3>3, <3>4 DEF XattrSize, Stay, Goto, At
    <3>11. Ends(p)
      BY <1>1, <1>3, <3>6, <3>9, <3>10, Goes
    <3> QED BY <1>2, <3>11, LocalKeeps DEF XattrSize
  <2> QED BY <2>3, <2>4
<1>7. CASE Ends(p)
  BY <1>2, <1>7, LocalKeeps DEF XattrSize
<1> QED BY <1>5, <1>6, <1>7

LEMMA MinOfTwo ==
  ASSUME NEW m \in Nat, NEW n \in Nat
  PROVE  Min({m, n}) \in {m, n} /\ Min({m, n}) <= m /\ Min({m, n}) <= n
<1>1. \E x \in {m, n} : \A y \in {m, n} : x <= y
  OBVIOUS
<1>2. Min({m, n}) \in {m, n} /\ \A y \in {m, n} : Min({m, n}) <= y
  BY <1>1 DEF Min
<1> QED BY <1>2

LEMMA StartIsPrefix ==
  ASSUME NEW b, IsText(b), NEW n \in Nat
  PROVE  IsPrefix(BsdValue(b, n), b)
<1>1. PICK S : b \in Seq(S)
  BY DEF IsText
<1>2. Len(b) \in Nat
  BY <1>1, LenProperties
<1>3. PICK m : m = Min({n, Len(b)})
  OBVIOUS
<1>4. m \in Nat /\ m <= Len(b)
  BY <1>2, <1>3, MinOfTwo
<1>5. PICK v : v = SubSeq(b, 1, m)
  OBVIOUS
<1>6. v \in Seq(S) /\ Len(v) = m /\ \A i \in 1..m : v[i] = b[i]
  BY <1>1, <1>2, <1>4, <1>5, SubSeqProperties
<1>7. SubSeq(v, 1, m) = v
  BY <1>6
<1> QED BY <1>2, <1>3, <1>4, <1>5, <1>6, <1>7 DEF BsdValue, IsPrefix

LEMMA XattrValueKeeps == ASSUME Inv, NEW p \in Procs, XattrValue(p) PROVE Inv'
<1>1. CallOK(p, proc[p]) /\ proc[p].kind \in Getting /\ Grows
  BY InCallOK, LocalGrows DEF Inv, XattrValue, CallOK, Fits, GetPcs
<1>2. ErrnosOK
  BY ErrnoSame, ErrnoType, NoXattrType DEF XattrValue, Inv, Errnos
<1>3. PICK c, n, b : c = proc[p] /\ n = c.len /\ b = Bytes(p, "xattr")
  OBVIOUS
<1>4. PICK v : v = IF setting.platform = "bsd" THEN BsdValue(b, n) ELSE LinuxValue(b, n)
  OBVIOUS
<1>5. CASE Present(p, "xattr") /\ v # NULL
  <2>1. Answer(p, v)
    BY <1>3, <1>4, <1>5 DEF XattrValue
  <2>2. AnswerOK(c, v)
    <3> SUFFICES ASSUME AtomicXattr, c.stores = {"xattr"}
                 PROVE  Slot(c) \in Objects(program) /\ Put1(v, c)
      BY DEF AnswerOK
    <3>1. Slot(c) = The(p, "xattr")
      BY <1>3 DEF Slot, The
    <3>2. Slot(c) \in Xattrs /\ b \in tried[Slot(c)] /\ IsText(b)
      BY <1>1, <1>3, <1>5, <3>1, XattrText
    <3>3. n \in Nat
      BY <1>1, <1>3 DEF XattrValue, CallOK, Fits
    <3>4. CASE setting.platform = "bsd"
      BY <1>4, <3>2, <3>3, <3>4, StartIsPrefix DEF Put1, Xattrs
    <3>5. CASE setting.platform # "bsd"
      BY <1>4, <1>5, <3>2, <3>5 DEF Put1, Xattrs, LinuxValue
    <3> QED BY <3>4, <3>5
  <2>3. Ends(p)
    BY <1>1, <1>3, <2>1, <2>2, AnswerEnds
  <2> QED BY <1>2, <2>3, LocalKeeps DEF XattrValue
<1>6. CASE ~(Present(p, "xattr") /\ v # NULL)
  <2>1. AfterXattr(p)
    BY <1>3, <1>4, <1>6 DEF XattrValue
  <2>2. Ends(p)
    BY <1>1, <2>1, AfterXattrEnds
  <2> QED BY <1>2, <2>2, LocalKeeps DEF XattrValue
<1> QED BY <1>5, <1>6

LEMMA OpenKeeps ==
  ASSUME Inv, NEW p \in Procs, NEW store \in {"file", "xattr"}, Open(p, store)
  PROVE  Inv'
<1>1. CallOK(p, proc[p]) /\ proc[p].kind \in Getting /\ Grows
  BY InCallOK, LocalGrows DEF Inv, Open, CallOK, Fits, GetPcs
<1>2. ErrnosOK
  BY ErrnoSame, ErrnoType DEF Open, Inv, Errnos
<1>3. PICK c, o : c = proc[p] /\ o = The(p, store)
  OBVIOUS
<1>4. IsCallOf(p, c) /\ Fits(c)
  BY <1>1, <1>3 DEF CallOK
<1>5. CASE Present(p, store)
  <2>1. PICK pc, n : pc = (IF store = "xattr" THEN "read" ELSE "seek") /\ n = object[o]
    OBVIOUS
  <2>2. PICK e : e = [c EXCEPT !.pc = pc]
    OBVIOUS
  <2>3. PICK d : d = [e EXCEPT !.fd = n]
    OBVIOUS
  <2>4. o \in Objects(program) /\ o[1] = store
    BY <1>3, <1>4, TheObject, StoredStore DEF The
  <2>5. n \in 0..MaxInodes /\ n # 0
    BY <1>3, <1>5, <2>1, <2>4 DEF Present, Inv, StateOK
  <2>6. IsCallOf(p, e) /\ e.pc = pc /\ e.kind = c.kind /\ e.stores = c.stores
    BY <1>4, <2>2, AtFields
  <2>7. IsCallOf(p, d) /\ d.pc = pc /\ d.kind = c.kind /\ d.fd = n /\ d.stores = c.stores
    BY <2>3, <2>6 DEF IsCallOf
  <2>8. c.pc = (IF store = "xattr" THEN "openXattr" ELSE "open")
    BY <1>3 DEF Open
  <2>9. AtomicXattr => store = "file"
    BY <1>4, <2>8 DEF Fits, SunPcs
  <2>10. Fits(d)'
    BY <1>1, <1>3, <1>4, <2>1, <2>5, <2>7, <2>8
       DEF Grows, AtomicXattr, Fits, GetPcs, SunPcs, DirPcs, FdPcs
  <2>11. proc' = [proc EXCEPT ![p] = d] /\ last' = last
    BY <1>3, <1>5, <2>1, <2>2, <2>3 DEF Open, Stay, Goto, At
  <2>12. AtomicXattr => Apart(n)
    BY <2>1, <2>4, <2>5, <2>9 DEF Apart, Xattrs, Inv, StateOK, Open, Local, fsys
  <2>13. Ends(p)
    BY <2>7, <1>1, <2>10, <2>11, <2>12, Goes
  <2> QED BY <1>2, <2>13, LocalKeeps DEF Open
<1>6. CASE ~Present(p, store)
  <2>1. AfterXattr(p) \/ Missed(p)
    BY <1>6 DEF Open
  <2>2. Ends(p)
    BY <1>1, <2>1, AfterXattrEnds, MissedEnds
  <2> QED BY <1>2, <2>2, LocalKeeps DEF Open
<1> QED BY <1>5, <1>6

LEMMA SeekKeeps == ASSUME Inv, NEW p \in Procs, Seek(p) PROVE Inv'
<1>1. CallOK(p, proc[p]) /\ Grows
  BY InCallOK, LocalGrows DEF Inv, Seek
<1>2. PICK c, n : c = proc[p] /\ n = Len(data[c.fd])
  OBVIOUS
<1>3. PICK e : e = [c EXCEPT !.pc = "read"]
  OBVIOUS
<1>4. PICK d : d = [e EXCEPT !.len = n]
  OBVIOUS
<1>5. IsCallOf(p, c) /\ Fits(c) /\ c.pc = "seek"
  BY <1>1, <1>2 DEF CallOK, Seek
<1>6. /\ IsCallOf(p, e) /\ e.pc = "read" /\ e.kind = c.kind /\ e.fd = c.fd
      /\ e.stores = c.stores
  BY <1>3, <1>5, AtFields
<1>7. /\ IsCallOf(p, d) /\ d.pc = "read" /\ d.kind = c.kind /\ d.fd = c.fd
      /\ d.stores = c.stores
  BY <1>4, <1>6 DEF IsCallOf
<1>8. Fits(d)'
  BY <1>5, <1>7 DEF Fits, GetPcs, SunPcs, DirPcs, FdPcs
<1>9. proc' = [proc EXCEPT ![p] = d] /\ last' = last
  BY <1>2, <1>3, <1>4 DEF Seek, Stay, Goto, At
<1>10. Ends(p)
  BY <1>1, <1>2, <1>7, <1>8, <1>9, Goes
<1> QED BY <1>10, ErrnoSame, LocalKeeps DEF Seek, Inv

(* An extended attribute that is set in one call is not read as a file.    *)
LEMMA ReadKeeps == ASSUME Inv, NEW p \in Procs, Read(p) PROVE Inv'
<1>1. CallOK(p, proc[p]) /\ proc[p].kind \in Getting /\ Grows
  BY InCallOK, LocalGrows DEF Inv, Read, CallOK, Fits, GetPcs
<1>2. PICK c, t : c = proc[p] /\ Answer(p, t)
  BY DEF Read
<1>3. AtomicXattr => c.stores # {"xattr"}
  BY <1>1, <1>2 DEF Read, CallOK, Fits
<1>4. AnswerOK(c, t)
  BY <1>3 DEF AnswerOK
<1>5. Ends(p)
  BY <1>1, <1>2, <1>4, AnswerEnds
<1> QED BY <1>5, ErrnoSame, LocalKeeps DEF Read, Inv

LEMMA WalkKeeps == ASSUME Inv, NEW p \in Procs, Walk(p) PROVE Inv'
<1>1. CallOK(p, proc[p]) /\ proc[p].kind \in Getting \cup {"exists", "delete"} /\ Grows
  BY InCallOK, LocalGrows DEF Inv, Walk, CallOK, Fits
<1>2. ErrnosOK
  BY ErrnoType DEF Walk, Inv, Errnos
<1>3. PICK c : c = proc[p]
  OBVIOUS
<1>4. IsCallOf(p, c) /\ Fits(c) /\ c.kind \in Getting \cup {"exists", "delete"}
  BY <1>1, <1>3 DEF CallOK
<1>5. CASE dir /\ setting.depth > 0
  <2>1. PICK pc : pc = CASE c.kind = "exists" -> "check"
                         [] c.kind = "delete" -> "remove"
                         [] OTHER             -> FirstRead(c.stores)
    OBVIOUS
  <2>2. PICK e : e = [c EXCEPT !.pc = pc]
    OBVIOUS
  <2>3. PICK d : d = [e EXCEPT !.where = "home"]
    OBVIOUS
  <2>4. FirstRead(c.stores) \in {"size", "open", "none"}
        /\ (FirstRead(c.stores) = "open" => "file" \in c.stores)
    BY <1>4, CallStores, FirstReadPcs DEF Inv
  <2>5. \/ c.kind = "exists" /\ pc = "check"
        \/ c.kind = "delete" /\ pc = "remove"
        \/ c.kind \in Getting /\ pc \in {"size", "open", "none"}
                              /\ (pc = "open" => "file" \in c.stores)
    BY <1>4, <2>1, <2>4 DEF Getting
  <2>6. /\ IsCallOf(p, e) /\ e.pc = pc /\ e.kind = c.kind /\ e.fd = c.fd
        /\ e.stores = c.stores
    BY <1>4, <2>2, AtFields
  <2>7. /\ IsCallOf(p, d) /\ d.pc = pc /\ d.kind = c.kind /\ d.fd = c.fd
        /\ d.stores = c.stores
    BY <2>3, <2>6 DEF IsCallOf
  <2>8. Fits(d)'
    BY <1>4, <2>5, <2>7 DEF Fits, GetPcs, Getting, SunPcs, DirPcs, FdPcs
  <2>9. proc' = [proc EXCEPT ![p] = d] /\ last' = last
    BY <1>3, <1>5, <2>1, <2>2, <2>3 DEF Walk, Stay, Goto, At
  <2>10. Ends(p)
    BY <1>1, <1>3, <2>7, <2>8, <2>9, Goes
  <2> QED BY <1>2, <2>10, LocalKeeps DEF Walk
<1>6. CASE ~(dir /\ setting.depth > 0)
  <2>1. NotThere(p)
    BY <1>6 DEF Walk
  <2>2. Ends(p)
    BY <1>1, <2>1, NotThereEnds
  <2> QED BY <1>2, <2>2, LocalKeeps DEF Walk
<1> QED BY <1>5, <1>6

LEMMA CheckKeeps == ASSUME Inv, NEW p \in Procs, Check(p) PROVE Inv'
<1>1. CallOK(p, proc[p]) /\ proc[p].kind = "exists" /\ Grows
  BY InCallOK, LocalGrows DEF Inv, Check, CallOK, Fits
<1>2. ErrnosOK
  <2>1. errno[p] \in Errnos /\ NoXattr(p) \in Errnos
    BY NoXattrType DEF Inv, StateOK
  <2> QED BY <2>1, ErrnoType DEF Check, Inv, Errnos
<1>3. Finish(p, TRUE, Unknown) \/ Missed(p)
  BY DEF Check
<1>4. Ends(p)
  BY <1>1, <1>3, MissedEnds DEF Finish, Ends, Returns, AnswerOK
<1> QED BY <1>2, <1>4, LocalKeeps DEF Check

LEMMA LocateKeeps == ASSUME Inv, NEW p \in Procs, Locate(p) PROVE Inv'
<1>1. CallOK(p, proc[p]) /\ Grows
  BY InCallOK, LocalGrows DEF Inv, Locate
<1>2. ErrnosOK
  <2>1. errno[p] \in Errnos
    BY DEF Inv, StateOK
  <2> QED BY <2>1, ErrnoType DEF Locate, Inv, Errnos
<1>3. PICK c : c = proc[p]
  OBVIOUS
<1>4. PICK pc \in {"remove", "walk"} : Stay(p, At(p, pc))
  BY DEF Locate
<1>5. PICK d : d = [c EXCEPT !.pc = pc]
  OBVIOUS
<1>6. IsCallOf(p, c) /\ Fits(c) /\ c.kind = "delete"
  BY <1>1, <1>3 DEF CallOK, Fits, Locate
<1>7. IsCallOf(p, d) /\ d.pc = pc /\ d.kind = "delete" /\ d.fd = c.fd
  BY <1>5, <1>6, AtFields
<1>8. Fits(d)'
  BY <1>6, <1>7 DEF Fits, GetPcs, SunPcs, DirPcs, FdPcs
<1>9. proc' = [proc EXCEPT ![p] = d] /\ last' = last
  BY <1>3, <1>4, <1>5 DEF Stay, Goto, At
<1>10. Ends(p)
  BY <1>1, <1>3, <1>7, <1>8, <1>9, Goes
<1> QED BY <1>2, <1>10, LocalKeeps DEF Locate

LEMMA NoWriteKeeps == ASSUME Inv, NEW p \in Procs, NoWrite(p) PROVE Inv'
<1>1. proc[p].kind # "get"
  BY InCallOK DEF Inv, NoWrite, CallOK, Fits, GetPcs
<1>2. Ends(p)
  BY <1>1, PutDoneEnds DEF NoWrite
<1> QED BY <1>2, ErrnoSame, LocalKeeps DEF NoWrite, Inv

LEMMA SeekRWKeeps == ASSUME Inv, NEW p \in Procs, SeekRW(p) PROVE Inv'
<1>1. CallOK(p, proc[p]) /\ Grows
  BY InCallOK, LocalGrows DEF Inv, SeekRW
<1>2. PICK c, n : c = proc[p] /\ n = Len(data[c.fd])
  OBVIOUS
<1>3. PICK pc : pc = IF n = 0 THEN "writeRW" ELSE "readRW"
  OBVIOUS
<1>4. PICK e : e = [c EXCEPT !.pc = pc]
  OBVIOUS
<1>5. PICK d : d = [e EXCEPT !.len = n, !.result = c.arg, !.text = Decimal(c.arg)]
  OBVIOUS
<1>6. IsCallOf(p, c) /\ Fits(c) /\ c.pc = "seekRW"
  BY <1>1, <1>2 DEF CallOK, SeekRW
<1>7. IsCallOf(p, e) /\ e.pc = pc /\ e.kind = c.kind /\ e.fd = c.fd
  BY <1>4, <1>6, AtFields
<1>8. IsText(Decimal(c.arg))
  BY DecimalIsText
<1>9. IsCallOf(p, d) /\ d.pc = pc /\ d.kind = c.kind /\ d.fd = c.fd
  BY <1>5, <1>7, <1>8 DEF IsCallOf
<1>10. Fits(d)'
  BY <1>3, <1>6, <1>9 DEF Fits, GetPcs, SunPcs, DirPcs, FdPcs
<1>11. proc' = [proc EXCEPT ![p] = d] /\ last' = last
  BY <1>2, <1>3, <1>4, <1>5 DEF SeekRW, Stay, Goto, At
<1>12. Ends(p)
  BY <1>1, <1>2, <1>9, <1>10, <1>11, Goes
<1> QED BY <1>12, ErrnoSame, LocalKeeps DEF SeekRW, Inv

LEMMA ReadRWKeeps == ASSUME Inv, NEW p \in Procs, ReadRW(p) PROVE Inv'
<1>1. CallOK(p, proc[p]) /\ Grows
  BY InCallOK, LocalGrows DEF Inv, ReadRW
<1>2. ErrnosOK
  BY ErrnoType DEF ReadRW, Inv, Errnos
<1>3. PICK m, n : Stay(p, [At(p, "writeRW") EXCEPT !.len = m, !.result = n,
                                                   !.text = Decimal(n)])
  BY DEF ReadRW
<1>4. PICK c : c = proc[p]
  OBVIOUS
<1>5. PICK e : e = [c EXCEPT !.pc = "writeRW"]
  OBVIOUS
<1>6. PICK d : d = [e EXCEPT !.len = m, !.result = n, !.text = Decimal(n)]
  OBVIOUS
<1>7. IsCallOf(p, c) /\ Fits(c) /\ c.pc = "readRW"
  BY <1>1, <1>4 DEF CallOK, ReadRW
<1>8. IsCallOf(p, e) /\ e.pc = "writeRW" /\ e.kind = c.kind /\ e.fd = c.fd
  BY <1>5, <1>7, AtFields
<1>9. IsText(Decimal(n))
  BY DecimalIsText
<1>10. IsCallOf(p, d) /\ d.pc = "writeRW" /\ d.kind = c.kind /\ d.fd = c.fd
  BY <1>6, <1>8, <1>9 DEF IsCallOf
<1>11. Fits(d)'
  BY <1>7, <1>10 DEF Fits, GetPcs, SunPcs, DirPcs, FdPcs
<1>12. proc' = [proc EXCEPT ![p] = d] /\ last' = last
  BY <1>3, <1>4, <1>5, <1>6 DEF Stay, Goto, At
<1>13. Ends(p)
  BY <1>1, <1>4, <1>10, <1>11, <1>12, Goes
<1> QED BY <1>2, <1>13, LocalKeeps DEF ReadRW

LEMMA NullDirKeeps == ASSUME Inv, NEW p \in Procs, NullDir(p) PROVE Inv'
<1>1. Ends(p)
  BY DEF NullDir, Ends, Dies
<1> QED BY <1>1, ErrnoSame, LocalKeeps DEF NullDir, Inv

----------------------------------------------------------------------------
(* The steps that change a store or the history.                           *)

LEMMA StepKeeps ==
  /\ Inv /\ Grows /\ StateOK' /\ TextsOK' /\ FreeInodes
  /\ \E p \in Procs : Ends(p)
  => Inv'
BY EndsWell, EndsClosed DEF Inv

(* An attribute gets an inode that no other attribute has.                 *)
LEMMA ObjectChanges ==
  ASSUME StateOK, Grows, ErrnosOK, NEW o \in Objects(program), NEW n \in 0..MaxInodes,
         object' = [object EXCEPT ![o] = n],
         n # 0 => dir' /\ \A q \in Objects(program) \ {o} : object[q] # n,
         data' = [m \in 1..MaxInodes |-> data'[m]], tried' = tried
  PROVE  StateOK'
BY DEF StateOK, Grows, ErrnosOK

(* New texts do not lose the old ones.                                     *)
LEMMA TriedMore ==
  ASSUME StateOK, program' = program, setting' = setting, dir' = dir,
         NEW o \in Objects(program), NEW t, IsText(t),
         tried' = [tried EXCEPT ![o] = @ \cup {t}]
  PROVE  /\ Grows
         /\ tried' = [q \in Objects(program) |-> tried'[q]]
         /\ \A q \in Objects(program) : \A u \in tried'[q] : IsText(u)
         /\ t \in tried'[o]
BY DEF StateOK, Grows

LEMMA FindPlaceKeeps == ASSUME Inv, NEW p \in Procs, FindPlace(p) PROVE Inv'
<1>1. PICK c : c = proc[p]
  OBVIOUS
<1>2. IsCallOf(p, c) /\ Fits(c) /\ c.pc = "find" /\ IsText(c.text)
  BY <1>1, InCallOK DEF CallOK, IsCallOf, FindPlace, Inv
<1>3. Slot(c) \in Objects(program)
  BY <1>2, TheObject
<1>4. /\ Grows
      /\ tried' = [q \in Objects(program) |-> tried'[q]]
      /\ \A q \in Objects(program) : \A u \in tried'[q] : IsText(u)
      /\ c.text \in tried'[Slot(c)]
  BY <1>1, <1>2, <1>3, TriedMore DEF FindPlace, Inside, fsys, Inv
<1>5. ErrnosOK
  <2>1. errno[p] \in Errnos
    BY DEF Inv, StateOK
  <2> QED BY <2>1, ErrnoType DEF FindPlace, ErrnoOfPlace, Inv, Errnos
<1>6. StateOK'
  BY <1>4, <1>5 DEF Inv, StateOK, FindPlace, Inside, fsys, ErrnosOK
<1>7. TextsOK'
  BY <1>4 DEF Inv, TextsOK, FindPlace, Inside, fsys, AtomicXattr, Xattrs, Grows
<1>8. PICK pc : pc = AtPlace(p)
  OBVIOUS
<1>9. PICK e : e = [c EXCEPT !.pc = pc]
  OBVIOUS
<1>10. PICK d : d = [e EXCEPT !.where = "home", !.found = dir]
  OBVIOUS
<1>11. /\ pc \in {"mkdir", "setxattr", "truncXattr", "trunc", "noWrite"}
       /\ pc = "setxattr" => "xattr" \in c.stores
       /\ pc = "truncXattr" => ~AtomicXattr
       /\ pc # "mkdir" => dir
  BY <1>1, <1>2, <1>8, CallStores, FirstWritePcs DEF AtPlace, Inv
<1>12. /\ IsCallOf(p, e) /\ e.pc = pc /\ e.kind = c.kind /\ e.fd = c.fd
       /\ e.stores = c.stores /\ e.text = c.text /\ e.attr = c.attr
  BY <1>2, <1>9, AtFields
<1>13. /\ IsCallOf(p, d) /\ d.pc = pc /\ d.kind = c.kind /\ d.fd = c.fd
       /\ d.stores = c.stores /\ d.text = c.text /\ d.attr = c.attr
  BY <1>10, <1>12 DEF IsCallOf
<1>14. Slot(d) = Slot(c)
  BY <1>13 DEF Slot
<1>15. Fits(d)'
  BY <1>2, <1>4, <1>11, <1>13, <1>14
     DEF Fits, GetPcs, SunPcs, DirPcs, FdPcs, Grows, AtomicXattr
<1>16. proc' = [proc EXCEPT ![p] = d] /\ last' = last
  BY <1>1, <1>8, <1>9, <1>10 DEF FindPlace, Stay, Goto, At
<1>17. Ends(p)
  BY <1>1, <1>4, <1>13, <1>15, <1>16, Goes
<1>18. FreeInodes
  BY DEF FindPlace, fsys, FreeInodes
<1> QED BY <1>4, <1>6, <1>7, <1>17, <1>18, StepKeeps

LEMMA MakeDirKeeps == ASSUME Inv, NEW p \in Procs, MakeDir(p) PROVE Inv'
<1>1. PICK c : c = proc[p]
  OBVIOUS
<1>2. IsCallOf(p, c) /\ Fits(c) /\ c.pc = "mkdir"
  BY <1>1, InCallOK DEF CallOK, MakeDir, Inv
<1>3. Grows /\ dir'
  BY DEF MakeDir, Inside, Grows
<1>4. ErrnosOK
  <2>1. errno[p] \in Errnos
    BY DEF Inv, StateOK
  <2> QED BY <2>1, ErrnoType DEF MakeDir, Inv, Errnos
<1>5. StateOK'
  BY <1>3, <1>4 DEF Inv, StateOK, MakeDir, Inside, ErrnosOK
<1>6. TextsOK'
  BY DEF Inv, TextsOK, MakeDir, Inside, AtomicXattr, Xattrs
<1>7. PICK pc : pc = FirstWrite(c.stores)
  OBVIOUS
<1>8. PICK d : d = [c EXCEPT !.pc = pc]
  OBVIOUS
<1>9. /\ pc \in {"setxattr", "truncXattr", "trunc", "noWrite"}
      /\ pc = "setxattr" => "xattr" \in c.stores
      /\ pc = "truncXattr" => ~AtomicXattr
  BY <1>2, <1>7, CallStores, FirstWritePcs DEF Inv
<1>10. /\ IsCallOf(p, d) /\ d.pc = pc /\ d.kind = c.kind /\ d.fd = c.fd
       /\ d.stores = c.stores /\ d.text = c.text /\ Slot(d) = Slot(c)
  BY <1>2, <1>8, AtFields
<1>11. Fits(d)'
  BY <1>2, <1>3, <1>9, <1>10
     DEF Fits, GetPcs, SunPcs, DirPcs, FdPcs, Grows, AtomicXattr, MakeDir
<1>12. proc' = [proc EXCEPT ![p] = d] /\ last' = last
  BY <1>1, <1>7, <1>8 DEF MakeDir, Stay, Goto, At
<1>13. Ends(p)
  BY <1>1, <1>3, <1>10, <1>11, <1>12, Goes
<1>14. FreeInodes
  BY DEF MakeDir, FreeInodes
<1> QED BY <1>3, <1>5, <1>6, <1>13, <1>14, StepKeeps

(* A step that sets or opens attribute o, or makes it.                     *)
LEMMA InodeKept ==
  ASSUME Inv, Grows, ErrnosOK, dir', NEW o \in Objects(program), Room(o),
         object' = [object EXCEPT ![o] = Inode(o)],
         data' = [m \in 1..MaxInodes |-> data'[m]],
         \A m \in 1..MaxInodes \ {Inode(o)} : data'[m] = data[m],
         tried' = tried
  PROVE  /\ StateOK' /\ FreeInodes
         /\ \A q \in Xattrs \ {o} : object'[q] # 0 =>
              /\ object'[q] # Inode(o)
              /\ AtomicXattr => data'[object'[q]] \in tried'[q]
<1>1. PICK n : n = Inode(o)
  OBVIOUS
<1>2. /\ n \in 1..MaxInodes /\ n # 0
      /\ \A q \in Objects(program) \ {o} : object[q] # n
      /\ object[o] # 0 => n = object[o]
      /\ object[o] = 0 => \A p \in Procs : proc[p].fd # n
  BY <1>1, InodeType DEF Inv
<1>3. StateOK'
  <2>1. n \in 0..MaxInodes
    BY <1>2
  <2> QED BY <1>1, <1>2, <2>1, ObjectChanges DEF Inv
<1>4. \A q \in Objects(program) : object'[q] = IF q = o THEN n ELSE object[q]
  BY <1>1 DEF Inv, StateOK
<1>5. FreeInodes
  BY <1>2, <1>4 DEF FreeInodes, Xattrs
<1>6. ASSUME NEW q \in Xattrs \ {o}, object'[q] # 0
      PROVE  /\ object'[q] # n
             /\ AtomicXattr => data'[object'[q]] \in tried'[q]
  <2>1. q \in Objects(program) /\ object'[q] = object[q] /\ object[q] # n
    BY <1>2, <1>4, <1>6 DEF Xattrs
  <2>2. object[q] \in 1..MaxInodes \ {n}
    BY <1>6, <2>1, InodesAssumption DEF Inv, StateOK
  <2> QED BY <1>1, <1>6, <2>1, <2>2 DEF Inv, TextsOK
<1> QED BY <1>1, <1>3, <1>5, <1>6

LEMMA SetXattrKeeps == ASSUME Inv, NEW p \in Procs, SetXattr(p) PROVE Inv'
<1>1. PICK c, o : c = proc[p] /\ o = The(p, "xattr")
  OBVIOUS
<1>2. IsCallOf(p, c) /\ Fits(c) /\ c.pc = "setxattr" /\ CallOK(p, proc[p])
  BY <1>1, InCallOK DEF CallOK, SetXattr, Inv
<1>3. c.kind # "get" /\ dir /\ c.text \in tried[o] /\ o \in Objects(program)
  <2>1. Slot(c) = o
    BY <1>1, <1>2 DEF Fits, Slot, The
  <2> QED BY <1>2, <2>1, TheObject DEF Fits, GetPcs, DirPcs
<1>4. Grows
  BY DEF SetXattr, Inside, fsys, Grows
<1>5. ASSUME NEW r, AfterSet(p, r) PROVE Ends(p)
  BY <1>1, <1>2, <1>3, <1>4, <1>5, AfterSetEnds
<1>6. Ends(p)
  BY <1>5 DEF SetXattr
<1>7. CASE /\ Room(o)
           /\ object' = [object EXCEPT ![o] = Inode(o)]
           /\ data' = [data EXCEPT ![Inode(o)] =
                         SetValue(IF object[o] = 0 THEN <<>> ELSE @, proc[p].text)]
           /\ UNCHANGED <<dir, errno, faults, tried>>
  <2>1. Inode(o) \in 1..MaxInodes
    BY <1>3, <1>7, InodeType DEF Inv
  <2>2. /\ data' = [m \in 1..MaxInodes |-> data'[m]]
        /\ \A m \in 1..MaxInodes \ {Inode(o)} : data'[m] = data[m]
        /\ data'[Inode(o)] = c.text
    BY <1>1, <1>7, <2>1 DEF Inv, StateOK, SetValue
  <2>3. dir' /\ tried' = tried /\ ErrnosOK
    BY <1>3, <1>7, ErrnoSame DEF Inv
  <2>4. /\ StateOK' /\ FreeInodes
        /\ \A q \in Xattrs \ {o} : object'[q] # 0 /\ AtomicXattr =>
              data'[object'[q]] \in tried'[q]
    BY <1>3, <1>4, <1>7, <2>2, <2>3, InodeKept
  <2>5. object'[o] = Inode(o)
    BY <1>3, <1>7 DEF Inv, StateOK
  <2>6. TextsOK'
    BY <1>3, <1>4, <2>2, <2>3, <2>4, <2>5 DEF TextsOK, Grows, AtomicXattr, Xattrs
  <2> QED BY <1>4, <1>6, <2>4, <2>6, StepKeeps
<1>8. CASE UNCHANGED <<fsys, tried>> /\ \E e \in {EINVAL, ENOSPC} : Errno(p, e)
  <2>1. ErrnosOK
    BY <1>8, ErrnoType DEF Inv, Errnos
  <2>2. StateOK'
    BY <1>4, <1>8, <2>1 DEF Inv, StateOK, Grows, fsys, ErrnosOK
  <2>3. TextsOK' /\ FreeInodes
    BY <1>4, <1>8 DEF Inv, TextsOK, FreeInodes, Grows, fsys, AtomicXattr, Xattrs
  <2> QED BY <1>4, <1>6, <2>2, <2>3, StepKeeps
<1> QED BY <1>1, <1>7, <1>8 DEF SetXattr

LEMMA TruncateKeeps ==
  ASSUME Inv, NEW p \in Procs, NEW store \in {"file", "xattr"}, Truncate(p, store)
  PROVE  Inv'
<1>1. PICK c, o, n : c = proc[p] /\ o = The(p, store) /\ n = Inode(o)
  OBVIOUS
<1>2. /\ IsCallOf(p, c) /\ Fits(c)
      /\ c.pc = (IF store = "xattr" THEN "truncXattr" ELSE "trunc")
  BY <1>1, InCallOK DEF CallOK, Truncate, Inv
<1>3. c.kind # "get" /\ dir /\ (AtomicXattr => store = "file")
  BY <1>2 DEF Fits, GetPcs, DirPcs, SunPcs
<1>4. o \in Objects(program) /\ o[1] = store
  BY <1>1, <1>2, TheObject, StoredStore DEF The
<1>5. Grows /\ ErrnosOK /\ dir' /\ tried' = tried
  BY <1>3, ErrnoSame DEF Truncate, Inside, Grows, Inv
<1>6. /\ Room(o) /\ object' = [object EXCEPT ![o] = n]
      /\ \E t : data' = [data EXCEPT ![n] = t]
  BY <1>1 DEF Truncate
<1>7. n \in 1..MaxInodes /\ n # 0
  BY <1>1, <1>4, <1>6, InodeType DEF Inv
<1>8. /\ data' = [m \in 1..MaxInodes |-> data'[m]]
      /\ \A m \in 1..MaxInodes \ {n} : data'[m] = data[m]
  BY <1>6 DEF Inv, StateOK
<1>9. /\ StateOK' /\ FreeInodes
      /\ \A q \in Xattrs \ {o} : object'[q] # 0 =>
            /\ object'[q] # n
            /\ AtomicXattr => data'[object'[q]] \in tried'[q]
  BY <1>1, <1>4, <1>5, <1>6, <1>8, InodeKept
<1>10. AtomicXattr => o \notin Xattrs
  BY <1>3, <1>4 DEF Xattrs
<1>11. TextsOK'
  BY <1>5, <1>9, <1>10 DEF TextsOK, Grows, AtomicXattr, Xattrs
<1>12. PICK pc : pc = IF store = "xattr" THEN "writeXattr" ELSE "write"
  OBVIOUS
<1>13. PICK e : e = [c EXCEPT !.pc = pc]
  OBVIOUS
<1>14. PICK d : d = [e EXCEPT !.fd = n]
  OBVIOUS
<1>15. IsCallOf(p, e) /\ e.pc = pc /\ e.kind = c.kind
  BY <1>2, <1>13, AtFields
<1>16. IsCallOf(p, d) /\ d.pc = pc /\ d.kind = c.kind /\ d.fd = n
  BY <1>14, <1>15 DEF IsCallOf
<1>17. Fits(d)'
  BY <1>3, <1>5, <1>7, <1>12, <1>16
     DEF Fits, GetPcs, SunPcs, DirPcs, FdPcs, Grows, AtomicXattr
<1>18. proc' = [proc EXCEPT ![p] = d] /\ last' = last
  BY <1>1, <1>12, <1>13, <1>14 DEF Truncate, Stay, Goto, At
<1>19. AtomicXattr => Apart(n)
  BY <1>9, <1>10 DEF Apart
<1>20. Ends(p)
  BY <1>5, <1>16, <1>17, <1>18, <1>19, Goes
<1> QED BY <1>5, <1>9, <1>11, <1>20, StepKeeps

LEMMA WriteKeeps ==
  ASSUME Inv, NEW p \in Procs, NEW store \in {"file", "xattr"}, Write(p, store)
  PROVE  Inv'
<1>1. PICK c : c = proc[p]
  OBVIOUS
<1>2. /\ IsCallOf(p, c) /\ Fits(c) /\ CallOK(p, proc[p])
      /\ c.pc = (IF store = "xattr" THEN "writeXattr" ELSE "write")
  BY <1>1, InCallOK DEF CallOK, Write, Inv
<1>3. /\ c.kind # "get" /\ (store = "xattr" => dir) /\ (AtomicXattr => store = "file")
      /\ c.fd \in 0..MaxInodes
  BY <1>2 DEF Fits, GetPcs, DirPcs, SunPcs
<1>4. Grows
  BY DEF Write, Inside, fsys, Grows
<1>5. \E r : IF store = "xattr" THEN AfterSet(p, r) ELSE PutDone(p, r)
  BY DEF Write
<1>6. Ends(p)
  BY <1>1, <1>2, <1>3, <1>4, <1>5, AfterSetEnds, PutDoneEnds
<1>7. /\ object' = object /\ dir' = dir /\ tried' = tried
      /\ data' = [m \in 1..MaxInodes |-> data'[m]]
      /\ \A m \in 1..MaxInodes \ {c.fd} : data'[m] = data[m]
  BY <1>1 DEF Write, fsys, Inv, StateOK
<1>8. ErrnosOK
  BY ErrnoSame, ErrnoType DEF Write, Inv, Errnos
<1>9. StateOK'
  BY <1>4, <1>7, <1>8 DEF Inv, StateOK, Grows, ErrnosOK
<1>10. FreeInodes
  BY <1>7 DEF FreeInodes
<1>11. TextsOK'
  <2> SUFFICES ASSUME AtomicXattr, NEW o \in Xattrs, object[o] # 0
               PROVE  data'[object[o]] \in tried[o]
    BY <1>4, <1>7 DEF TextsOK, Grows, AtomicXattr, Xattrs
  <2>1. object[o] # c.fd
    BY <1>1 DEF Inv, FdsOK, NotXattr
  <2>2. object[o] \in 1..MaxInodes \ {c.fd}
    BY <2>1, InodesAssumption DEF Inv, StateOK, Xattrs
  <2> QED BY <1>7, <2>2 DEF Inv, TextsOK
<1> QED BY <1>4, <1>6, <1>9, <1>10, <1>11, StepKeeps

LEMMA DeleteAttrKeeps == ASSUME Inv, NEW p \in Procs, DeleteAttr(p) PROVE Inv'
<1>1. PICK c : c = proc[p]
  OBVIOUS
<1>2. IsCallOf(p, c) /\ c.kind = "delete"
  BY <1>1, InCallOK DEF CallOK, Fits, DeleteAttr, Inv
<1>3. Grows /\ data' = data /\ tried' = tried /\ dir' = dir
  BY DEF DeleteAttr, Inside, Grows
<1>4. Ends(p)
  BY <1>1, <1>2 DEF DeleteAttr, Finish, Ends, Returns, AnswerOK
<1>5. ErrnosOK
  <2>1. NoXattr(p) \in Errnos
    BY NoXattrType
  <2> QED BY <2>1, ErrnoSame, ErrnoType DEF DeleteAttr, Inv, Errnos
<1>6. PICK store \in {"file", "xattr"} :
        \/ object' = object
        \/ object' = [object EXCEPT ![The(p, store)] = 0]
  BY DEF DeleteAttr
<1>7. PICK o : o = The(p, store)
  OBVIOUS
<1>8. o \in Objects(program)
  BY <1>1, <1>2, <1>7, TheObject DEF The
<1>9. StateOK'
  <2>1. CASE object' = object
    BY <1>3, <1>5, <2>1 DEF Inv, StateOK, Grows, ErrnosOK
  <2>2. CASE object' = [object EXCEPT ![o] = 0]
    <3>1. 0 \in 0..MaxInodes
      BY InodesAssumption
    <3>2. data' = [m \in 1..MaxInodes |-> data'[m]]
      BY <1>3 DEF Inv, StateOK
    <3> QED BY <1>3, <1>5, <1>8, <2>2, <3>1, <3>2, ObjectChanges DEF Inv
  <2> QED BY <1>6, <1>7, <2>1, <2>2
<1>10. \A q \in Objects(program) : object'[q] # 0 => object'[q] = object[q]
  BY <1>6, <1>7, <1>8 DEF Inv, StateOK
<1>11. FreeInodes /\ TextsOK'
  BY <1>3, <1>10 DEF FreeInodes, TextsOK, Inv, Grows, Xattrs, AtomicXattr
<1> QED BY <1>3, <1>4, <1>9, <1>11, StepKeeps

LEMMA OpenRWKeeps == ASSUME Inv, NEW p \in Procs, OpenRW(p) PROVE Inv'
<1>1. PICK c, o, n : c = proc[p] /\ o = The(p, "file") /\ n = Inode(o)
  OBVIOUS
<1>2. IsCallOf(p, c) /\ Fits(c) /\ c.pc = "openRW"
  BY <1>1, InCallOK DEF CallOK, OpenRW, Inv
<1>3. c.kind # "get"
  BY <1>2 DEF Fits, GetPcs
<1>4. o \in Objects(program) /\ o[1] = "file"
  BY <1>1, <1>2, TheObject, StoredStore DEF The
<1>5. Grows /\ tried' = tried /\ dir' = dir
  BY DEF OpenRW, Inside, Grows
<1>6. ErrnosOK
  BY ErrnoSame, ErrnoType DEF OpenRW, Inv, Errnos
<1>7. CASE dir
  <2>1. /\ Room(o) /\ object' = [object EXCEPT ![o] = n]
        /\ data' = data \/ \E t : data' = [data EXCEPT ![n] = t]
    BY <1>1, <1>7 DEF OpenRW
  <2>2. n \in 1..MaxInodes /\ n # 0
    BY <1>1, <1>4, <2>1, InodeType DEF Inv
  <2>3. /\ data' = [m \in 1..MaxInodes |-> data'[m]]
        /\ \A m \in 1..MaxInodes \ {n} : data'[m] = data[m]
    BY <2>1 DEF Inv, StateOK
  <2>4. /\ StateOK' /\ FreeInodes
        /\ \A q \in Xattrs \ {o} : object'[q] # 0 =>
              /\ object'[q] # n
              /\ AtomicXattr => data'[object'[q]] \in tried'[q]
    BY <1>1, <1>4, <1>5, <1>6, <1>7, <2>1, <2>3, InodeKept
  <2>5. o \notin Xattrs
    BY <1>4 DEF Xattrs
  <2>6. TextsOK'
    BY <1>5, <2>4, <2>5 DEF TextsOK, Grows, AtomicXattr, Xattrs
  <2>7. PICK e : e = [c EXCEPT !.pc = "seekRW"]
    OBVIOUS
  <2>8. PICK d : d = [e EXCEPT !.fd = n]
    OBVIOUS
  <2>9. IsCallOf(p, e) /\ e.pc = "seekRW" /\ e.kind = c.kind
    BY <1>2, <2>7, AtFields
  <2>10. IsCallOf(p, d) /\ d.pc = "seekRW" /\ d.kind = c.kind /\ d.fd = n
    BY <2>8, <2>9 DEF IsCallOf
  <2>11. Fits(d)'
    BY <1>3, <2>2, <2>10 DEF Fits, GetPcs, SunPcs, DirPcs, FdPcs
  <2>12. proc' = [proc EXCEPT ![p] = d] /\ last' = last
    BY <1>1, <1>7, <2>7, <2>8 DEF OpenRW, Stay, Goto, At
  <2>13. Apart(n)
    BY <2>4, <2>5 DEF Apart
  <2>14. Ends(p)
    BY <1>5, <2>10, <2>11, <2>12, <2>13, Goes
  <2> QED BY <1>5, <2>4, <2>6, <2>14, StepKeeps
<1>8. CASE ~dir
  <2>1. object' = object /\ data' = data
    BY <1>8 DEF OpenRW
  <2>2. Ends(p)
    BY <1>1, <1>3, <1>8 DEF OpenRW, Finish, Ends, Returns, AnswerOK
  <2>3. StateOK'
    BY <1>5, <1>6, <2>1 DEF Inv, StateOK, Grows, ErrnosOK
  <2>4. TextsOK' /\ FreeInodes
    BY <1>5, <2>1 DEF Inv, TextsOK, FreeInodes, Grows, AtomicXattr, Xattrs
  <2> QED BY <1>5, <2>2, <2>3, <2>4, StepKeeps
<1> QED BY <1>7, <1>8

LEMMA WriteRWKeeps == ASSUME Inv, NEW p \in Procs, WriteRW(p) PROVE Inv'
<1>1. PICK c : c = proc[p]
  OBVIOUS
<1>2. IsCallOf(p, c) /\ Fits(c) /\ c.pc = "writeRW" /\ IsText(c.text)
  BY <1>1, InCallOK DEF CallOK, IsCallOf, WriteRW, Inv
<1>3. c.kind # "get" /\ Slot(c) \in Objects(program)
  BY <1>2, TheObject DEF Fits, GetPcs
<1>4. /\ Grows
      /\ tried' = [q \in Objects(program) |-> tried'[q]]
      /\ \A q \in Objects(program) : \A u \in tried'[q] : IsText(u)
  BY <1>1, <1>2, <1>3, TriedMore DEF WriteRW, Inside, Inv
<1>5. /\ object' = object /\ dir' = dir /\ errno' = errno
      /\ data' = [m \in 1..MaxInodes |-> data'[m]]
      /\ \A m \in 1..MaxInodes \ {c.fd} : data'[m] = data[m]
  BY <1>1 DEF WriteRW, Inv, StateOK
<1>6. Ends(p)
  BY <1>1, <1>3 DEF WriteRW, Finish, Ends, Returns, AnswerOK
<1>7. StateOK'
  BY <1>4, <1>5 DEF Inv, StateOK, Grows
<1>8. FreeInodes
  BY <1>5 DEF FreeInodes
<1>9. TextsOK'
  <2> SUFFICES ASSUME AtomicXattr, NEW o \in Xattrs, object[o] # 0
               PROVE  data'[object[o]] \in tried'[o]
    BY <1>4, <1>5 DEF TextsOK, Grows, AtomicXattr, Xattrs
  <2>1. object[o] # c.fd
    BY <1>1 DEF Inv, FdsOK, NotXattr
  <2>2. object[o] \in 1..MaxInodes \ {c.fd}
    BY <2>1, InodesAssumption DEF Inv, StateOK, Xattrs
  <2> QED BY <1>4, <1>5, <2>2 DEF Inv, TextsOK, Grows, Xattrs
<1> QED BY <1>4, <1>6, <1>7, <1>8, <1>9, StepKeeps

LEMMA CrashKeeps == ASSUME Inv, NEW p \in Procs, Crash(p) PROVE Inv'
<1>1. Grows /\ UNCHANGED <<fsys, errno, tried>> /\ Ends(p)
  BY DEF Crash, fsys, Grows, Ends, Dies
<1>2. StateOK'
  BY <1>1 DEF Inv, StateOK, Grows, fsys
<1>3. TextsOK' /\ FreeInodes
  BY <1>1 DEF Inv, TextsOK, FreeInodes, Grows, fsys, AtomicXattr, Xattrs
<1> QED BY <1>1, <1>2, <1>3, StepKeeps

(* A call that begins puts the mark of an overlap on others, no more.      *)
LEMMA BeginKeeps ==
  ASSUME Inv, NEW p \in Procs, NEW b \in program.ops[p], Begin(p, b)
  PROVE  Inv'
<1>1. UNCHANGED <<program, setting, fsys, errno, last, tried>> /\ Grows
  BY DEF Begin, fsys, Grows
<1>2. StateOK'
  BY <1>1 DEF Inv, StateOK, fsys
<1>3. TextsOK'
  BY <1>1 DEF Inv, TextsOK, fsys, AtomicXattr, Xattrs
<1>4. LastOK'
  BY <1>1 DEF Inv, LastOK, AnswerOK, Put1, AtomicXattr
<1>5. IsCall(b)
  BY ProgramsAssumption DEF Inv, StateOK, IsProgram
<1>6. CallOK(p, proc[p])' /\ proc'[p].fd = 0
  <2>1. PICK c : c = Begun(p, b)
    OBVIOUS
  <2>2. proc'[p] = c
    BY <2>1 DEF Begin
  <2>3. /\ c = [kind |-> c.kind, stores |-> c.stores, attr |-> c.attr, arg |-> c.arg,
                pc |-> c.pc, where |-> c.where, fd |-> c.fd, len |-> c.len,
                result |-> c.result, text |-> c.text, found |-> c.found,
                after |-> c.after, alone |-> c.alone]
        /\ c.kind = b.kind /\ c.stores = b.stores /\ c.attr = b.attr /\ c.fd = 0
    BY <2>1 DEF Begun
  <2>4. IsText(c.text)
    <3>1. b.kind = "put" => IsText(b.arg)
      BY <1>5 DEF IsCall, IsText
    <3>2. IsText(Decimal(b.arg)) /\ IsText(<<>>)
      BY DecimalIsText DEF IsText
    <3>3. \/ b.kind = "put" /\ c.text = b.arg
          \/ c.text = Decimal(b.arg)
          \/ c.text = <<>>
      BY <2>1 DEF Begun
    <3> QED BY <3>1, <3>2, <3>3
  <2>5. IsCallOf(p, c)'
    BY <1>1, <2>3, <2>4 DEF IsCallOf
  <2>6. \/ c.kind \in Getting /\ c.pc \in {"size", "open", "none"}
                              /\ (c.pc = "open" => "file" \in c.stores)
        \/ c.kind = "exists" /\ c.pc = "check"
        \/ c.kind = "delete" /\ c.pc = "locate"
        \/ c.kind \notin {"get", "exists", "delete"} /\ c.pc \in {"find", "openRW", "nullDir"}
    <3>1. b.stores \in SUBSET {"file", "xattr"}
      BY <1>5 DEF IsCall
    <3>2. /\ FirstRead(b.stores) \in {"size", "open", "none"}
          /\ FirstRead(b.stores) = "open" => "file" \in b.stores
      BY <3>1, FirstReadPcs
    <3> QED BY <1>5, <2>1, <3>2 DEF IsCall, Getting, Begun
  <2>7. Fits(c)'
    BY <2>3, <2>6, InodesAssumption DEF Fits, GetPcs, Getting, SunPcs, DirPcs, FdPcs
  <2>8. CallOK(p, c)'
    BY <2>5, <2>7 DEF CallOK
  <2> QED BY <2>2, <2>3, <2>8 DEF CallOK, IsCallOf, Fits
<1>7. ASSUME NEW q \in Procs \ {p}
      PROVE  /\ proc'[q].fd = proc[q].fd
             /\ (proc[q] \in {Idle, Dead} \/ CallOK(q, proc[q]))'
  <2>1. PICK c, d : c = proc[q] /\ d = proc'[q]
    OBVIOUS
  <2>2. d = c \/ (c.pc \notin {"idle", "dead"} /\ d = [c EXCEPT !.alone = FALSE])
    BY <2>1 DEF Begin, Others
  <2>3. c \in {Idle, Dead} \/ CallOK(q, c)
    BY <2>1 DEF Inv, ProcsOK
  <2>4. d.fd = c.fd /\ (d \in {Idle, Dead} \/ CallOK(q, d))
    <3>1. CASE d # c
      <4>1. CallOK(q, c)
        BY <2>2, <2>3, <3>1 DEF Idle, Dead
      <4>2. /\ IsCallOf(q, d) /\ d.pc = c.pc /\ d.kind = c.kind /\ d.stores = c.stores
            /\ d.attr = c.attr /\ d.len = c.len /\ d.text = c.text /\ d.fd = c.fd
        BY <2>2, <3>1, <4>1 DEF CallOK, IsCallOf
      <4>3. Slot(d) = Slot(c)
        BY <4>2 DEF Slot
      <4> QED BY <4>1, <4>2, <4>3 DEF CallOK, Fits
    <3> QED BY <2>3, <3>1
  <2>5. d \in {Idle, Dead} \/ CallOK(q, d)'
    BY <1>1, <2>4, SameCall
  <2>6. CallOK(q, d)' => CallOK(q, proc[q])'
    BY <2>1 DEF CallOK, IsCallOf, Fits
  <2> QED BY <2>1, <2>4, <2>5, <2>6
<1>8. ProcsOK'
  <2>1. proc' = [q \in Procs |-> proc'[q]]
    BY DEF Begin
  <2> QED BY <1>6, <1>7, <2>1 DEF ProcsOK
<1>9. FdsOK'
  <2> SUFFICES ASSUME AtomicXattr, NEW q \in Procs, NEW o \in Xattrs, object[o] # 0
               PROVE  object[o] # proc'[q].fd
    BY <1>1 DEF FdsOK, NotXattr, AtomicXattr, Xattrs, fsys
  <2> QED BY <1>6, <1>7 DEF Inv, FdsOK, NotXattr
<1> QED BY <1>2, <1>3, <1>4, <1>8, <1>9 DEF Inv

----------------------------------------------------------------------------
(* The start: the seeds lie in the first inodes.                           *)

LEMMA SetToSeqInjective ==
  ASSUME NEW D, IsFiniteSet(D)
  PROVE  /\ SetToSeq(D) \in [1..Cardinality(D) -> D]
         /\ \A i, j \in DOMAIN SetToSeq(D) : SetToSeq(D)[i] = SetToSeq(D)[j] => i = j
<1>1. ExistsBijection(1..Cardinality(D), D)
  BY FS_CardinalityType
<1>2. \E f \in [1..Cardinality(D) -> D] : IsInjective(f)
  BY <1>1 DEF ExistsBijection, Bijection, Injection, IsInjective
<1> QED BY <1>2 DEF SetToSeq, IsInjective

LEMMA MaxOfOne ==
  ASSUME NEW X, X \subseteq Nat, \A a, b \in X : a = b
  PROVE  Max({0} \cup X) \in {0} \cup X
<1>1. \E x \in {0} \cup X : \A y \in {0} \cup X : x >= y
  <2>1. CASE X = {}
    BY <2>1
  <2>2. CASE X # {}
    <3>1. PICK x : x \in X
      BY <2>2
    <3>2. \A y \in {0} \cup X : x >= y
      BY <3>1
    <3> QED BY <3>1, <3>2
  <2> QED BY <2>1, <2>2
<1> QED BY <1>1 DEF Max

(* What is stored when a program starts.                                   *)
LEMMA InitAttrs ==
  ASSUME Init
  PROVE  /\ program \in Programs /\ setting \in program.settings
         /\ object \in [Objects(program) -> 0..MaxInodes]
         /\ data = [n \in 1..MaxInodes |-> data[n]]
         /\ tried = [o \in Objects(program) |->
                      IF object[o] = 0 THEN {} ELSE {program.seed[o]}]
         /\ acked = [o \in Objects(program) |->
                      IF object[o] = 0 THEN NULL ELSE program.seed[o]]
         /\ \A o \in Objects(program) : object[o] # 0 =>
              /\ data[object[o]] = program.seed[o] /\ IsText(program.seed[o])
              /\ o \in DOMAIN program.seed /\ dir
              /\ \A q \in Objects(program) : object[o] = object[q] => o = q
<1>1. PICK g : g = program
  OBVIOUS
<1>2. program \in Programs /\ IsProgram(g) /\ setting \in program.settings
  BY <1>1, ProgramsAssumption DEF Init
<1>3. PICK D : D = DOMAIN g.seed
  OBVIOUS
<1>4. /\ IsFiniteSet(D) /\ Cardinality(D) \in Nat /\ Cardinality(D) <= MaxInodes
      /\ D # {} => g.dir
      /\ \A o \in D : IsText(g.seed[o])
  BY <1>2, <1>3, FS_CardinalityType DEF IsProgram, IsText
<1>5. PICK seeds : seeds = SetToSeq(D)
  OBVIOUS
<1>6. /\ seeds \in [1..Cardinality(D) -> D]
      /\ \A i, j \in DOMAIN seeds : seeds[i] = seeds[j] => i = j
  BY <1>4, <1>5, SetToSeqInjective
<1>7. PICK f : f = [o \in Objects(program) |->
                      Max({0} \cup {i \in DOMAIN seeds : seeds[i] = o})]
  OBVIOUS
<1>8. ASSUME NEW o \in Objects(program)
      PROVE  /\ f[o] \in 0..MaxInodes
             /\ f[o] # 0 => f[o] \in DOMAIN seeds /\ seeds[f[o]] = o /\ o \in D
  <2>1. PICK X : X = {i \in DOMAIN seeds : seeds[i] = o}
    OBVIOUS
  <2>2. X \subseteq Nat /\ \A a, b \in X : a = b
    BY <1>6, <2>1
  <2>3. Max({0} \cup X) \in {0} \cup X
    BY <2>2, MaxOfOne
  <2>4. f[o] \in {0} \cup X
    BY <1>7, <2>1, <2>3
  <2> QED BY <1>4, <1>6, <2>1, <2>4, InodesAssumption
<1>9. /\ object = f
      /\ data = [n \in 1..MaxInodes |->
                  IF n \in DOMAIN seeds THEN g.seed[seeds[n]] ELSE <<>>]
      /\ tried = [o \in Objects(program) |-> IF f[o] = 0 THEN {} ELSE {g.seed[o]}]
      /\ acked = [o \in Objects(program) |-> IF f[o] = 0 THEN NULL ELSE g.seed[o]]
      /\ dir = g.dir
  BY <1>1, <1>3, <1>5, <1>7 DEF Init
<1>10. object \in [Objects(program) -> 0..MaxInodes]
  BY <1>7, <1>8, <1>9
<1>11. ASSUME NEW o \in Objects(program), object[o] # 0
       PROVE  /\ data[object[o]] = program.seed[o] /\ IsText(program.seed[o])
              /\ o \in DOMAIN program.seed /\ dir
              /\ \A q \in Objects(program) : object[o] = object[q] => o = q
  <2>1. /\ object[o] \in 1..MaxInodes /\ object[o] \in DOMAIN seeds
        /\ seeds[object[o]] = o /\ o \in D
    BY <1>8, <1>9, <1>11, InodesAssumption
  <2>2. data[object[o]] = g.seed[o]
    BY <1>9, <2>1
  <2>3. \A q \in Objects(program) : object[o] = object[q] => o = q
    BY <1>8, <1>9, <1>11
  <2> QED BY <1>1, <1>3, <1>4, <1>9, <2>1, <2>2, <2>3
<1> QED BY <1>1, <1>2, <1>9, <1>10, <1>11

LEMMA InitInv == Init => Inv
<1> SUFFICES ASSUME Init PROVE Inv
  OBVIOUS
<1>1. /\ errno = [p \in Procs |-> 0]
      /\ proc = [p \in Procs |-> Idle]
      /\ last = NULL
  BY DEF Init
<1>2. StateOK
  BY <1>1, InitAttrs DEF StateOK, Errnos
<1>3. ProcsOK /\ LastOK
  BY <1>1 DEF ProcsOK, LastOK
<1>4. TextsOK
  BY InitAttrs DEF TextsOK, Xattrs
<1>5. FdsOK
  BY <1>1 DEF FdsOK, NotXattr, Idle
<1> QED BY <1>2, <1>3, <1>4, <1>5 DEF Inv

LEMMA NextKeeps == Inv /\ [Next]_vars => Inv'
<1> SUFFICES ASSUME Inv, [Next]_vars PROVE Inv'
  OBVIOUS
<1>1. CASE UNCHANGED vars
  <2>1. /\ UNCHANGED <<program, setting, dir, object, data, errno, proc, last, tried>>
        /\ Grows
    BY <1>1 DEF vars, fsys, Grows
  <2>2. StateOK'
    BY <2>1 DEF Inv, StateOK
  <2>3. TextsOK' /\ FdsOK'
    BY <2>1 DEF Inv, TextsOK, FdsOK, NotXattr, Xattrs, AtomicXattr
  <2>4. LastOK'
    BY <2>1 DEF Inv, LastOK, AnswerOK, Put1, AtomicXattr
  <2>5. ASSUME NEW p \in Procs PROVE (proc[p] \in {Idle, Dead} \/ CallOK(p, proc[p]))'
    <3>1. PICK c : c = proc[p] /\ c = proc'[p]
      BY <2>1
    <3>2. c \in {Idle, Dead} \/ CallOK(p, c)'
      BY <2>1, <3>1, SameCall DEF Inv, ProcsOK
    <3> QED BY <3>1, <3>2 DEF CallOK, IsCallOf, Fits
  <2>6. ProcsOK'
    BY <2>1, <2>5 DEF Inv, ProcsOK
  <2> QED BY <2>2, <2>3, <2>4, <2>6 DEF Inv
<1>2. ASSUME NEW p \in Procs, NEW c \in program.ops[p], Begin(p, c) PROVE Inv'
  BY <1>2, BeginKeeps
<1>3. ASSUME NEW p \in Procs, Get(p) PROVE Inv'
  BY <1>3, NoReadKeeps, XattrSizeKeeps, XattrValueKeeps, OpenKeeps, SeekKeeps, ReadKeeps,
     WalkKeeps DEF Get
<1>4. ASSUME NEW p \in Procs, Put(p) PROVE Inv'
  BY <1>4, FindPlaceKeeps, MakeDirKeeps, NoWriteKeeps, SetXattrKeeps, TruncateKeeps,
     WriteKeeps DEF Put
<1>5. ASSUME NEW p \in Procs, IncrDir(p) PROVE Inv'
  BY <1>5, OpenRWKeeps, SeekRWKeeps, ReadRWKeeps, WriteRWKeeps, NullDirKeeps DEF IncrDir
<1>6. ASSUME NEW p \in Procs, Check(p) \/ Locate(p) \/ DeleteAttr(p) \/ Crash(p) PROVE Inv'
  BY <1>6, CheckKeeps, LocateKeeps, DeleteAttrKeeps, CrashKeeps
<1> QED BY <1>1, <1>2, <1>3, <1>4, <1>5, <1>6 DEF Next

----------------------------------------------------------------------------
(* Every stored attribute has an inode of its own, the directory is there  *)
(* while one is stored, and who reads or writes a file has one open,       *)
(* however calls of any number of processes fail, crash and interleave.    *)
THEOREM AttrsTypeCorrect == Spec => []TypeOK
<1>1. Inv => TypeOK
  <2> SUFFICES ASSUME Inv PROVE TypeOK
    OBVIOUS
  <2>1. DOMAIN object = Objects(program)
    BY DEF Inv, StateOK
  <2>2. ASSUME NEW p \in Procs, proc[p].pc \in FdPcs PROVE proc[p].fd # 0
    BY <2>2, InCallOK DEF Inv, CallOK, Fits, FdPcs
  <2>3. \A p \in Procs : errno[p] \in Errnos
    BY DEF Inv, StateOK
  <2> QED BY <2>1, <2>2, <2>3 DEF Inv, StateOK, TypeOK, FdPcs, Errnos
<1> QED BY <1>1, InitInv, NextKeeps, PTL DEF Spec

(* Where an extended attribute is set in one call, what iGet returns from  *)
(* it is a text that somebody put to it (on FreeBSD the start of one),     *)
(* although its size is asked for in a call of its own.                    *)
THEOREM XattrsReadWhole == Spec => []XattrProvenance
<1>1. Inv => XattrProvenance
  BY DEF Inv, LastOK, AnswerOK, Put1, XattrProvenance
<1> QED BY <1>1, InitInv, NextKeeps, PTL DEF Spec
=============================================================================
