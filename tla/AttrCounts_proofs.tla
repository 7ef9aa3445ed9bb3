-------------------------- MODULE AttrCounts_proofs --------------------------
(***************************************************************************)
(* Proofs about counters, for any number of processes, attributes and      *)
(* calls: an increment that follows a write of the same process counts,    *)
(* because that write has left errno clean; and a counter is never ahead   *)
(* of the increments begun, however many of them are lost.                 *)
(***************************************************************************)
EXTENDS AttrAnswers_proofs

\* No attribute has an empty name among the extended attributes (Linux refuses
\* it, and leaves an error).
GoodNames == \A g \in Programs : \A p \in Procs : \A c \in g.ops[p] :
               GenerateXattrName(c.attr) # <<>>

----------------------------------------------------------------------------
(* The inductive invariant, part by part.                                  *)

ReadPcs  == {"size", "value", "openXattr", "open", "seek", "read"}
StorePcs == {"setxattr", "truncXattr", "trunc"} \cup SetPcs

\* Where the property speaks: with paging, at most one level, no failed write.
Fair == setting.paged /\ setting.depth < 2 /\ faults = 0

\* The call reads where the attribute can be.
AtHome(c) == setting.depth = 0 \/ c.where = "home"

\* An increment after a write of the same process, of a number that is known.
Known(c) == /\ c.kind = "incrBy" /\ c.after /\ c.alone
            /\ acked[Slot(c)] \notin {NULL, Unknown}
Counted(c)   == Strtoll(acked[Slot(c)]).value + c.arg

\* A write to a directory that is there has cleared errno.  An increment that
\* counts reads with errno clean, and carries the sum from then on.
CallC(p, c) ==
  /\ c.found => c.pc \in StorePcs /\ (setting.depth = 0 => errno[p] = 0)
  /\ Known(c) =>
       /\ c.pc \in ReadPcs /\ AtHome(c) => errno[p] = 0
       /\ c.pc \in {"seek", "read"} => AtHome(c)
       /\ c.pc \in PutPcs => c.result = Counted(c)
AllC   == Fair => \A p \in Procs : Active(p) => CallC(p, proc[p])

\* Between two calls of a process nothing touches its errno.
CleanC == Fair /\ setting.depth = 0 =>
            \A p \in Procs : last # NULL /\ last.by = p /\ last.call.found
                               /\ proc[p].pc = "idle" => errno[p] = 0

CInv == faults \in Nat /\ AllC /\ CleanC /\ RewrittenCounterCounts

----------------------------------------------------------------------------
(* How a step of process p may end.                                        *)

\* What the step leaves alone.
SameC(p) ==
  /\ setting' = setting /\ faults' \in Nat /\ (faults' = 0 => faults = 0)
  /\ \A q \in Procs \ {p} : errno'[q] = errno[q]

GoesC(p) ==
  \E d : /\ proc' = [proc EXCEPT ![p] = d] /\ d.pc # "idle" /\ (Fair' => CallC(p, d)')
         /\ last' = last /\ acked' = acked

ReturnsC(p) ==
  \E r, s : /\ Finish(p, r, s)
            /\ proc[p].found /\ setting.depth = 0 /\ Fair' => errno'[p] = 0
            /\ Known(proc[p]) /\ Fair' => r = Counted(proc[p])

DiesC(p) ==
  /\ proc' = [proc EXCEPT ![p] = Dead] /\ last' = last
  /\ \E s : acked' = [acked EXCEPT ![Slot(proc[p])] = IF Writes(proc[p]) THEN s ELSE @]

EndsC(p) == SameC(p) /\ (GoesC(p) \/ ReturnsC(p) \/ DiesC(p))

LEMMA EndsKeepC ==
  ASSUME Inv, QInv, CInv, NEW p \in Procs, Active(p), EndsC(p)
  PROVE  CInv'
<1>1. PICK c, o : c = proc[p] /\ o = Slot(c)
  OBVIOUS
<1>2. PICK d : proc' = [proc EXCEPT ![p] = d]
  BY DEF EndsC, GoesC, ReturnsC, DiesC, Finish
<1>3. proc'[p] = d /\ \A q \in Procs : q # p => proc'[q] = proc[q]
  BY <1>2, NextState DEF Inv
<1>4. acked = [x \in Objects(program) |-> acked[x]]
  BY DEF QInv, AckedOK
<1>5. /\ \A x \in Objects(program) : x # o => acked'[x] = acked[x]
      /\ ~Writes(c) => \A x \in Objects(program) : acked'[x] = acked[x]
  <2>1. CASE GoesC(p)
    BY <2>1 DEF GoesC
  <2>2. CASE ReturnsC(p)
    <3>1. PICK s : acked' = [acked EXCEPT ![o] = IF ~Writes(c) THEN @ ELSE s]
      BY <1>1, <2>2 DEF ReturnsC, Finish
    <3> QED BY <1>4, <3>1
  <2>3. CASE DiesC(p)
    <3>1. PICK s : acked' = [acked EXCEPT ![o] = IF Writes(c) THEN s ELSE @]
      BY <1>1, <2>3 DEF DiesC
    <3> QED BY <1>4, <3>1
  <2> QED BY <2>1, <2>2, <2>3 DEF EndsC
<1>6. Fair' => Fair
  BY DEF EndsC, SameC, Fair
<1>7. ASSUME Fair', NEW q \in Procs, Active(q)' PROVE CallC(q, proc[q])'
  <2>1. CASE q = p
    <3>1. CASE GoesC(p)
      BY <1>3, <1>7, <2>1, <3>1 DEF GoesC, CallC, Known, Counted, AtHome, Inv, ProcsOK
    <3>2. CASE ReturnsC(p) \/ DiesC(p)
      <4>1. d \in {Idle, Dead}
        BY <1>3, <3>2 DEF ReturnsC, DiesC, Finish, Inv, ProcsOK
      <4> QED BY <1>3, <1>7, <2>1, <4>1 DEF Active, Idle, Dead
    <3> QED BY <3>1, <3>2 DEF EndsC
  <2>2. CASE q # p
    <3>1. PICK e : e = proc[q] /\ e = proc'[q]
      BY <1>3, <2>2
    <3>2. Active(q) /\ Slot(e) \in Objects(program)
      BY <1>7, <3>1, ActiveCall DEF Active, Inv
    <3>3. CallC(q, e)
      BY <1>6, <1>7, <3>1, <3>2 DEF CInv, AllC
    <3>4. errno'[q] = errno[q] /\ setting' = setting
      BY <2>2 DEF EndsC, SameC
    <3>5. Known(e)' => Known(e) /\ acked'[Slot(e)] = acked[Slot(e)]
      <4>1. e.kind = "incrBy" /\ e.alone /\ Slot(e) = o => ~Writes(c)
        BY <1>1, <2>2, <3>1, <3>2 DEF QInv, AloneOK
      <4> QED BY <1>5, <3>2, <4>1 DEF Known
    <3>6. CallC(q, e)'
      BY <3>3, <3>4, <3>5 DEF CallC, AtHome, Counted
    <3> QED BY <3>1, <3>6 DEF CallC, Known, Counted, AtHome
  <2> QED BY <2>1, <2>2
<1>8. ASSUME Fair', setting'.depth = 0, NEW q \in Procs, last' # NULL, last'.by = q,
             last'.call.found, proc'[q].pc = "idle"
      PROVE  errno'[q] = 0
  <2>1. CASE q = p
    <3>1. CASE GoesC(p)
      BY <1>8, <2>1, <3>1 DEF GoesC, Inv, ProcsOK
    <3>2. CASE ReturnsC(p)
      BY <1>8, <2>1, <3>2 DEF ReturnsC, Finish, EndsC, SameC
    <3>3. CASE DiesC(p)
      BY <1>8, <2>1, <3>3 DEF DiesC, Dead, Inv, ProcsOK
    <3> QED BY <3>1, <3>2, <3>3 DEF EndsC
  <2>2. CASE q # p
    <3>1. last' = last \/ last'.by = p
      BY DEF EndsC, GoesC, ReturnsC, DiesC, Finish
    <3>2. last # NULL /\ last.by = q /\ last.call.found /\ proc[q].pc = "idle"
      BY <1>3, <1>8, <2>2, <3>1
    <3>3. errno[q] = 0
      BY <1>6, <1>8, <3>2 DEF CInv, CleanC, EndsC, SameC
    <3> QED BY <2>2, <3>3 DEF EndsC, SameC
  <2> QED BY <2>1, <2>2
<1>9. RewrittenCounterCounts'
  <2>1. CASE last' = last
    BY <2>1 DEF CInv, RewrittenCounterCounts, EndsC, SameC
  <2>2. CASE ReturnsC(p)
    <3>1. PICK r, s : /\ last' = [by |-> p, call |-> c, ret |-> r, before |-> acked[o]]
                      /\ Known(c) /\ Fair' => r = Counted(c)
      BY <1>1, <2>2 DEF ReturnsC, Finish
    <3> QED BY <1>1, <3>1 DEF RewrittenCounterCounts, Known, Counted, Fair
  <2> QED BY <2>1, <2>2 DEF EndsC, GoesC, DiesC
<1> QED BY <1>7, <1>8, <1>9 DEF CInv, AllC, CleanC, EndsC, SameC


----------------------------------------------------------------------------
(* What the steps share.                                                   *)

LEMMA LocalSame ==
  ASSUME Inv, CInv, NEW p \in Procs, Local, (\E e : Errno(p, e)) \/ errno' = errno
  PROVE  SameC(p)
BY DEF Local, Inside, SameC, Errno, Inv, StateOK, CInv

LEMMA InsideSame ==
  ASSUME Inv, CInv, NEW p \in Procs, Inside, (\E e : Errno(p, e)) \/ errno' = errno,
         faults' \in {faults, faults + 1}
  PROVE  SameC(p)
BY DEF Inside, SameC, Errno, Inv, StateOK, CInv

LEMMA ErrnoNow ==
  ASSUME Inv, NEW p \in Procs, NEW e, Errno(p, e)
  PROVE  errno'[p] = e
BY DEF Errno, Inv, StateOK

(* The attribute of an increment that counts is there.                     *)
LEMMA KnownThere ==
  ASSUME Inv, QInv, NEW p \in Procs, Active(p), NEW c, c = proc[p],
         c.pc \notin SetPcs \cup RWPcs, Known(c)
  PROVE  object[Slot(c)] # 0 /\ dir /\ (Here(p) <=> AtHome(c))
<1>1. Slot(c) \in Objects(program)
  BY ActiveCall DEF Inv
<1>2. Holds(Slot(c), acked[Slot(c)]) /\ acked[Slot(c)] # NULL
  BY AloneHolds DEF Known
<1>3. object[Slot(c)] # 0 /\ dir
  BY <1>1, <1>2 DEF Holds, Inv, StateOK
<1> QED BY <1>3 DEF Here, AtHome

(* A call that goes on where nothing is said about it.                     *)
LEMMA QuietC ==
  ASSUME NEW p, NEW c, NEW d, ~c.found, d.found = c.found,
         d.pc \notin ReadPcs \cup PutPcs \/ d.kind # "incrBy"
  PROVE  CallC(p, d)'
BY DEF CallC, Known, ReadPcs

(* The end of a call of which nothing is asked.                            *)
LEMMA PlainReturn ==
  ASSUME NEW p, NEW c, c = proc[p], Fair' => ~c.found /\ ~Known(c),
         NEW r, NEW s, Finish(p, r, s)
  PROVE  ReturnsC(p)
BY DEF ReturnsC

(* Only a put whose directory was there has found it.                      *)
LEMMA NotFound ==
  ASSUME CInv, NEW p \in Procs, Active(p), NEW c, c = proc[p], Fair, c.pc \notin StorePcs
  PROVE  ~c.found
BY DEF CInv, AllC, CallC

LEMMA AnswerC ==
  ASSUME Inv, QInv, CInv, NEW p \in Procs, Active(p), SameC(p),
         NEW c, c = proc[p], c.kind \in Getting, c.pc \notin StorePcs,
         NEW t, Answer(p, t),
         Fair /\ Known(c) => t = acked[Slot(c)] /\ errno[p] = 0
  PROVE  EndsC(p)
<1>1. Fair' => Fair /\ ~c.found
  BY NotFound DEF SameC, Fair
<1>2. CASE c.kind \in {"get", "getInt", "getCount"}
  <2>1. ~Known(c) /\ \E r : Finish(p, r, Unknown)
    BY <1>2 DEF Answer, Known
  <2> QED BY <1>1, <2>1, PlainReturn DEF EndsC
<1>3. CASE c.kind = "incrBy"
  <2>1. PICK n : /\ n = IF t = NULL \/ errno[p] # 0 THEN 0 ELSE Strtoll(t).value
                 /\ Stay(p, [At(p, "find") EXCEPT !.result = n + c.arg,
                                                  !.text = Decimal(n + c.arg)])
    BY <1>3 DEF Answer
  <2>2. PICK e : e = [c EXCEPT !.pc = "find"]
    OBVIOUS
  <2>3. PICK d : d = [e EXCEPT !.result = n + c.arg, !.text = Decimal(n + c.arg)]
    OBVIOUS
  <2>4. /\ IsCallOf(p, e) /\ e.pc = "find" /\ e.kind = c.kind /\ e.arg = c.arg
        /\ e.found = c.found /\ e.after = c.after /\ e.alone = c.alone
        /\ Slot(e) = Slot(c)
    BY <2>2, ActiveCall, AtFields DEF CallOK, Inv
  <2>5. /\ d.pc = "find" /\ d.kind = c.kind /\ d.arg = c.arg /\ d.result = n + c.arg
        /\ d.found = c.found /\ d.after = c.after /\ d.alone = c.alone
        /\ Slot(d) = Slot(c)
    BY <2>3, <2>4 DEF IsCallOf, Slot
  <2>6. proc' = [proc EXCEPT ![p] = d] /\ last' = last /\ acked' = acked
    BY <2>1, <2>2, <2>3 DEF Stay, Goto, At
  <2>7. Fair' /\ Known(d)' => n = Strtoll(acked[Slot(d)]).value
    BY <1>1, <2>1, <2>5, <2>6 DEF Known
  <2>8. Fair' => CallC(p, d)'
    BY <1>1, <2>5, <2>6, <2>7 DEF CallC, ReadPcs, Counted
  <2> QED BY <2>5, <2>6, <2>8 DEF EndsC, GoesC
<1> QED BY <1>2, <1>3 DEF Getting

LEMMA NotThereC ==
  ASSUME Inv, QInv, CInv, NEW p \in Procs, Active(p), SameC(p),
         NEW c, c = proc[p], c.kind \in Getting \cup {"exists", "delete"},
         c.pc \notin StorePcs, NotThere(p), Fair => ~Known(c)
  PROVE  EndsC(p)
<1>1. CASE c.kind \in {"exists", "delete"}
  <2>1. Fair' => ~c.found /\ ~Known(c)
    BY NotFound DEF SameC, Fair
  <2>2. \E s : Finish(p, FALSE, s)
    BY <1>1 DEF NotThere
  <2> QED BY <2>1, <2>2, PlainReturn DEF EndsC
<1>2. CASE c.kind \notin {"exists", "delete"}
  <2>1. c.kind \in Getting /\ Answer(p, NULL)
    BY <1>2 DEF NotThere
  <2> QED BY <2>1, AnswerC
<1> QED BY <1>1, <1>2

(* Where an increment that counts misses its attribute, a walk follows.    *)
LEMMA MissedC ==
  ASSUME Inv, QInv, CInv, NEW p \in Procs, Active(p), SameC(p),
         NEW c, c = proc[p], c.kind \in Getting \cup {"exists", "delete"},
         c.pc \notin StorePcs, Missed(p), Fair /\ Known(c) => ~AtHome(c)
  PROVE  EndsC(p)
<1>1. IsCallOf(p, c) /\ Shape(c)
  BY ActiveCall DEF CallOK, Inv, QInv, AllQ, CallQ
<1>2. CASE c.where = "plain" /\ setting.paged
  <2>1. PICK d : d = [c EXCEPT !.pc = "walk"]
    OBVIOUS
  <2>2. d.pc = "walk" /\ d.found = c.found
    BY <1>1, <2>1, AtFields
  <2>3. proc' = [proc EXCEPT ![p] = d] /\ last' = last /\ acked' = acked
    BY <1>2, <2>1 DEF Missed, Stay, Goto, At
  <2>4. Fair' => CallC(p, d)'
    <3>1. Fair' => ~c.found
      BY NotFound DEF SameC, Fair
    <3>2. d.pc \notin ReadPcs \cup PutPcs
      BY <2>2 DEF ReadPcs, PutPcs, SetPcs
    <3> QED BY <2>2, <3>1, <3>2, QuietC
  <2> QED BY <2>2, <2>3, <2>4 DEF EndsC, GoesC
<1>3. CASE ~(c.where = "plain" /\ setting.paged)
  <2>1. NotThere(p)
    BY <1>3 DEF Missed
  <2>2. Fair => AtHome(c)
    BY <1>1, <1>3 DEF Fair, Shape, AtHome
  <2> QED BY <2>1, <2>2, NotThereC
<1> QED BY <1>2, <1>3

----------------------------------------------------------------------------
(* Getting.                                                                *)

(* A call that keeps on reading.                                           *)
LEMMA ReadOn ==
  ASSUME CInv, NEW p \in Procs, Active(p), SameC(p), errno' = errno, NEW c, c = proc[p],
         NEW d, d.kind = c.kind, d.found = c.found, d.after = c.after,
         d.alone = c.alone, Slot(d) = Slot(c), d.where = c.where, c.pc \in ReadPcs,
         d.pc \in ReadPcs, d.pc \in {"seek", "read"} => AtHome(c) \/ c.pc = "seek",
         proc' = [proc EXCEPT ![p] = d], last' = last, acked' = acked
  PROVE  EndsC(p)
<1>1. Fair' => Fair /\ CallC(p, c)
  BY DEF SameC, Fair, CInv, AllC
<1>2. c.pc \notin StorePcs /\ d.pc \notin PutPcs /\ d.pc # "idle"
  BY DEF ReadPcs, StorePcs, PutPcs, SetPcs
<1>3. AtHome(d)' <=> AtHome(c)
  BY DEF AtHome, SameC
<1>4. Known(d)' <=> Known(c)
  BY DEF Known
<1>5. Fair' => CallC(p, d)'
  BY <1>1, <1>2, <1>3, <1>4 DEF CallC
<1> QED BY <1>2, <1>5 DEF EndsC, GoesC

LEMMA XattrSizeC ==
  ASSUME OneStore, NoTexts, Inv, QInv, CInv, NEW p \in Procs, XattrSize(p)
  PROVE  CInv'
<1>1. PICK c, b : c = proc[p] /\ b = Bytes(p, "xattr")
  OBVIOUS
<1>2. Active(p) /\ Local /\ c.pc = "size" /\ c.pc \in ReadPcs
  BY <1>1 DEF Active, XattrSize, ReadPcs
<1>3. SameC(p)
  BY <1>2, LocalSame DEF XattrSize
<1>4. /\ IsCallOf(p, c) /\ Fits(c) /\ The(p, "xattr") = Slot(c) /\ c.stores = {"xattr"}
      /\ Present(p, "xattr") <=> Here(p) /\ object[Slot(c)] # 0
  BY <1>1, <1>2, TheSlot DEF Shape, XattrPcs
<1>5. /\ c.kind \in Getting /\ c.pc \notin SetPcs \cup RWPcs
      /\ c.pc \notin StorePcs
  BY <1>2, <1>4 DEF Fits, GetPcs, SetPcs, RWPcs, StorePcs
<1>6. Known(c) => object[Slot(c)] # 0 /\ (Here(p) <=> AtHome(c))
  BY <1>1, <1>2, <1>5, KnownThere
<1>7. CASE ~Present(p, "xattr")
  <2>1. Missed(p)
    BY <1>1, <1>4, <1>7 DEF XattrSize, AfterXattr
  <2> QED BY <1>1, <1>2, <1>3, <1>4, <1>5, <1>6, <1>7, <2>1, MissedC, EndsKeepC
<1>8. CASE Present(p, "xattr")
  <2>1. c.alone /\ acked[Slot(c)] # Unknown => b = acked[Slot(c)] /\ IsText(b)
    BY <1>1, <1>2, <1>4, <1>5, <1>8, SeesText DEF Bytes
  <2>2. Fair /\ Known(c) => errno[p] = 0
    BY <1>1, <1>2, <1>4, <1>6, <1>8 DEF CInv, AllC, CallC
  <2>3. CASE Len(b) = 0
    <3>1. Answer(p, <<>>)
      BY <1>1, <1>8, <2>3 DEF XattrSize
    <3>2. Known(c) => <<>> = acked[Slot(c)]
      BY <2>1, <2>3, WholeText DEF Known
    <3> QED BY <1>1, <1>2, <1>3, <1>5, <2>2, <3>1, <3>2, AnswerC, EndsKeepC
  <2>4. CASE Len(b) # 0
    <3>1. PICK pc : pc = IF AtomicXattr THEN "value" ELSE "openXattr"
      OBVIOUS
    <3>2. PICK e : e = [c EXCEPT !.pc = pc]
      OBVIOUS
    <3>3. PICK d : d = [e EXCEPT !.len = Len(b)]
      OBVIOUS
    <3>4. /\ IsCallOf(p, e) /\ e.pc = pc /\ e.kind = c.kind /\ e.found = c.found
          /\ e.after = c.after /\ e.where = c.where /\ e.alone = c.alone
          /\ Slot(e) = Slot(c)
      BY <1>4, <3>2, AtFields
    <3>5. /\ d.pc = pc /\ d.kind = c.kind /\ d.found = c.found /\ d.after = c.after
          /\ d.where = c.where /\ d.alone = c.alone /\ Slot(d) = Slot(c)
      BY <3>3, <3>4 DEF IsCallOf, Slot
    <3>6. d.pc \in ReadPcs /\ d.pc \notin {"seek", "read"}
      BY <3>1, <3>5 DEF ReadPcs
    <3>7. proc' = [proc EXCEPT ![p] = d] /\ last' = last /\ acked' = acked /\ errno' = errno
      BY <1>1, <1>8, <2>4, <3>1, <3>2, <3>3 DEF XattrSize, Stay, Goto, At
    <3> QED BY <1>1, <1>2, <1>3, <3>5, <3>6, <3>7, ReadOn, EndsKeepC
  <2> QED BY <2>3, <2>4
<1> QED BY <1>7, <1>8

LEMMA XattrValueC ==
  ASSUME OneStore, NoTexts, Inv, QInv, CInv, NEW p \in Procs, XattrValue(p)
  PROVE  CInv'
<1>1. PICK c, n, b : c = proc[p] /\ n = c.len /\ b = Bytes(p, "xattr")
  OBVIOUS
<1>2. PICK v : v = IF setting.platform = "bsd" THEN BsdValue(b, n) ELSE LinuxValue(b, n)
  OBVIOUS
<1>3. Active(p) /\ Local /\ c.pc = "value" /\ c.pc \in ReadPcs
  BY <1>1 DEF Active, XattrValue, ReadPcs
<1>4. /\ Fits(c) /\ Facts(c) /\ The(p, "xattr") = Slot(c) /\ c.stores = {"xattr"}
      /\ Present(p, "xattr") <=> Here(p) /\ object[Slot(c)] # 0
  BY <1>1, <1>3, TheSlot DEF Shape, XattrPcs
<1>5. /\ c.kind \in Getting /\ c.pc \notin SetPcs \cup RWPcs
      /\ c.pc \notin StorePcs
  BY <1>3, <1>4 DEF Fits, GetPcs, SetPcs, RWPcs, StorePcs
<1>6. SameC(p)
  <2>1. (\E e : Errno(p, e)) \/ errno' = errno
    BY DEF XattrValue
  <2> QED BY <1>3, <2>1, LocalSame
<1>7. Known(c) => object[Slot(c)] # 0 /\ (Here(p) <=> AtHome(c))
  BY <1>1, <1>3, <1>5, KnownThere
<1>8. Known(c) /\ Present(p, "xattr") => v = acked[Slot(c)] /\ v # NULL
  <2> SUFFICES ASSUME Known(c), Present(p, "xattr") PROVE v = acked[Slot(c)] /\ v # NULL
    OBVIOUS
  <2>1. b = acked[Slot(c)] /\ IsText(b) /\ b # NULL
    BY <1>1, <1>3, <1>4, <1>5, SeesText DEF Bytes, Known
  <2>2. n = Len(b)
    BY <1>1, <1>3, <1>4, <2>1 DEF Facts, Known
  <2>3. n \in Nat /\ n = Len(b) /\ SubSeq(b, 1, Min({n, Len(b)})) = b
    BY <2>1, <2>2, WholeText
  <2>4. BsdValue(b, n) = b /\ LinuxValue(b, n) = b
    BY <2>3 DEF BsdValue, LinuxValue
  <2> QED BY <1>2, <2>1, <2>4
<1>9. CASE Present(p, "xattr") /\ v # NULL
  <2>1. Answer(p, v)
    BY <1>1, <1>2, <1>9 DEF XattrValue
  <2>2. Fair /\ Known(c) => errno[p] = 0
    BY <1>1, <1>3, <1>4, <1>7, <1>9 DEF CInv, AllC, CallC
  <2> QED BY <1>1, <1>3, <1>5, <1>6, <1>8, <1>9, <2>1, <2>2, AnswerC, EndsKeepC
<1>10. CASE ~(Present(p, "xattr") /\ v # NULL)
  <2>1. Missed(p)
    BY <1>1, <1>2, <1>4, <1>10 DEF XattrValue, AfterXattr
  <2>2. Known(c) => ~AtHome(c)
    BY <1>4, <1>7, <1>8, <1>10
  <2> QED BY <1>1, <1>3, <1>5, <1>6, <2>1, <2>2, MissedC, EndsKeepC
<1> QED BY <1>9, <1>10

LEMMA OpenC ==
  ASSUME OneStore, NoTexts, Inv, QInv, CInv, NEW p \in Procs,
         NEW store \in {"file", "xattr"}, Open(p, store)
  PROVE  CInv'
<1>1. PICK c, o : c = proc[p] /\ o = Slot(c)
  OBVIOUS
<1>2. /\ Active(p) /\ Local /\ c.pc = IF store = "xattr" THEN "openXattr" ELSE "open"
      /\ c.pc \in ReadPcs
  BY <1>1 DEF Active, Open, ReadPcs
<1>3. /\ IsCallOf(p, c) /\ Fits(c) /\ The(p, store) = o /\ c.stores = {store}
      /\ Present(p, store) <=> Here(p) /\ object[o] # 0
  BY <1>1, <1>2, TheSlot DEF Shape, XattrPcs, FilePcs
<1>4. /\ c.kind \in Getting /\ c.pc \notin SetPcs \cup RWPcs
      /\ c.pc \notin StorePcs
  BY <1>2, <1>3 DEF Fits, GetPcs, SetPcs, RWPcs, StorePcs
<1>5. SameC(p)
  <2>1. (\E e : Errno(p, e)) \/ errno' = errno
    BY DEF Open
  <2> QED BY <1>2, <2>1, LocalSame
<1>6. Known(c) => object[o] # 0 /\ (Here(p) <=> AtHome(c))
  BY <1>1, <1>2, <1>4, KnownThere
<1>7. CASE ~Present(p, store)
  <2>1. Missed(p)
    BY <1>1, <1>3, <1>7 DEF Open, AfterXattr
  <2> QED BY <1>1, <1>2, <1>3, <1>4, <1>5, <1>6, <1>7, <2>1, MissedC, EndsKeepC
<1>8. CASE Present(p, store)
  <2>1. PICK pc : pc = IF store = "xattr" THEN "read" ELSE "seek"
    OBVIOUS
  <2>2. PICK e : e = [c EXCEPT !.pc = pc]
    OBVIOUS
  <2>3. PICK d : d = [e EXCEPT !.fd = object[o]]
    OBVIOUS
  <2>4. /\ IsCallOf(p, e) /\ e.pc = pc /\ e.kind = c.kind /\ e.found = c.found
        /\ e.after = c.after /\ e.where = c.where /\ e.alone = c.alone
        /\ Slot(e) = Slot(c)
    BY <1>3, <2>2, AtFields
  <2>5. /\ d.pc = pc /\ d.kind = c.kind /\ d.found = c.found /\ d.after = c.after
        /\ d.where = c.where /\ d.alone = c.alone /\ Slot(d) = Slot(c)
    BY <2>3, <2>4 DEF IsCallOf, Slot
  <2>6. d.pc \in ReadPcs
    BY <2>1, <2>5 DEF ReadPcs
  <2>7. proc' = [proc EXCEPT ![p] = d] /\ last' = last /\ acked' = acked /\ errno' = errno
    BY <1>1, <1>3, <1>8, <2>1, <2>2, <2>3 DEF Open, Stay, Goto, At
  <2>8. AtHome(c)
    BY <1>1, <1>3, <1>8 DEF Here, AtHome
  <2> QED BY <1>1, <1>2, <1>5, <2>5, <2>6, <2>7, <2>8, ReadOn, EndsKeepC
<1> QED BY <1>7, <1>8

LEMMA SeekC ==
  ASSUME OneStore, Inv, QInv, CInv, NEW p \in Procs, Seek(p)
  PROVE  CInv'
<1>1. PICK c : c = proc[p]
  OBVIOUS
<1>2. Active(p) /\ Local /\ c.pc = "seek" /\ c.pc \in ReadPcs /\ errno' = errno
  BY <1>1 DEF Active, Seek, ReadPcs
<1>3. IsCallOf(p, c)
  BY <1>1, <1>2, TheSlot
<1>4. PICK e : e = [c EXCEPT !.pc = "read"]
  OBVIOUS
<1>5. PICK d : d = [e EXCEPT !.len = Len(data[c.fd])]
  OBVIOUS
<1>6. /\ IsCallOf(p, e) /\ e.pc = "read" /\ e.kind = c.kind /\ e.found = c.found
      /\ e.after = c.after /\ e.where = c.where /\ e.alone = c.alone
      /\ Slot(e) = Slot(c)
  BY <1>3, <1>4, AtFields
<1>7. /\ d.pc = "read" /\ d.kind = c.kind /\ d.found = c.found /\ d.after = c.after
      /\ d.where = c.where /\ d.alone = c.alone /\ Slot(d) = Slot(c)
  BY <1>5, <1>6 DEF IsCallOf, Slot
<1>8. proc' = [proc EXCEPT ![p] = d] /\ last' = last /\ acked' = acked
  BY <1>1, <1>4, <1>5 DEF Seek, Stay, Goto, At
<1>9. SameC(p) /\ d.pc \in ReadPcs
  BY <1>2, <1>7, LocalSame DEF ReadPcs
<1> QED BY <1>1, <1>2, <1>7, <1>8, <1>9, ReadOn, EndsKeepC

LEMMA ReadC ==
  ASSUME OneStore, NoTexts, Inv, QInv, CInv, NEW p \in Procs, Read(p)
  PROVE  CInv'
<1>1. PICK c, b : c = proc[p] /\ b = data[c.fd]
  OBVIOUS
<1>2. PICK t : t = SubSeq(b, 1, Min({c.len, Len(b)}))
  OBVIOUS
<1>3. /\ Active(p) /\ Local /\ c.pc = "read" /\ c.pc \in ReadPcs /\ errno' = errno
      /\ Answer(p, t)
  BY <1>1, <1>2 DEF Active, Read, ReadPcs
<1>4. Fits(c) /\ Facts(c)
  BY <1>1, <1>3, TheSlot
<1>5. /\ c.kind \in Getting /\ c.pc \notin SetPcs \cup RWPcs /\ c.fd # 0
      /\ c.pc \notin StorePcs
  BY <1>3, <1>4 DEF Fits, GetPcs, SetPcs, RWPcs, FdPcs, StorePcs
<1>6. ASSUME Known(c) PROVE t = acked[Slot(c)]
  <2>1. object[Slot(c)] = c.fd /\ c.len = Len(acked[Slot(c)])
    BY <1>3, <1>4, <1>6 DEF Facts, Known
  <2>2. b = acked[Slot(c)] /\ IsText(b)
    BY <1>1, <1>3, <1>5, <1>6, <2>1, SeesText DEF Known
  <2> QED BY <1>2, <2>1, <2>2, WholeText
<1>7. Fair /\ Known(c) => errno[p] = 0
  BY <1>1, <1>3 DEF CInv, AllC, CallC
<1>8. SameC(p)
  BY <1>3, LocalSame
<1> QED BY <1>1, <1>3, <1>5, <1>6, <1>7, <1>8, AnswerC, EndsKeepC

LEMMA WalkC ==
  ASSUME OneStore, Inv, QInv, CInv, NEW p \in Procs, Walk(p)
  PROVE  CInv'
<1>1. PICK c : c = proc[p]
  OBVIOUS
<1>2. Active(p) /\ Local /\ c.pc = "walk"
  BY <1>1 DEF Active, Walk
<1>3. IsCallOf(p, c) /\ Fits(c) /\ Facts(c) /\ c.stores \in {{"file"}, {"xattr"}}
  BY <1>1, <1>2, TheSlot
<1>4. /\ c.kind \in Getting \cup {"exists", "delete"}
      /\ c.pc \notin SetPcs \cup RWPcs /\ c.pc \notin StorePcs
  BY <1>2, <1>3 DEF Fits, SetPcs, RWPcs, StorePcs
<1>5. SameC(p)
  <2>1. \E e : Errno(p, e)
    BY DEF Walk
  <2> QED BY <1>2, <2>1, LocalSame
<1>6. Fair' => Fair /\ ~c.found
  BY <1>1, <1>2, <1>4, <1>5, NotFound DEF SameC, Fair
<1>7. CASE dir /\ setting.depth > 0
  <2>1. PICK pc : pc = CASE c.kind = "exists" -> "check"
                         [] c.kind = "delete" -> "remove"
                         [] OTHER             -> FirstRead(c.stores)
    OBVIOUS
  <2>2. FirstRead({"file"}) = "open" /\ FirstRead({"xattr"}) = "size"
    BY DEF FirstRead
  <2>3. pc \in {"check", "remove", "open", "size"}
    BY <1>3, <1>4, <2>1, <2>2
  <2>4. PICK e : e = [c EXCEPT !.pc = pc]
    OBVIOUS
  <2>5. PICK d : d = [e EXCEPT !.where = "home"]
    OBVIOUS
  <2>6. IsCallOf(p, e) /\ e.pc = pc /\ e.found = c.found
    BY <1>3, <2>4, AtFields
  <2>7. d.pc = pc /\ d.found = c.found
    BY <2>5, <2>6 DEF IsCallOf
  <2>8. proc' = [proc EXCEPT ![p] = d] /\ last' = last /\ acked' = acked
    BY <1>1, <1>7, <2>1, <2>4, <2>5 DEF Walk, Stay, Goto, At
  <2>9. Fair' => errno'[p] = 0
    <3>1. Fair' => setting.depth = 1
      BY <1>6, <1>7, SettingOK DEF Fair, Inv
    <3> QED BY <1>7, <3>1, ErrnoNow DEF Walk
  <2>10. Fair' => CallC(p, d)'
    BY <1>6, <2>3, <2>7, <2>9 DEF CallC, PutPcs, SetPcs
  <2> QED BY <1>1, <1>2, <1>5, <2>3, <2>7, <2>8, <2>10, EndsKeepC DEF EndsC, GoesC
<1>8. CASE ~(dir /\ setting.depth > 0)
  <2>1. NotThere(p)
    BY <1>8 DEF Walk
  <2>2. ~Known(c)
    <3>1. ~dir \/ setting.depth = 0
      BY <1>8, SettingOK DEF Inv
    <3>2. Known(c) => dir /\ acked[Slot(c)] # NULL /\ acked[Slot(c)] # Unknown /\ c.alone
      BY <1>1, <1>2, <1>4, KnownThere DEF Known
    <3> QED BY <1>2, <1>3, <3>1, <3>2 DEF Facts
  <2> QED BY <1>1, <1>2, <1>4, <1>5, <2>1, <2>2, NotThereC, EndsKeepC
<1> QED BY <1>7, <1>8

----------------------------------------------------------------------------
(* Putting.                                                                *)

LEMMA NoBadName ==
  ASSUME GoodNames, Inv, NEW p \in Procs, Active(p)
  PROVE  ~BadName(p)
<1>1. PICK b \in program.ops[p] : proc[p].attr = b.attr
  BY ActiveCall DEF Inv, CallOK, IsCallOf
<1>2. GenerateXattrName(proc[p].attr) # <<>>
  BY <1>1 DEF GoodNames, Inv, StateOK
<1>3. The(p, "xattr")[2] = GenerateXattrName(proc[p].attr)
  BY DEF The, Stored
<1> QED BY <1>2, <1>3 DEF BadName

(* A put that goes on keeps the sum it carries, and errno where it has     *)
(* found the directory.                                                    *)
LEMMA PutOn ==
  ASSUME CInv, NEW p \in Procs, Active(p), SameC(p), NEW c, c = proc[p],
         NEW d, d.kind = c.kind, d.arg = c.arg, d.result = c.result, d.after = c.after,
         d.alone = c.alone, Slot(d) = Slot(c), c.pc \in PutPcs, d.pc \in PutPcs,
         d.found => d.pc \in StorePcs,
         d.found /\ Fair' /\ setting.depth = 0 => errno'[p] = 0,
         proc' = [proc EXCEPT ![p] = d], last' = last, acked' = acked
  PROVE  EndsC(p)
<1>1. Fair' => Fair /\ CallC(p, c)
  BY DEF SameC, Fair, CInv, AllC
<1>2. d.pc \notin ReadPcs /\ d.pc # "idle"
  BY DEF ReadPcs, PutPcs, SetPcs
<1>3. (Known(d)' <=> Known(c)) /\ Counted(d)' = Counted(c)
  BY DEF Known, Counted
<1>4. d.pc \notin {"seek", "read"}
  BY DEF PutPcs, SetPcs
<1>5. Fair' => CallC(p, d)'
  BY <1>1, <1>2, <1>3, <1>4 DEF CallC, SameC
<1> QED BY <1>2, <1>5 DEF EndsC, GoesC

LEMMA FindPlaceC ==
  ASSUME OneStore, Inv, QInv, CInv, NEW p \in Procs, FindPlace(p)
  PROVE  CInv'
<1>1. PICK c : c = proc[p]
  OBVIOUS
<1>2. Active(p) /\ c.pc = "find" /\ c.pc \in PutPcs
  BY <1>1 DEF Active, FindPlace, PutPcs
<1>3. IsCallOf(p, c) /\ c.stores \in {{"file"}, {"xattr"}}
  BY <1>1, <1>2, TheSlot
<1>4. PICK pc : pc = AtPlace(p)
  OBVIOUS
<1>5. IF dir THEN pc \in {"setxattr", "truncXattr", "trunc"} ELSE pc = "mkdir"
  BY <1>1, <1>3, <1>4, FirstWriteOne DEF AtPlace
<1>6. PICK e : e = [c EXCEPT !.pc = pc]
  OBVIOUS
<1>7. PICK d : d = [e EXCEPT !.where = "home", !.found = dir]
  OBVIOUS
<1>8. /\ IsCallOf(p, e) /\ e.pc = pc /\ e.kind = c.kind /\ e.arg = c.arg
      /\ e.result = c.result /\ e.after = c.after /\ e.alone = c.alone
      /\ Slot(e) = Slot(c)
  BY <1>3, <1>6, AtFields
<1>9. /\ d.pc = pc /\ d.kind = c.kind /\ d.arg = c.arg /\ d.result = c.result
      /\ d.after = c.after /\ d.alone = c.alone /\ Slot(d) = Slot(c) /\ d.found = dir
  BY <1>7, <1>8 DEF IsCallOf, Slot
<1>10. proc' = [proc EXCEPT ![p] = d] /\ last' = last /\ acked' = acked
  BY <1>1, <1>4, <1>6, <1>7 DEF FindPlace, Stay, Goto, At
<1>11. SameC(p) /\ errno'[p] = ErrnoOfPlace(p)
  BY InsideSame, ErrnoNow DEF FindPlace
<1>12. dir /\ Fair' /\ setting.depth = 0 => errno'[p] = 0
  BY <1>11 DEF ErrnoOfPlace, Fair, SameC
<1>13. d.pc \in PutPcs /\ (d.found => d.pc \in StorePcs)
  BY <1>5, <1>9 DEF PutPcs, StorePcs
<1>14. EndsC(p)
  BY <1>1, <1>2, <1>9, <1>10, <1>11, <1>12, <1>13, PutOn
<1> QED BY <1>2, <1>14, EndsKeepC

LEMMA MakeDirC ==
  ASSUME OneStore, Inv, QInv, CInv, NEW p \in Procs, MakeDir(p)
  PROVE  CInv'
<1>1. PICK c : c = proc[p]
  OBVIOUS
<1>2. Active(p) /\ c.pc = "mkdir" /\ c.pc \in PutPcs /\ c.pc \notin StorePcs
  BY <1>1 DEF Active, MakeDir, PutPcs, StorePcs, SetPcs
<1>3. IsCallOf(p, c) /\ c.stores \in {{"file"}, {"xattr"}}
  BY <1>1, <1>2, TheSlot
<1>4. PICK pc : pc = FirstWrite(c.stores)
  OBVIOUS
<1>5. pc \in {"setxattr", "truncXattr", "trunc"}
  BY <1>3, <1>4, FirstWriteOne
<1>6. PICK d : d = [c EXCEPT !.pc = pc]
  OBVIOUS
<1>7. /\ d.pc = pc /\ d.kind = c.kind /\ d.arg = c.arg /\ d.result = c.result
      /\ d.after = c.after /\ d.alone = c.alone /\ Slot(d) = Slot(c)
      /\ d.found = c.found
  BY <1>3, <1>6, AtFields
<1>8. proc' = [proc EXCEPT ![p] = d] /\ last' = last /\ acked' = acked
  BY <1>1, <1>4, <1>6 DEF MakeDir, Stay, Goto, At
<1>9. SameC(p)
  BY InsideSame DEF MakeDir
<1>10. Fair' => ~d.found
  BY <1>1, <1>2, <1>7, <1>9, NotFound DEF SameC, Fair
<1>11. d.pc \in PutPcs /\ d.pc \in StorePcs
  BY <1>5, <1>7 DEF PutPcs, StorePcs
<1>12. EndsC(p)
  BY <1>1, <1>2, <1>7, <1>8, <1>9, <1>10, <1>11, PutOn
<1> QED BY <1>2, <1>12, EndsKeepC

(* A put that is done returns the sum, with errno as it was.               *)
LEMMA PutDoneC ==
  ASSUME CInv, NEW p \in Procs, Active(p), SameC(p), NEW c, c = proc[p],
         c.pc \in PutPcs, NEW r, PutDone(p, r), Fair' => errno' = errno
  PROVE  EndsC(p)
<1>1. Fair' => Fair /\ CallC(p, c)
  BY DEF SameC, Fair, CInv, AllC
<1>2. PICK s, u : Finish(p, u, s) /\ (c.kind = "incrBy" => u = c.result)
  BY DEF PutDone
<1>3. Fair' /\ c.found /\ setting.depth = 0 => errno'[p] = 0
  BY <1>1 DEF CallC
<1>4. Known(c) /\ Fair' => u = Counted(c)
  BY <1>1, <1>2 DEF CallC, Known
<1>5. ReturnsC(p)
  BY <1>2, <1>3, <1>4 DEF ReturnsC
<1> QED BY <1>5 DEF EndsC

LEMMA SetXattrC ==
  ASSUME OneStore, GoodNames, Inv, QInv, CInv, NEW p \in Procs, SetXattr(p)
  PROVE  CInv'
<1>1. PICK c : c = proc[p]
  OBVIOUS
<1>2. Active(p) /\ c.pc = "setxattr" /\ c.pc \in PutPcs /\ Inside
  BY <1>1 DEF Active, SetXattr, PutPcs
<1>3. c.stores = {"xattr"} /\ ~BadName(p)
  BY <1>1, <1>2, TheSlot, NoBadName DEF Shape, XattrPcs
<1>4. ASSUME NEW r, AfterSet(p, r) PROVE PutDone(p, r)
  BY <1>1, <1>3, <1>4 DEF AfterSet
<1>5. PICK r : /\ PutDone(p, r)
               /\ \/ errno' = errno /\ faults' = faults
                  \/ (\E e : Errno(p, e)) /\ faults' = faults + 1
  BY <1>3, <1>4 DEF SetXattr
<1>6. SameC(p)
  BY <1>2, <1>5, InsideSame
<1>7. Fair' => errno' = errno
  BY <1>5 DEF Fair, CInv
<1> QED BY <1>1, <1>2, <1>5, <1>6, <1>7, PutDoneC, EndsKeepC

LEMMA TruncateC ==
  ASSUME OneStore, Inv, QInv, CInv, NEW p \in Procs, NEW store \in {"file", "xattr"},
         Truncate(p, store)
  PROVE  CInv'
<1>1. PICK c : c = proc[p]
  OBVIOUS
<1>2. /\ Active(p) /\ c.pc = (IF store = "xattr" THEN "truncXattr" ELSE "trunc")
      /\ c.pc \in PutPcs /\ Inside /\ faults' = faults /\ errno' = errno
  BY <1>1 DEF Active, Truncate, PutPcs
<1>3. IsCallOf(p, c)
  BY <1>1, <1>2, TheSlot
<1>4. PICK pc, n : /\ pc = IF store = "xattr" THEN "writeXattr" ELSE "write"
                   /\ Stay(p, [At(p, pc) EXCEPT !.fd = n])
  BY DEF Truncate
<1>5. PICK e : e = [c EXCEPT !.pc = pc]
  OBVIOUS
<1>6. PICK d : d = [e EXCEPT !.fd = n]
  OBVIOUS
<1>7. /\ IsCallOf(p, e) /\ e.pc = pc /\ e.kind = c.kind /\ e.arg = c.arg
      /\ e.result = c.result /\ e.after = c.after /\ e.alone = c.alone
      /\ Slot(e) = Slot(c) /\ e.found = c.found
  BY <1>3, <1>5, AtFields
<1>8. /\ d.pc = pc /\ d.kind = c.kind /\ d.arg = c.arg /\ d.result = c.result
      /\ d.after = c.after /\ d.alone = c.alone /\ Slot(d) = Slot(c)
      /\ d.found = c.found
  BY <1>6, <1>7 DEF IsCallOf, Slot
<1>9. proc' = [proc EXCEPT ![p] = d] /\ last' = last /\ acked' = acked
  BY <1>1, <1>4, <1>5, <1>6 DEF Stay, Goto, At
<1>10. SameC(p)
  BY <1>2, InsideSame
<1>11. Fair' /\ c.found /\ setting.depth = 0 => errno'[p] = 0
  BY <1>1, <1>2, <1>10 DEF SameC, Fair, CInv, AllC, CallC
<1>12. d.pc \in PutPcs /\ d.pc \in StorePcs
  BY <1>4, <1>8 DEF PutPcs, StorePcs, SetPcs
<1>13. EndsC(p)
  BY <1>1, <1>2, <1>8, <1>9, <1>10, <1>11, <1>12, PutOn
<1> QED BY <1>2, <1>13, EndsKeepC

LEMMA WriteC ==
  ASSUME OneStore, Inv, QInv, CInv, NEW p \in Procs, NEW store \in {"file", "xattr"},
         Write(p, store)
  PROVE  CInv'
<1>1. PICK c : c = proc[p]
  OBVIOUS
<1>2. /\ Active(p) /\ c.pc = (IF store = "xattr" THEN "writeXattr" ELSE "write")
      /\ c.pc \in PutPcs /\ Inside
  BY <1>1 DEF Active, Write, PutPcs, SetPcs
<1>3. c.stores = {store}
  BY <1>1, <1>2, TheSlot DEF Shape, XattrPcs, FilePcs
<1>4. ASSUME NEW r, IF store = "xattr" THEN AfterSet(p, r) ELSE PutDone(p, r)
      PROVE  PutDone(p, r)
  BY <1>1, <1>3, <1>4 DEF AfterSet
<1>5. PICK r : /\ PutDone(p, r)
               /\ \/ errno' = errno /\ faults' = faults
                  \/ (\E e : Errno(p, e)) /\ faults' = faults + 1
  BY <1>4 DEF Write
<1>6. SameC(p)
  BY <1>2, <1>5, InsideSame
<1>7. Fair' => errno' = errno
  BY <1>5 DEF Fair, CInv
<1> QED BY <1>1, <1>2, <1>5, <1>6, <1>7, PutDoneC, EndsKeepC

----------------------------------------------------------------------------
(* Calls that do not count by what they have read.                         *)

LEMMA OtherC ==
  ASSUME CInv, NEW p \in Procs, Active(p), SameC(p), NEW c, c = proc[p],
         c.kind # "incrBy", c.pc \notin StorePcs,
         \/ \E r, s : Finish(p, r, s)
         \/ \E d : /\ proc' = [proc EXCEPT ![p] = d] /\ last' = last /\ acked' = acked
                   /\ d.pc # "idle" /\ d.kind = c.kind /\ d.found = c.found
  PROVE  EndsC(p)
<1>1. Fair' => ~c.found
  BY NotFound DEF SameC, Fair
<1>2. CASE \E r, s : Finish(p, r, s)
  BY <1>1, <1>2, PlainReturn DEF EndsC, Known
<1>3. ASSUME NEW d, proc' = [proc EXCEPT ![p] = d], last' = last, acked' = acked,
             d.pc # "idle", d.kind = c.kind, d.found = c.found
      PROVE  EndsC(p)
  <2>1. Fair' => CallC(p, d)'
    BY <1>1, <1>3 DEF CallC, Known
  <2> QED BY <1>3, <2>1 DEF EndsC, GoesC
<1> QED BY <1>2, <1>3

LEMMA CheckC ==
  ASSUME OneStore, Inv, QInv, CInv, NEW p \in Procs, Check(p)
  PROVE  CInv'
<1>1. PICK c : c = proc[p]
  OBVIOUS
<1>2. Active(p) /\ Local /\ c.pc = "check" /\ c.pc \notin StorePcs
  BY <1>1 DEF Active, Check, StorePcs, SetPcs
<1>3. c.kind = "exists"
  BY <1>1, <1>2, TheSlot DEF Fits
<1>4. SameC(p)
  <2>1. \E e : Errno(p, e)
    BY DEF Check
  <2> QED BY <1>2, <2>1, LocalSame
<1>5. Finish(p, TRUE, Unknown) \/ Missed(p)
  BY DEF Check
<1>6. CASE Finish(p, TRUE, Unknown)
  BY <1>1, <1>2, <1>3, <1>4, <1>6, OtherC, EndsKeepC
<1>7. CASE Missed(p)
  BY <1>1, <1>2, <1>3, <1>4, <1>7, MissedC, EndsKeepC DEF Known
<1> QED BY <1>5, <1>6, <1>7

LEMMA LocateC ==
  ASSUME OneStore, Inv, QInv, CInv, NEW p \in Procs, Locate(p)
  PROVE  CInv'
<1>1. PICK c : c = proc[p]
  OBVIOUS
<1>2. Active(p) /\ Local /\ c.pc = "locate" /\ c.pc \notin StorePcs
  BY <1>1 DEF Active, Locate, StorePcs, SetPcs
<1>3. IsCallOf(p, c) /\ c.kind = "delete"
  BY <1>1, <1>2, TheSlot DEF Fits
<1>4. SameC(p)
  <2>1. \E e : Errno(p, e)
    BY DEF Locate
  <2> QED BY <1>2, <2>1, LocalSame
<1>5. PICK pc \in {"remove", "walk"} : Stay(p, At(p, pc))
  BY DEF Locate
<1>6. PICK d : d = [c EXCEPT !.pc = pc]
  OBVIOUS
<1>7. d.pc = pc /\ d.kind = c.kind /\ d.found = c.found /\ d.pc # "idle"
  BY <1>3, <1>5, <1>6, AtFields
<1>8. proc' = [proc EXCEPT ![p] = d] /\ last' = last /\ acked' = acked
  BY <1>1, <1>5, <1>6 DEF Stay, Goto, At
<1> QED BY <1>1, <1>2, <1>3, <1>4, <1>7, <1>8, OtherC, EndsKeepC

LEMMA DeleteAttrC ==
  ASSUME OneStore, Inv, QInv, CInv, NEW p \in Procs, DeleteAttr(p)
  PROVE  CInv'
<1>1. PICK c : c = proc[p]
  OBVIOUS
<1>2. /\ Active(p) /\ Inside /\ faults' = faults /\ c.pc = "remove"
      /\ c.pc \notin StorePcs
  BY <1>1 DEF Active, DeleteAttr, StorePcs, SetPcs
<1>3. c.kind = "delete"
  BY <1>1, <1>2, TheSlot DEF Fits
<1>4. /\ (\E e : Errno(p, e)) \/ errno' = errno
      /\ \E r, s : Finish(p, r, s)
  BY DEF DeleteAttr
<1>5. SameC(p)
  BY <1>2, <1>4, InsideSame
<1> QED BY <1>1, <1>2, <1>3, <1>4, <1>5, OtherC, EndsKeepC

LEMMA IncrDirC ==
  ASSUME OneStore, Inv, QInv, CInv, NEW p \in Procs, IncrDir(p)
  PROVE  CInv'
<1>1. PICK c : c = proc[p]
  OBVIOUS
<1>2. /\ Active(p) /\ Inside /\ faults' = faults
      /\ c.pc \in RWPcs \cup {"openRW", "nullDir"} /\ c.pc \notin StorePcs
  BY <1>1 DEF IncrDir, OpenRW, SeekRW, ReadRW, WriteRW, NullDir, Active, Local, RWPcs,
     StorePcs, SetPcs
<1>3. IsCallOf(p, c) /\ c.kind \in {"incrDir", "incrInFile"}
  BY <1>1, <1>2, TheSlot DEF Shape
<1>4. (\E e : Errno(p, e)) \/ errno' = errno
  BY DEF IncrDir, OpenRW, SeekRW, ReadRW, WriteRW, NullDir
<1>5. SameC(p)
  BY <1>2, <1>4, InsideSame
<1>6. ASSUME NEW pc, pc # "idle", NEW d, d.pc = pc, d.kind = c.kind, d.found = c.found,
             Stay(p, d)
      PROVE  CInv'
  BY <1>1, <1>2, <1>3, <1>5, <1>6, OtherC, EndsKeepC DEF Stay, Goto
<1>7. ASSUME NEW pc
      PROVE  \A e : e = [c EXCEPT !.pc = pc]
               => e.pc = pc /\ e.kind = c.kind /\ e.found = c.found /\ IsCallOf(p, e)
  BY <1>3, AtFields
<1>8. CASE OpenRW(p)
  <2>1. CASE \E r, s : Finish(p, r, s)
    BY <1>1, <1>2, <1>3, <1>5, <2>1, OtherC, EndsKeepC
  <2>2. ASSUME NEW n, Stay(p, [At(p, "seekRW") EXCEPT !.fd = n]) PROVE CInv'
    <3>1. PICK e : e = [c EXCEPT !.pc = "seekRW"]
      OBVIOUS
    <3>2. PICK d : d = [e EXCEPT !.fd = n]
      OBVIOUS
    <3>3. d.pc = "seekRW" /\ d.kind = c.kind /\ d.found = c.found
      BY <1>7, <3>1, <3>2 DEF IsCallOf
    <3> QED BY <1>1, <1>6, <2>2, <3>1, <3>2, <3>3 DEF At
  <2> QED BY <1>8, <2>1, <2>2 DEF OpenRW
<1>9. ASSUME NEW pc \in {"readRW", "writeRW"}, NEW m, NEW n, NEW t,
             Stay(p, [At(p, pc) EXCEPT !.len = m, !.result = n, !.text = t])
      PROVE  CInv'
  <2>1. PICK e : e = [c EXCEPT !.pc = pc]
    OBVIOUS
  <2>2. PICK d : d = [e EXCEPT !.len = m, !.result = n, !.text = t]
    OBVIOUS
  <2>3. d.pc = pc /\ d.kind = c.kind /\ d.found = c.found
    BY <1>7, <2>1, <2>2 DEF IsCallOf
  <2> QED BY <1>1, <1>6, <1>9, <2>1, <2>2, <2>3 DEF At
<1>10. CASE SeekRW(p)
  BY <1>9, <1>10 DEF SeekRW
<1>11. CASE ReadRW(p)
  BY <1>9, <1>11 DEF ReadRW
<1>12. CASE WriteRW(p)
  BY <1>1, <1>2, <1>3, <1>5, <1>12, OtherC, EndsKeepC DEF WriteRW
<1>13. CASE NullDir(p)
  <2>1. acked' = [acked EXCEPT ![Slot(c)] = IF Writes(c) THEN acked[Slot(c)] ELSE @]
    BY <1>13 DEF NullDir, QInv, AckedOK
  <2>2. DiesC(p)
    BY <1>1, <1>13, <2>1 DEF NullDir, DiesC
  <2> QED BY <1>2, <1>5, <2>2, EndsKeepC DEF EndsC
<1> QED BY <1>8, <1>10, <1>11, <1>12, <1>13 DEF IncrDir

LEMMA CrashC == ASSUME Inv, QInv, CInv, NEW p \in Procs, Crash(p) PROVE CInv'
<1>1. Active(p) /\ SameC(p)
  BY DEF Crash, Active, SameC, CInv
<1>2. DiesC(p)
  BY DEF Crash, DiesC
<1> QED BY <1>1, <1>2, EndsKeepC DEF EndsC

----------------------------------------------------------------------------
(* A call begins; a program starts.                                        *)

LEMMA BeginC ==
  ASSUME OneStore, Inv, QInv, CInv, NEW p \in Procs, NEW b \in program.ops[p], Begin(p, b)
  PROVE  CInv'
<1>1. /\ setting' = setting /\ faults' = faults /\ errno' = errno /\ last' = last
      /\ acked' = acked
  BY DEF Begin
<1>2. PICK c : c = Begun(p, b)
  OBVIOUS
<1>3. /\ proc'[p] = c /\ c.where = "plain" /\ ~c.found /\ proc[p].pc = "idle"
      /\ c.after => last # NULL /\ last.by = p /\ last.call.found
      /\ c.kind = "incrBy" => c.pc = FirstRead(b.stores)
      /\ c.pc # "idle"
  <2>1. IsCall(b)
    BY ProgramsAssumption DEF Inv, StateOK, IsProgram
  <2>2. FirstRead(b.stores) # "idle"
    BY <2>1, FirstReadPcs DEF IsCall
  <2> QED BY <1>2, <2>1, <2>2 DEF Begin, Begun, IsCall
<1>4. c.kind = "incrBy" => c.pc \in {"size", "open", "none"}
  <2>1. b.stores \in SUBSET {"file", "xattr"}
    BY ProgramsAssumption DEF Inv, StateOK, IsProgram, IsCall
  <2> QED BY <1>3, <2>1, FirstReadPcs
<1>5. ASSUME NEW q \in Procs \ {p}
      PROVE  /\ proc'[q].pc = proc[q].pc
             /\ Active(q) /\ Fair => CallC(q, proc[q])'
  <2>1. PICK e, d : e = proc[q] /\ d = proc'[q]
    OBVIOUS
  <2>2. d = e \/ (Active(q) /\ d = [e EXCEPT !.alone = FALSE])
    BY <2>1 DEF Begin, Others, Active
  <2>3. CASE d = e
    <3>1. Active(q) /\ Fair => CallC(q, e)
      BY <2>1 DEF CInv, AllC
    <3>2. Active(q) /\ Fair => CallC(q, e)'
      BY <1>1, <3>1 DEF CallC, Known, Counted, AtHome
    <3> QED BY <2>1, <2>3, <3>2 DEF CallC, Known, Counted, AtHome
  <2>4. CASE Active(q) /\ d = [e EXCEPT !.alone = FALSE]
    <3>1. IsCallOf(q, e)
      BY <2>1, <2>4, ActiveCall DEF Inv, CallOK
    <3>2. d.pc = e.pc /\ d.found = e.found /\ ~d.alone
      BY <2>4, <3>1 DEF IsCallOf
    <3>3. Fair => CallC(q, e)
      BY <2>1, <2>4 DEF CInv, AllC
    <3>4. Fair => CallC(q, d)'
      BY <1>1, <3>2, <3>3 DEF CallC, Known
    <3> QED BY <2>1, <3>2, <3>4 DEF CallC, Known, Counted, AtHome
  <2> QED BY <2>2, <2>3, <2>4
<1>6. Fair => CallC(p, proc[p])'
  <2>1. Fair /\ c.after /\ setting.depth = 0 => errno[p] = 0
    BY <1>3 DEF CInv, CleanC
  <2>2. Known(c)' => c.after /\ c.kind = "incrBy"
    BY DEF Known
  <2>3. Fair => CallC(p, c)'
    BY <1>1, <1>3, <1>4, <2>1, <2>2 DEF CallC, AtHome, PutPcs, SetPcs
  <2> QED BY <1>3, <2>3 DEF CallC, Known, Counted, AtHome
<1>7. Fair' <=> Fair
  BY <1>1 DEF Fair
<1>8. AllC'
  BY <1>5, <1>6, <1>7 DEF AllC, Active
<1>9. CleanC'
  <2> SUFFICES ASSUME Fair', setting'.depth = 0, NEW q \in Procs, last' # NULL,
                      last'.by = q, last'.call.found, proc'[q].pc = "idle"
               PROVE  errno'[q] = 0
    BY DEF CleanC
  <2>1. q # p
    BY <1>3
  <2> QED BY <1>1, <1>5, <1>7, <2>1 DEF CInv, CleanC
<1>10. faults' \in Nat /\ RewrittenCounterCounts'
  BY <1>1 DEF CInv, RewrittenCounterCounts
<1> QED BY <1>8, <1>9, <1>10 DEF CInv

LEMMA InitC == Init => CInv
<1> SUFFICES ASSUME Init PROVE CInv
  OBVIOUS
<1>1. faults \in Nat /\ last = NULL /\ \A p \in Procs : ~Active(p)
  BY DEF Init, Active, Idle
<1> QED BY <1>1 DEF CInv, AllC, CleanC, RewrittenCounterCounts

LEMMA NextC ==
  ASSUME OneStore, NoTexts, GoodNames, Inv, QInv, CInv, [Next]_vars
  PROVE  CInv'
<1>1. CASE UNCHANGED vars
  <2>1. /\ setting' = setting /\ faults' = faults /\ errno' = errno /\ last' = last
        /\ acked' = acked /\ proc' = proc
    BY <1>1 DEF vars
  <2>2. Fair' <=> Fair
    BY <2>1 DEF Fair
  <2>3. ASSUME Fair, NEW p \in Procs, Active(p)' PROVE CallC(p, proc[p])'
    <3>1. CallC(p, proc[p])
      BY <2>1, <2>3 DEF CInv, AllC, Active
    <3> QED BY <2>1, <3>1 DEF CallC, Known, Counted, AtHome
  <2>4. AllC'
    BY <2>2, <2>3 DEF AllC
  <2>5. CleanC' /\ RewrittenCounterCounts' /\ faults' \in Nat
    BY <2>1, <2>2 DEF CInv, CleanC, RewrittenCounterCounts
  <2> QED BY <2>4, <2>5 DEF CInv
<1>2. ASSUME NEW p \in Procs, NEW c \in program.ops[p], Begin(p, c) PROVE CInv'
  BY <1>2, BeginC
<1>3. ASSUME NEW p \in Procs, Get(p) PROVE CInv'
  BY <1>3, NoStoreQ, XattrSizeC, XattrValueC, OpenC, SeekC, ReadC, WalkC DEF Get
<1>4. ASSUME NEW p \in Procs, Put(p) PROVE CInv'
  BY <1>4, NoStoreQ, FindPlaceC, MakeDirC, SetXattrC, TruncateC, WriteC DEF Put
<1>5. ASSUME NEW p \in Procs, Check(p) \/ Locate(p) \/ DeleteAttr(p) \/ IncrDir(p) \/ Crash(p)
      PROVE  CInv'
  BY <1>5, CheckC, LocateC, DeleteAttrC, IncrDirC, CrashC
<1> QED BY <1>1, <1>2, <1>3, <1>4, <1>5 DEF Next

----------------------------------------------------------------------------
(* In a paged store whose key lies at most one level down, an increment    *)
(* that directly follows a write of the same process to a key that was     *)
(* there, and that no other writer overlaps, returns the number stored     *)
(* plus its own: errno, which it reads, is clean.  Every call works on one *)
(* store, and no attribute has an empty extended name.                     *)
THEOREM IncrementsCount ==
  ASSUME OneStore, NoTexts, GoodNames
  PROVE  Spec => []RewrittenCounterCounts
<1>1. CInv => RewrittenCounterCounts
  BY DEF CInv
<1>2. Init => Inv /\ QInv /\ CInv
  BY InitInv, InitQ, InitC
<1>3. Inv /\ QInv /\ CInv /\ [Next]_vars => (Inv /\ QInv /\ CInv)'
  BY NextKeeps, NextQ, NextC
<1> QED BY <1>1, <1>2, <1>3, PTL DEF Spec

----------------------------------------------------------------------------
(* Numbers and their texts: what strtoll reads of a printed number, or of  *)
(* its beginning.  Both are read and written digit by digit; that holds    *)
(* for every digit because there is no first one for which it fails.       *)

(* The function that halves a number digit by digit exists.                *)
LEMMA RestExists ==
  ASSUME NEW m \in Nat
  PROVE  \A K \in Nat : \E r : r = [i \in 0..K |-> IF i = 0 THEN m ELSE r[i - 1] \div 10]
<1> DEFINE Has(K) == \E r : r = [i \in 0..K |-> IF i = 0 THEN m ELSE r[i - 1] \div 10]
           S == {K \in Nat : ~Has(K)}
<1> SUFFICES ASSUME S # {} PROVE FALSE
  OBVIOUS
<1>1. PICK K \in S : \A k \in S : K <= k
  <2>1. S \in SUBSET Nat
    OBVIOUS
  <2> HIDE DEF S
  <2> QED BY <2>1, LeastOfNats
<1>2. CASE K = 0
  <2>1. [i \in 0..0 |-> m]
          = [i \in 0..0 |-> IF i = 0 THEN m ELSE [j \in 0..0 |-> m][i - 1] \div 10]
    OBVIOUS
  <2> QED BY <1>1, <1>2, <2>1
<1>3. CASE K # 0
  <2>1. K \in Nat /\ K - 1 \in Nat /\ K - 1 \notin S
    <3>1. K \in Nat /\ K - 1 \in Nat /\ ~(K <= K - 1)
      BY <1>3
    <3> HIDE DEF S
    <3> QED BY <1>1, <3>1
  <2>2. PICK r : r = [i \in 0..(K - 1) |-> IF i = 0 THEN m ELSE r[i - 1] \div 10]
    BY <2>1
  <2> DEFINE q == [i \in 0..K |-> IF i = K THEN r[K - 1] \div 10 ELSE r[i]]
  <2>3. \A i \in 0..K : q[i] = IF i = 0 THEN m ELSE q[i - 1] \div 10
    <3> SUFFICES ASSUME NEW i \in 0..K PROVE q[i] = IF i = 0 THEN m ELSE q[i - 1] \div 10
      OBVIOUS
    <3>1. CASE i = 0
      BY <1>3, <2>1, <2>2, <3>1
    <3>2. CASE i # 0
      <4>1. i - 1 \in 0..(K - 1) /\ i - 1 # K /\ i - 1 \in 0..K
        BY <2>1, <3>2
      <4>2. q[i - 1] = r[i - 1]
        BY <4>1
      <4>3. CASE i = K
        BY <1>3, <4>2, <4>3
      <4>4. CASE i # K
        <5>1. i \in 0..(K - 1)
          BY <2>1, <4>4
        <5>2. r[i] = r[i - 1] \div 10
          BY <2>2, <3>2, <5>1
        <5> QED BY <3>2, <4>2, <4>4, <5>2
      <4> QED BY <4>3, <4>4
    <3> QED BY <3>1, <3>2
  <2>4. q = [i \in 0..K |-> q[i]]
    OBVIOUS
  <2> HIDE DEF q
  <2>5. q = [i \in 0..K |-> IF i = 0 THEN m ELSE q[i - 1] \div 10]
    BY <2>3, <2>4
  <2> QED BY <1>1, <2>5
<1> QED BY <1>2, <1>3

(* The digits of a number, by what is left of it.                          *)
LEMMA DecimalDigits ==
  ASSUME NEW n \in Nat
  PROVE  \E w \in 1..19 : \E r :
           /\ Decimal(n) = [i \in 1..w |-> Digit[1 + (r[w - i] % 10)]]
           /\ \A i \in 0..19 : r[i] \in 0..n
           /\ \A i \in 1..19 : r[i] = r[i - 1] \div 10
<1> DEFINE r == CHOOSE r : r = [i \in 0..19 |->
                  IF i = 0 THEN IF n < 0 THEN -n ELSE n ELSE r[i - 1] \div 10]
           W == {i \in 1..19 : i = 1 \/ r[i - 1] > 0}
           g == [i \in 1..Max(W) |-> Digit[1 + (r[Max(W) - i] % 10)]]
<1>1. Decimal(n) = <<>> \o g
  <2>1. Decimal(n) = (IF n < 0 THEN <<"-">> ELSE <<>>) \o g
    BY DEF Decimal
  <2> HIDE DEF g
  <2> QED BY <2>1, ~(n < 0)
<1>2. Max(W) \in 1..19
  <2>1. W \in SUBSET (0..19) /\ 1 \in W
    OBVIOUS
  <2> HIDE DEF W
  <2> QED BY <2>1, MaxOfNats DEF W
<1>3. r = [i \in 0..19 |-> IF i = 0 THEN n ELSE r[i - 1] \div 10]
  <2>1. ~(n < 0)
    OBVIOUS
  <2>2. \E q : q = [i \in 0..19 |-> IF i = 0 THEN n ELSE q[i - 1] \div 10]
    <3>1. n \in Nat /\ 19 \in Nat
      OBVIOUS
    <3>2. \A K \in Nat : \E q : q = [i \in 0..K |-> IF i = 0 THEN n ELSE q[i - 1] \div 10]
      BY <3>1, RestExists
    <3> HIDE DEF r, W, g
    <3> QED BY <3>1, <3>2, Zenon
  <2>3. \E q : q = [i \in 0..19 |-> IF i = 0 THEN IF n < 0 THEN -n ELSE n ELSE q[i - 1] \div 10]
    BY <2>1, <2>2
  <2>4. r = [i \in 0..19 |-> IF i = 0 THEN IF n < 0 THEN -n ELSE n ELSE r[i - 1] \div 10]
    BY <2>3
  <2> QED BY <2>1, <2>4
<1> HIDE DEF r
<1>4. r[0] = n /\ \A i \in 1..19 : r[i] = r[i - 1] \div 10
  BY <1>3
<1>5. \A i \in 0..19 : r[i] \in 0..n
  <2> DEFINE S == {i \in 0..19 : r[i] \notin 0..n}
  <2> HIDE DEF W, g
  <2> SUFFICES ASSUME S # {} PROVE FALSE
    OBVIOUS
  <2>1. PICK i \in S : \A j \in S : i <= j
    <3>1. S \in SUBSET Nat
      OBVIOUS
    <3> HIDE DEF S
    <3> QED BY <3>1, LeastOfNats
  <2>2. i # 0
    BY <1>4, <2>1
  <2>3. i \in 1..19 /\ i - 1 \in 0..19 /\ i - 1 \notin S
    <3>1. i \in 1..19 /\ i - 1 \in 0..19 /\ ~(i <= i - 1)
      BY <2>2
    <3> HIDE DEF S
    <3> QED BY <2>1, <3>1
  <2>4. PICK x \in 0..n : x = r[i - 1]
    BY <2>3
  <2>5. x \div 10 \in 0..n
    OBVIOUS
  <2> QED BY <1>4, <2>3, <2>4, <2>5
<1>6. g = [i \in 1..Max(W) |-> Digit[1 + (r[Max(W) - i] % 10)]]
  OBVIOUS
<1>7. <<>> \o g = g
  <2>1. \E S : g \in Seq(S)
    <3>1. g \in Seq({Digit[1 + (r[Max(W) - i] % 10)] : i \in 1..Max(W)})
      <4> HIDE DEF W
      <4> QED BY <1>2
    <3> QED BY <3>1
  <2> HIDE DEF g
  <2> QED BY <2>1, ConcatEmptySeq
<1> HIDE DEF W, g
<1>8. Decimal(n) = [i \in 1..Max(W) |-> Digit[1 + (r[Max(W) - i] % 10)]]
  BY <1>1, <1>6, <1>7
<1>9. PICK w : w = Max(W)
  OBVIOUS
<1> QED BY <1>2, <1>4, <1>5, <1>8, <1>9

\* What strtoll makes of the first K digits of t in base b.
DigitOf(c) == CHOOSE d \in 0..9 : Digit[d + 1] = c
ReadsAs(v, b, t, K) ==
  v = [k \in 0..K |-> IF k = 0 THEN 0 ELSE b * v[k - 1] + DigitOf(t[k])]

(* The function that reads digits exists.                                  *)
LEMMA NumberExists ==
  ASSUME NEW b, NEW t, NEW K0 \in Nat
  PROVE  \E v : ReadsAs(v, b, t, K0)
<1> DEFINE dig(k) == DigitOf(t[k])
           Has(K) == \E v : v = [k \in 0..K |-> IF k = 0 THEN 0 ELSE b * v[k - 1] + dig(k)]
           S == {K \in Nat : ~Has(K)}
<1> HIDE DEF dig
<1>4. Has(K0)
  <2> SUFFICES ASSUME S # {} PROVE FALSE
    OBVIOUS
  <2>1. PICK K \in S : \A k \in S : K <= k
    <3>1. S \in SUBSET Nat
      OBVIOUS
    <3> HIDE DEF S
    <3> QED BY <3>1, LeastOfNats
  <2>2. CASE K = 0
    <3>1. [i \in 0..0 |-> 0]
            = [i \in 0..0 |-> IF i = 0 THEN 0 ELSE b * [j \in 0..0 |-> 0][i - 1] + dig(i)]
      OBVIOUS
    <3> QED BY <2>1, <2>2, <3>1
  <2>3. CASE K # 0
    <3>1. K \in Nat /\ K - 1 \in Nat /\ K - 1 \notin S
      <4>1. K \in Nat /\ K - 1 \in Nat /\ ~(K <= K - 1)
        BY <2>3
      <4> HIDE DEF S
      <4> QED BY <2>1, <4>1
    <3>2. PICK r : r = [i \in 0..(K - 1) |-> IF i = 0 THEN 0 ELSE b * r[i - 1] + dig(i)]
      BY <3>1
    <3> DEFINE q == [i \in 0..K |-> IF i = K THEN b * r[K - 1] + dig(K) ELSE r[i]]
    <3>3. \A i \in 0..K : q[i] = IF i = 0 THEN 0 ELSE b * q[i - 1] + dig(i)
      <4> SUFFICES ASSUME NEW i \in 0..K PROVE q[i] = IF i = 0 THEN 0 ELSE b * q[i - 1] + dig(i)
        OBVIOUS
      <4>1. CASE i = 0
        BY <2>3, <3>1, <3>2, <4>1
      <4>2. CASE i # 0
        <5>1. i - 1 \in 0..(K - 1) /\ i - 1 # K /\ i - 1 \in 0..K
          BY <3>1, <4>2
        <5>2. q[i - 1] = r[i - 1]
          BY <5>1
        <5>3. CASE i = K
          BY <2>3, <5>2, <5>3
        <5>4. CASE i # K
          <6>1. i \in 0..(K - 1)
            BY <3>1, <5>4
          <6>2. r[i] = b * r[i - 1] + dig(i)
            BY <3>2, <4>2, <6>1
          <6> QED BY <4>2, <5>2, <5>4, <6>2
        <5> QED BY <5>3, <5>4
      <4> QED BY <4>1, <4>2
    <3>4. q = [i \in 0..K |-> q[i]]
      OBVIOUS
    <3> HIDE DEF q
    <3>5. q = [i \in 0..K |-> IF i = 0 THEN 0 ELSE b * q[i - 1] + dig(i)]
      BY <3>3, <3>4
    <3> QED BY <2>1, <3>5
  <2> QED BY <2>2, <2>3
<1> QED BY <1>4 DEF dig, ReadsAs

(* What strtoll makes of a text without a sign, digit by digit.            *)
LEMMA StrtollReads ==
  ASSUME NEW s, Len(s) \in Nat, ~(s # <<>> /\ s[1] = "-")
  PROVE  \E b \in {8, 10}, K \in 0..Len(s) : \E v :
           Strtoll(s).value = v[K] /\ ReadsAs(v, b, s, K)
<1> DEFINE Base(x) == IF x # <<>> /\ x[1] = "0" THEN 8 ELSE 10
           R(x) == {k \in 0..Len(x) : \A i \in 1..k : \E d \in 1..Base(x) : Digit[d] = x[i]}
           Run(x) == Max(R(x))
           Num(x) == CHOOSE v : ReadsAs(v, Base(x), x, Run(x))
           t == IF s # <<>> /\ s[1] = "-" THEN Tail(s) ELSE s
<1>1. Strtoll(s) = [value |-> IF t # s THEN -(Num(t)[Run(t)]) ELSE Num(t)[Run(t)],
                    whole |-> Run(t) = Len(t)]
  BY DEF Strtoll, ReadsAs, DigitOf
<1> HIDE DEF Num, Run
<1>2. t = s
  OBVIOUS
<1> HIDE DEF t
<1>3. Strtoll(s).value = Num(s)[Run(s)]
  BY <1>1, <1>2
<1>4. Run(s) \in 0..Len(s)
  <2>1. R(s) \in SUBSET (0..Len(s)) /\ 0 \in R(s)
    OBVIOUS
  <2> HIDE DEF R
  <2> QED BY <2>1, MaxOfNats DEF Run
<1>5. Base(s) \in {8, 10}
  OBVIOUS
<1> HIDE DEF Base, R
<1>6. ReadsAs(Num(s), Base(s), s, Run(s))
  <2>1. Run(s) \in Nat
    BY <1>4
  <2>2. \E v : ReadsAs(v, Base(s), s, Run(s))
    BY <2>1, NumberExists
  <2> QED BY <2>2, Zenon DEF Num
<1> QED BY <1>3, <1>4, <1>5, <1>6

(* No two digits are the same character.                                   *)
LEMMA DigitsDiffer ==
  ASSUME NEW d \in 0..9, NEW e \in 0..9, Digit[e + 1] = Digit[d + 1]
  PROVE  e = d
<1>1. /\ Digit[0 + 1] = "0" /\ Digit[1 + 1] = "1" /\ Digit[2 + 1] = "2" /\ Digit[3 + 1] = "3"
      /\ Digit[4 + 1] = "4" /\ Digit[5 + 1] = "5" /\ Digit[6 + 1] = "6" /\ Digit[7 + 1] = "7"
      /\ Digit[8 + 1] = "8" /\ Digit[9 + 1] = "9"
  BY DEF Digit
<1>2. d \in {0, 1, 2, 3, 4, 5, 6, 7, 8, 9} /\ e \in {0, 1, 2, 3, 4, 5, 6, 7, 8, 9}
  OBVIOUS
<1> QED BY <1>1, <1>2

(* The beginning of a number's text never reads as more than the number.   *)
LEMMA NumberReadsNoMore ==
  ASSUME NEW n \in Nat, NEW m \in 0..Len(Decimal(n)), NEW t, t = SubSeq(Decimal(n), 1, m)
  PROVE  Strtoll(t).value \in 0..n
<1>w. PICK w \in 1..19 : \E r :
           /\ Decimal(n) = [i \in 1..w |-> Digit[1 + (r[w - i] % 10)]]
           /\ \A i \in 0..19 : r[i] \in 0..n
           /\ \A i \in 1..19 : r[i] = r[i - 1] \div 10
  BY DecimalDigits, Zenon
<1>1. PICK r :
           /\ Decimal(n) = [i \in 1..w |-> Digit[1 + (r[w - i] % 10)]]
           /\ \A i \in 0..19 : r[i] \in 0..n
           /\ \A i \in 1..19 : r[i] = r[i - 1] \div 10
  BY <1>w, Zenon
<1>2. \A i \in 0..19 : r[i] \in 0..n
  BY <1>1, Zenon
<1>3. \A i \in 1..19 : r[i] = r[i - 1] \div 10
  BY <1>1
<1>4. \A i \in 0..19 : r[i] \in Nat /\ r[i] % 10 \in 0..9
  <2> SUFFICES ASSUME NEW i \in 0..19 PROVE r[i] \in Nat /\ r[i] % 10 \in 0..9
    OBVIOUS
  <2>1. PICK x \in 0..n : x = r[i]
    BY <1>2, Zenon
  <2>2. x \in Nat
    OBVIOUS
  <2>3. x % 10 \in 0..9
    BY <2>2
  <2> QED BY <2>1, <2>2, <2>3
<1>5. /\ m \in 0..w /\ w \in Nat /\ m \in Nat
      /\ t = [i \in 1..m |-> Digit[1 + (r[w - i] % 10)]]
  <2>1. Len(Decimal(n)) = w
    BY <1>1
  <2> QED BY <1>1, <2>1
<1>6. Len(t) = m
  BY <1>5
<1>7. \A i \in 1..m : w - i \in 0..19 /\ t[i] = Digit[1 + (r[w - i] % 10)]
  BY <1>5
<1>8. ~(t # <<>> /\ t[1] = "-")
  <2> SUFFICES ASSUME t # <<>>, t[1] = "-" PROVE FALSE
    OBVIOUS
  <2>1. 1 \in 1..m
    BY <1>5
  <2>2. \A d \in 0..9 : Digit[1 + d] # "-"
    BY DEF Digit
  <2>3. w - 1 \in 0..19 /\ t[1] = Digit[1 + (r[w - 1] % 10)]
    BY <1>7, <2>1
  <2> QED BY <1>4, <2>2, <2>3
<1>b. PICK b \in {8, 10}, K \in 0..m : \E V : Strtoll(t).value = V[K] /\ ReadsAs(V, b, t, K)
  BY <1>5, <1>6, <1>8, StrtollReads
<1>9. PICK V : Strtoll(t).value = V[K] /\ ReadsAs(V, b, t, K)
  BY <1>b
<1>10. V[0] = 0
  <2>1. 0 \in 0..K
    BY <1>5
  <2> QED BY <1>9, <2>1 DEF ReadsAs
<1>11. \A k \in 1..K : V[k] = b * V[k - 1] + (r[w - k] % 10)
  <2> SUFFICES ASSUME NEW k \in 1..K PROVE V[k] = b * V[k - 1] + (r[w - k] % 10)
    OBVIOUS
  <2>1. k \in 1..m /\ k # 0 /\ k \in 0..K
    BY <1>5
  <2>2. PICK d : d = r[w - k] % 10
    OBVIOUS
  <2>3. d \in 0..9 /\ t[k] = Digit[d + 1]
    <3>1. w - k \in 0..19 /\ t[k] = Digit[1 + d]
      BY <1>7, <2>1, <2>2
    <3>2. d \in 0..9
      BY <1>4, <2>2, <3>1
    <3> QED BY <3>1, <3>2
  <2>4. \A e \in 0..9 : Digit[e + 1] = Digit[d + 1] => e = d
    BY <2>3, DigitsDiffer
  <2>5. DigitOf(t[k]) = d
    BY <2>3, <2>4 DEF DigitOf
  <2>6. V[k] = b * V[k - 1] + DigitOf(t[k])
    BY <1>9, <2>1 DEF ReadsAs
  <2> QED BY <2>2, <2>5, <2>6
<1>12. \A k \in 0..K : V[k] \in 0..r[w - k]
  <2> DEFINE Bad == {k \in 0..K : V[k] \notin 0..r[w - k]}
  <2> SUFFICES ASSUME Bad # {} PROVE FALSE
    OBVIOUS
  <2>1. PICK k \in Bad : \A j \in Bad : k <= j
    <3>1. Bad \in SUBSET Nat
      BY <1>5
    <3> HIDE DEF Bad
    <3> QED BY <3>1, LeastOfNats
  <2>2. k \in 0..K /\ V[k] \notin 0..r[w - k] /\ k \in 0..m /\ k \in Nat
    BY <1>5, <2>1
  <2>3. PICK x : x = r[w - k]
    OBVIOUS
  <2>4. w - k \in 0..19 /\ x \in Nat
    <3>1. w - k \in 0..19
      BY <1>5, <2>2
    <3> QED BY <1>4, <2>3, <3>1
  <2>5. CASE k = 0
    <3>1. 0 \in 0..x
      BY <2>4
    <3> QED BY <1>10, <2>2, <2>3, <2>5, <3>1
  <2>6. CASE k # 0
    <3>1. k - 1 \in 0..K /\ k \in 1..K /\ k - 1 \notin Bad
      <4>1. k - 1 \in 0..K /\ k \in 1..K /\ ~(k <= k - 1)
        BY <1>5, <2>2, <2>6
      <4> HIDE DEF Bad
      <4> QED BY <2>1, <4>1
    <3>2. w - (k - 1) = w - k + 1 /\ w - k + 1 \in 1..19 /\ w - k + 1 - 1 = w - k
      BY <1>5, <2>2, <2>6
    <3>3. PICK y : y = r[w - k + 1]
      OBVIOUS
    <3>4. y = x \div 10
      <4>1. PICK j : j = w - k + 1
        OBVIOUS
      <4>2. j \in 1..19 /\ j - 1 = w - k
        BY <3>2, <4>1
      <4>3. r[j] = r[j - 1] \div 10
        BY <1>3, <4>2
      <4> QED BY <2>3, <3>3, <4>1, <4>2, <4>3
    <3>5. PICK v : v = V[k - 1]
      OBVIOUS
    <3>6. v \in 0..y
      BY <3>1, <3>2, <3>3, <3>5
    <3>7. V[k] = b * v + (x % 10)
      BY <1>11, <2>3, <3>1, <3>5
    <3>8. b * v \in Nat /\ b * v <= 10 * y
      <4>1. y \in Nat /\ v \in Nat
        BY <2>4, <3>4, <3>6
      <4>2. CASE b = 8
        BY <3>6, <4>1, <4>2
      <4>3. CASE b = 10
        BY <3>6, <4>1, <4>3
      <4> QED BY <4>2, <4>3
    <3>9. V[k] \in 0..x
      <4>1. PICK z2 : z2 = b * v
        OBVIOUS
      <4>2. z2 \in Nat /\ z2 <= 10 * (x \div 10) /\ V[k] = z2 + (x % 10)
        BY <3>4, <3>7, <3>8, <4>1
      <4> QED BY <2>4, <4>2
    <3> QED BY <2>2, <2>3, <3>9
  <2> QED BY <2>5, <2>6
<1>13. w - K \in 0..19 /\ K \in 0..K
  BY <1>5
<1>14. V[K] \in 0..r[w - K] /\ r[w - K] \in 0..n
  BY <1>2, <1>12, <1>13
<1>15. PICK x \in 0..n : x = r[w - K]
  BY <1>14, Zenon
<1>16. Strtoll(t).value \in 0..x
  BY <1>9, <1>14, <1>15, Zenon
<1> QED BY <1>15, <1>16

----------------------------------------------------------------------------
(* Counters never run ahead of the increments.  The inductive invariant.   *)

\* A program that counts: extended attributes are read, deleted and
\* incremented by naturals, and start with numbers up to g.start.
CountingOnly ==
  \A g \in Programs : g.counts =>
    /\ g.start \in Nat
    /\ \A p \in Procs : \A c \in g.ops[p] :
         /\ c.stores = {"xattr"}
         /\ \/ c.kind \in {"exists", "get", "getInt", "getCount", "delete"}
            \/ c.kind = "incrBy" /\ c.arg \in Nat
    /\ \A o \in DOMAIN g.seed : \E n \in 0..g.start : g.seed[o] = Decimal(n)

Counts == AtomicXattr /\ program.counts

SumPcs == {"find", "mkdir", "setxattr"}
AskPcs == {"size", "value", "walk"}

\* A call of such a program, and where it can be.
CountCall(c) ==
  /\ c.stores = {"xattr"}
  /\ \/ c.kind = "exists" /\ c.pc \in {"check", "walk"}
     \/ c.kind \in {"get", "getInt", "getCount"} /\ c.pc \in AskPcs
     \/ c.kind = "delete" /\ c.pc \in {"locate", "walk", "remove"}
     \/ c.kind = "incrBy" /\ c.arg \in Nat /\ c.pc \in AskPcs \cup SumPcs

\* What a process still has to add: nothing once it has its sum.
Pending(c) == IF c.pc \in AskPcs /\ c.kind = "incrBy" THEN c.arg ELSE 0

\* total[S] is what the processes in S still have to add, for sets of any size
\* up to what the steps have made of it.
Adds(total) ==
  \A S \in SUBSET Procs : \A p \in Procs \ S :
    total[S \cup {p}] = total[S] + Pending(proc[p])
Ledger(total, n) ==
  total \in [SUBSET Procs -> Nat] /\ Adds(total)
    /\ n + total[Procs] = program.start + added

\* Every number that is stored, or about to be, is at most n.
AtMost(t, n) == \E m \in 0..n : t = Decimal(m)
Below(n) ==
  /\ \A o \in Objects(program) : object[o] # 0 => AtMost(data[object[o]], n)
  /\ \A p \in Procs : Active(p) /\ proc[p].pc \in SumPcs => AtMost(proc[p].text, n)

NInv ==
  Counts =>
    /\ program.start \in Nat /\ added \in Nat
    /\ \A p \in Procs : Active(p) => CountCall(proc[p])
    /\ \E n \in Nat : \E total : Ledger(total, n) /\ Below(n)

----------------------------------------------------------------------------
(* How a step of process p may end: what it had to add is added to its sum *)
(* or given up.                                                            *)

LEMMA AtMostMore ==
  ASSUME NEW n \in Nat, NEW k \in Nat, n <= k, NEW t, AtMost(t, n)
  PROVE  AtMost(t, k)
BY DEF AtMost

LEMMA PendingType ==
  ASSUME NEW c, CountCall(c) \/ c.pc \notin AskPcs
  PROVE  Pending(c) \in Nat
BY DEF CountCall, Pending

(* A sum over the processes follows what one of them has to add.           *)
LEMMA LedgerMoves ==
  ASSUME NEW p \in Procs, NEW total \in [SUBSET Procs -> Nat], Adds(total),
         \A q \in Procs : Pending(proc[q]) \in Nat /\ Pending(proc[q])' \in Nat,
         \A q \in Procs \ {p} : Pending(proc[q])' = Pending(proc[q])
  PROVE  \E new \in [SUBSET Procs -> Nat] :
           /\ Adds(new)'
           /\ new[Procs] + Pending(proc[p]) = total[Procs] + Pending(proc[p])'
<1>1. PICK v : v = Pending(proc[p])'
  OBVIOUS
<1> DEFINE new == [S \in SUBSET Procs |-> IF p \in S THEN total[S \ {p}] + v ELSE total[S]]
<1>2. new \in [SUBSET Procs -> Nat]
  <2> SUFFICES ASSUME NEW S \in SUBSET Procs PROVE new[S] \in Nat
    OBVIOUS
  <2>1. S \ {p} \in SUBSET Procs
    OBVIOUS
  <2>2. total[S \ {p}] \in Nat /\ total[S] \in Nat /\ v \in Nat
    BY <1>1, <2>1
  <2> QED BY <2>2
<1>3. ASSUME NEW S \in SUBSET Procs, NEW q \in Procs \ S
      PROVE  new[S \cup {q}] = new[S] + Pending(proc[q])'
  <2>1. S \cup {q} \in SUBSET Procs /\ S \ {p} \in SUBSET Procs /\ total[S] \in Nat
        /\ total[S \ {p}] \in Nat /\ v \in Nat
    BY <1>1
  <2>2. CASE q = p
    <3>1. (S \cup {q}) \ {p} = S
      BY <2>2
    <3> QED BY <1>1, <2>1, <2>2, <3>1
  <2>3. CASE q # p /\ p \in S
    <3>1. (S \cup {q}) \ {p} = (S \ {p}) \cup {q} /\ q \notin S \ {p}
      BY <2>3
    <3>2. total[(S \ {p}) \cup {q}] = total[S \ {p}] + Pending(proc[q])
      BY <2>1, <3>1 DEF Adds
    <3>3. PICK a, x, y : /\ a = Pending(proc[q]) /\ x = total[S \ {p}]
                         /\ y = total[(S \ {p}) \cup {q}]
      OBVIOUS
    <3>4. y \in Nat /\ x \in Nat /\ y = x + a /\ Pending(proc[q])' = a
      BY <2>1, <2>3, <3>1, <3>2, <3>3
    <3>5. new[S \cup {q}] = y + v /\ new[S] = x + v
      BY <2>1, <2>3, <3>1, <3>3
    <3>6. a \in Nat
      BY <3>3
    <3> QED BY <2>1, <3>4, <3>5, <3>6
  <2>4. CASE q # p /\ p \notin S
    BY <2>1, <2>4 DEF Adds
  <2> QED BY <2>2, <2>3, <2>4
<1>4. new[Procs] + Pending(proc[p]) = total[Procs] + v
  <2>1. Procs \ {p} \in SUBSET Procs /\ (Procs \ {p}) \cup {p} = Procs
    OBVIOUS
  <2>2. total[Procs] = total[Procs \ {p}] + Pending(proc[p])
    BY <2>1 DEF Adds
  <2>3. total[Procs \ {p}] \in Nat /\ new[Procs] = total[Procs \ {p}] + v /\ v \in Nat
    BY <1>1, <2>1
  <2> QED BY <2>2, <2>3
<1>5. Adds(new)'
  BY <1>3 DEF Adds
<1> HIDE DEF new
<1> QED BY <1>1, <1>2, <1>4, <1>5

\* What the steps inside a call have in common.
SameN   == program' = program /\ setting' = setting /\ added' = added
StoredN == \A n \in Nat : Below(n) =>
             \A o \in Objects(program) : object'[o] # 0 => AtMost(data'[object'[o]], n)
GoesTo(p, d) ==
  /\ proc' = [proc EXCEPT ![p] = d]
  /\ d.pc \in {"idle", "dead"} \/ CountCall(d)
  /\ Pending(d) <= Pending(proc[p])
  /\ \A n, k \in Nat :
       Below(n) /\ k + Pending(d) = n + Pending(proc[p]) /\ d.pc \in SumPcs
         => AtMost(d.text, k)
GoesN(p) == \E d : GoesTo(p, d)
EndsN(p) == StoredN /\ GoesN(p)

LEMMA ActivePending ==
  ASSUME Inv, NInv, Counts, NEW p \in Procs
  PROVE  Pending(proc[p]) \in Nat
<1>1. Active(p) => CountCall(proc[p])
  BY DEF NInv
<1>2. ~Active(p) => proc[p].pc \notin AskPcs
  BY DEF Active, AskPcs
<1> QED BY <1>1, <1>2, PendingType

LEMMA EndsKeepN ==
  ASSUME Inv, NInv, NEW p \in Procs, SameN, Counts => EndsN(p)
  PROVE  NInv'
<1>1. Counts' <=> Counts
  BY DEF SameN, Counts, AtomicXattr
<1> SUFFICES ASSUME Counts
             PROVE  /\ program'.start \in Nat /\ added' \in Nat
                    /\ \A q \in Procs : Active(q)' => CountCall(proc[q])'
                    /\ \E n \in Nat : \E total : Ledger(total, n)' /\ Below(n)'
  BY <1>1 DEF NInv
<1>2. program'.start \in Nat /\ added' \in Nat
  BY DEF NInv, SameN
<1>3. PICK d : /\ proc' = [proc EXCEPT ![p] = d]
               /\ d.pc \in {"idle", "dead"} \/ CountCall(d)
               /\ Pending(d) <= Pending(proc[p])
               /\ \A n, k \in Nat :
                    Below(n) /\ k + Pending(d) = n + Pending(proc[p]) /\ d.pc \in SumPcs
                      => AtMost(d.text, k)
  BY DEF EndsN, GoesN, GoesTo
<1>4. proc'[p] = d /\ \A q \in Procs \ {p} : proc'[q] = proc[q]
  BY <1>3 DEF Inv, ProcsOK
<1>5. Pending(d) \in Nat
  BY <1>3, PendingType DEF AskPcs
<1>6. /\ \A q \in Procs : Pending(proc[q]) \in Nat /\ Pending(proc[q])' \in Nat
      /\ \A q \in Procs \ {p} : Pending(proc[q])' = Pending(proc[q])
      /\ Pending(proc[p])' = Pending(d)
  <2>1. \A q \in Procs : Pending(proc[q]) \in Nat
    BY ActivePending
  <2>2. Pending(proc[p])' = Pending(d)
    BY <1>4 DEF Pending
  <2>3. \A q \in Procs \ {p} : Pending(proc[q])' = Pending(proc[q])
    BY <1>4 DEF Pending
  <2> QED BY <1>5, <2>1, <2>2, <2>3
<1>n. PICK n \in Nat : \E total : Ledger(total, n) /\ Below(n)
  BY DEF NInv
<1>7. PICK total : Ledger(total, n) /\ Below(n)
  BY <1>n
<1>8. PICK new \in [SUBSET Procs -> Nat] :
           /\ Adds(new)'
           /\ new[Procs] + Pending(proc[p]) = total[Procs] + Pending(d)
  BY <1>6, <1>7, LedgerMoves DEF Ledger
<1>9. PICK k : k = n + Pending(proc[p]) - Pending(d)
  OBVIOUS
<1>10. k \in Nat /\ n <= k /\ k + Pending(d) = n + Pending(proc[p])
  BY <1>3, <1>5, <1>6, <1>9
<1>11. Ledger(new, k)'
  <2>1. total[Procs] \in Nat /\ new[Procs] \in Nat
    BY <1>7 DEF Ledger
  <2>2. n + total[Procs] = program.start + added
    BY <1>7 DEF Ledger
  <2>3. k + new[Procs] = program'.start + added'
    BY <1>5, <1>6, <1>8, <1>9, <2>1, <2>2 DEF SameN
  <2> QED BY <1>8, <2>3 DEF Ledger
<1>12. ASSUME NEW o \in Objects(program), object'[o] # 0 PROVE AtMost(data'[object'[o]], k)
  <2>1. AtMost(data'[object'[o]], n)
    BY <1>7, <1>12 DEF EndsN, StoredN
  <2> QED BY <1>10, <2>1, AtMostMore
<1>13. ASSUME NEW q \in Procs, proc'[q].pc \in SumPcs PROVE AtMost(proc'[q].text, k)
  <2>1. CASE q = p
    BY <1>3, <1>4, <1>7, <1>10, <1>13, <2>1
  <2>2. CASE q # p
    <3>1. proc'[q] = proc[q]
      BY <1>4, <2>2
    <3>2. Active(q) /\ proc[q].pc \in SumPcs
      BY <1>13, <3>1 DEF Active, SumPcs
    <3>3. AtMost(proc[q].text, n)
      BY <1>7, <3>2 DEF Below
    <3> QED BY <1>10, <3>1, <3>3, AtMostMore
  <2> QED BY <2>1, <2>2
<1>14. Below(k)'
  BY <1>12, <1>13 DEF Below, SameN, AtMost
<1>15. \A q \in Procs : Active(q)' => CountCall(proc[q])'
  <2> SUFFICES ASSUME NEW q \in Procs, Active(q)' PROVE CountCall(proc[q])'
    OBVIOUS
  <2>1. CASE q = p
    BY <1>3, <1>4, <2>1 DEF Active, CountCall
  <2>2. CASE q # p
    BY <1>4, <2>2 DEF Active, CountCall, NInv
  <2> QED BY <2>1, <2>2
<1> QED BY <1>2, <1>10, <1>11, <1>14, <1>15

----------------------------------------------------------------------------
(* What the steps share.                                                   *)

LEMMA InsideN == Inside => SameN
BY DEF Inside, SameN

LEMMA LocalN ==
  ASSUME Local
  PROVE  SameN /\ StoredN
<1>1. program' = program /\ object' = object /\ data' = data
  BY DEF Local, Inside, fsys
<1> QED BY <1>1, InsideN DEF Local, StoredN, Below

LEMMA CountingCall ==
  ASSUME Inv, NInv, Counts, NEW p \in Procs, Active(p), NEW c, c = proc[p]
  PROVE  CountCall(c) /\ IsCallOf(p, c) /\ Fits(c) /\ Pending(c) \in Nat
BY ActiveCall, PendingType DEF NInv, Inv, CallOK

(* The call is over, or its process is dead: nothing is left to add.       *)
LEMMA OverN ==
  ASSUME Inv, NInv, Counts, NEW p \in Procs, Active(p), NEW d \in {Idle, Dead},
         proc' = [proc EXCEPT ![p] = d]
  PROVE  GoesN(p)
<1>1. d.pc \in {"idle", "dead"} /\ d.pc \notin AskPcs /\ d.pc \notin SumPcs
  BY DEF Idle, Dead, AskPcs, SumPcs
<1>2. Pending(d) = 0 /\ Pending(proc[p]) \in Nat
  BY <1>1, CountingCall DEF Pending
<1>3. Pending(d) <= Pending(proc[p])
  BY <1>2
<1>4. GoesTo(p, d)
  BY <1>1, <1>3 DEF GoesTo
<1> QED BY <1>4 DEF GoesN

LEMMA ReturnN ==
  ASSUME Inv, NInv, Counts, NEW p \in Procs, Active(p), NEW r, NEW s, Finish(p, r, s)
  PROVE  GoesN(p)
BY OverN DEF Finish

(* The call goes on, with as much to add as before.                        *)
LEMMA OnN ==
  ASSUME Inv, NInv, Counts, NEW p \in Procs, Active(p), NEW c, c = proc[p],
         NEW d, CountCall(d), Pending(d) = Pending(c),
         d.pc \in SumPcs => c.pc \in SumPcs /\ d.text = c.text,
         proc' = [proc EXCEPT ![p] = d]
  PROVE  GoesN(p)
<1>1. Pending(c) \in Nat
  BY CountingCall
<1>2. ASSUME NEW n \in Nat, NEW k \in Nat, Below(n), k + Pending(c) = n + Pending(c),
             d.pc \in SumPcs
      PROVE  AtMost(d.text, k)
  <2>1. k = n
    BY <1>1, <1>2
  <2>2. AtMost(c.text, n)
    BY <1>2 DEF Below
  <2> QED BY <1>2, <2>1, <2>2
<1>3. Pending(d) <= Pending(c)
  BY <1>1
<1>4. GoesTo(p, d)
  BY <1>2, <1>3 DEF GoesTo
<1> QED BY <1>4 DEF GoesN

(* A call that only goes on to another system call.                        *)
LEMMA AtN ==
  ASSUME Inv, NInv, Counts, NEW p \in Procs, Active(p), NEW c, c = proc[p],
         NEW pc, NEW d, d = [c EXCEPT !.pc = pc]
  PROVE  /\ IsCallOf(p, d) /\ d.pc = pc /\ d.kind = c.kind /\ d.stores = c.stores
         /\ d.arg = c.arg /\ d.text = c.text
BY CountingCall, AtFields

(* What is read of a number that is at most n is at most n.                *)
LEMMA StartAtMost ==
  ASSUME NEW n \in Nat, NEW b, AtMost(b, n), NEW k \in 0..Len(b)
  PROVE  Len(b) \in Nat /\ Strtoll(SubSeq(b, 1, k)).value \in 0..n
<1>1. PICK m \in 0..n : b = Decimal(m)
  BY DEF AtMost
<1>2. Strtoll(SubSeq(b, 1, k)).value \in 0..m
  <2>1. PICK t : t = SubSeq(Decimal(m), 1, k)
    OBVIOUS
  <2>2. k \in 0..Len(Decimal(m)) /\ m \in Nat
    BY <1>1
  <2>3. Strtoll(t).value \in 0..m
    BY <2>1, <2>2, NumberReadsNoMore
  <2> QED BY <1>1, <2>1, <2>3
<1>3. Len(b) \in Nat
  BY <1>1, DecimalIsText, LenProperties DEF IsText
<1> QED BY <1>2, <1>3

(* An increment that has read a number has its sum, and no more to add.    *)
LEMMA AnswerN ==
  ASSUME Inv, NInv, Counts, NEW p \in Procs, Active(p), NEW c, c = proc[p],
         c.pc \in AskPcs, c.kind \in Getting, NEW t, Answer(p, t),
         \A n \in Nat : Below(n) => t = NULL \/ Strtoll(t).value \in 0..n
  PROVE  GoesN(p)
<1>1. CASE c.kind \in {"get", "getInt", "getCount"}
  <2>1. \E r : Finish(p, r, Unknown)
    BY <1>1 DEF Answer
  <2> QED BY <2>1, ReturnN
<1>2. CASE c.kind = "incrBy"
  <2>1. PICK x : /\ x = IF t = NULL \/ errno[p] # 0 THEN 0 ELSE Strtoll(t).value
                 /\ Stay(p, [At(p, "find") EXCEPT !.result = x + c.arg,
                                                  !.text = Decimal(x + c.arg)])
    BY <1>2 DEF Answer
  <2>2. PICK e : e = [c EXCEPT !.pc = "find"]
    OBVIOUS
  <2>3. PICK d : d = [e EXCEPT !.result = x + c.arg, !.text = Decimal(x + c.arg)]
    OBVIOUS
  <2>4. /\ IsCallOf(p, e) /\ e.pc = "find" /\ e.kind = c.kind /\ e.stores = c.stores
        /\ e.arg = c.arg
    BY <2>2, AtN
  <2>5. /\ d.pc = "find" /\ d.kind = c.kind /\ d.stores = c.stores /\ d.arg = c.arg
        /\ d.text = Decimal(x + c.arg)
    BY <2>3, <2>4 DEF IsCallOf
  <2>6. proc' = [proc EXCEPT ![p] = d]
    BY <2>1, <2>2, <2>3 DEF Stay, Goto, At
  <2>7. CountCall(c) /\ c.arg \in Nat
    BY <1>2, CountingCall DEF CountCall
  <2>8. CountCall(d)
    BY <1>2, <2>5, <2>7 DEF CountCall, SumPcs
  <2>9. Pending(d) = 0 /\ Pending(c) = c.arg
    BY <1>2, <2>5 DEF Pending, AskPcs
  <2>10. ASSUME NEW n \in Nat, NEW k \in Nat, Below(n), k + 0 = n + c.arg
         PROVE  AtMost(d.text, k)
    <3>1. x \in 0..n
      BY <2>1, <2>10
    <3>2. x + c.arg \in 0..k
      BY <2>7, <2>10, <3>1
    <3> QED BY <2>5, <3>2 DEF AtMost
  <2>11. GoesTo(p, d)
    BY <2>6, <2>7, <2>8, <2>9, <2>10 DEF GoesTo
  <2> QED BY <2>11 DEF GoesN
<1> QED BY <1>1, <1>2 DEF Getting

LEMMA NotThereN ==
  ASSUME Inv, NInv, Counts, NEW p \in Procs, Active(p), NEW c, c = proc[p],
         c.pc \in AskPcs \cup {"check"}, NotThere(p)
  PROVE  GoesN(p)
<1>1. CASE c.kind \in {"exists", "delete"}
  BY <1>1, ReturnN DEF NotThere
<1>2. CASE c.kind \notin {"exists", "delete"}
  <2>1. c.kind \in Getting /\ c.pc \in AskPcs
    BY <1>2, CountingCall DEF CountCall, Getting, AskPcs, SumPcs
  <2> QED BY <1>2, <2>1, AnswerN DEF NotThere
<1> QED BY <1>1, <1>2

LEMMA MissedN ==
  ASSUME Inv, NInv, Counts, NEW p \in Procs, Active(p), NEW c, c = proc[p],
         c.pc \in {"size", "value", "check"}, Missed(p)
  PROVE  GoesN(p)
<1>1. c.pc \in AskPcs \cup {"check"}
  BY DEF AskPcs
<1>2. CASE Stay(p, At(p, "walk"))
  <2>1. PICK d : d = [c EXCEPT !.pc = "walk"]
    OBVIOUS
  <2>2. d.pc = "walk" /\ d.kind = c.kind /\ d.stores = c.stores /\ d.arg = c.arg
    BY <2>1, AtN
  <2>3. CountCall(d) /\ Pending(d) = Pending(c) /\ d.pc \notin SumPcs
    BY <2>2, CountingCall DEF CountCall, Pending, AskPcs, SumPcs
  <2>4. proc' = [proc EXCEPT ![p] = d]
    BY <1>2, <2>1 DEF Stay, Goto, At
  <2> QED BY <2>3, <2>4, OnN
<1>3. CASE NotThere(p)
  BY <1>1, <1>3, NotThereN
<1> QED BY <1>2, <1>3 DEF Missed

LEMMA AfterXattrN ==
  ASSUME Inv, NInv, Counts, NEW p \in Procs, Active(p), NEW c, c = proc[p],
         c.pc \in {"size", "value"}, AfterXattr(p)
  PROVE  GoesN(p)
<1>1. "file" \notin c.stores
  BY CountingCall DEF CountCall
<1> QED BY <1>1, MissedN DEF AfterXattr

----------------------------------------------------------------------------
(* The steps.                                                              *)

(* A number that is stored where a call looks.                             *)
LEMMA ReadAtMost ==
  ASSUME Inv, NInv, Counts, NEW p \in Procs, Active(p), Present(p, "xattr"),
         NEW n \in Nat, Below(n)
  PROVE  AtMost(Bytes(p, "xattr"), n)
<1>1. CallOK(p, proc[p])
  BY ActiveCall DEF Inv
<1>2. The(p, "xattr") \in Objects(program)
  BY <1>1, XattrText DEF Xattrs
<1> QED BY <1>2 DEF Below, Present, Bytes

LEMMA XattrSizeN == ASSUME Inv, NInv, NEW p \in Procs, XattrSize(p) PROVE NInv'
<1>1. PICK c, b : c = proc[p] /\ b = Bytes(p, "xattr")
  OBVIOUS
<1>2. Active(p) /\ c.pc = "size" /\ SameN /\ StoredN
  BY <1>1, LocalN DEF XattrSize, Active
<1>3. ASSUME Counts PROVE GoesN(p)
  <2>1. CASE ~Present(p, "xattr")
    BY <1>1, <1>2, <1>3, <2>1, AfterXattrN DEF XattrSize
  <2>2. CASE Present(p, "xattr") /\ Len(b) = 0
    <3>1. Answer(p, <<>>)
      BY <1>1, <2>2 DEF XattrSize
    <3>2. c.kind \in Getting
      BY <1>1, <1>2, <1>3, CountingCall DEF CountCall, Getting
    <3>3. ASSUME NEW n \in Nat, Below(n) PROVE Strtoll(<<>>).value \in 0..n
      <4>1. AtMost(b, n)
        BY <1>1, <1>2, <1>3, <2>2, <3>3, ReadAtMost
      <4>2. 0 \in 0..Len(b) /\ SubSeq(b, 1, 0) = <<>>
        BY <2>2
      <4>3. Strtoll(SubSeq(b, 1, 0)).value \in 0..n
        BY <4>1, <4>2, StartAtMost
      <4> QED BY <4>2, <4>3
    <3> QED BY <1>1, <1>2, <1>3, <3>1, <3>2, <3>3, AnswerN DEF AskPcs
  <2>3. CASE Present(p, "xattr") /\ Len(b) # 0
    <3>1. PICK e : e = [c EXCEPT !.pc = "value"]
      OBVIOUS
    <3>2. PICK d : d = [e EXCEPT !.len = Len(b)]
      OBVIOUS
    <3>3. /\ IsCallOf(p, e) /\ e.pc = "value" /\ e.kind = c.kind /\ e.stores = c.stores
          /\ e.arg = c.arg
      BY <1>1, <1>2, <1>3, <3>1, AtN
    <3>4. d.pc = "value" /\ d.kind = c.kind /\ d.stores = c.stores /\ d.arg = c.arg
      BY <3>2, <3>3 DEF IsCallOf
    <3>5. CountCall(d) /\ Pending(d) = Pending(c) /\ d.pc \notin SumPcs
      BY <1>1, <1>2, <1>3, <3>4, CountingCall DEF CountCall, Pending, AskPcs, SumPcs
    <3>6. proc' = [proc EXCEPT ![p] = d]
      BY <1>1, <1>3, <2>3, <3>1, <3>2 DEF XattrSize, Counts, Stay, Goto, At
    <3> QED BY <1>1, <1>2, <1>3, <3>5, <3>6, OnN
  <2> QED BY <2>1, <2>2, <2>3
<1> QED BY <1>2, <1>3, EndsKeepN DEF EndsN

LEMMA XattrValueN == ASSUME Inv, NInv, NEW p \in Procs, XattrValue(p) PROVE NInv'
<1>1. PICK c, b, k : c = proc[p] /\ b = Bytes(p, "xattr") /\ k = c.len
  OBVIOUS
<1>2. PICK v : v = IF setting.platform = "bsd" THEN BsdValue(b, k) ELSE LinuxValue(b, k)
  OBVIOUS
<1>3. Active(p) /\ c.pc = "value" /\ SameN /\ StoredN
  BY <1>1, LocalN DEF XattrValue, Active
<1>4. ASSUME Counts PROVE GoesN(p)
  <2>1. CASE ~(Present(p, "xattr") /\ v # NULL)
    <3>1. AfterXattr(p)
      BY <1>1, <1>2, <2>1 DEF XattrValue
    <3> QED BY <1>1, <1>3, <1>4, <3>1, AfterXattrN
  <2>2. CASE Present(p, "xattr") /\ v # NULL
    <3>1. Answer(p, v)
      BY <1>1, <1>2, <2>2 DEF XattrValue
    <3>2. c.kind \in Getting /\ k \in Nat
      BY <1>1, <1>3, <1>4, CountingCall DEF CountCall, Getting, Fits
    <3>3. ASSUME NEW n \in Nat, Below(n) PROVE Strtoll(v).value \in 0..n
      <4>1. AtMost(b, n)
        BY <1>1, <1>3, <1>4, <2>2, <3>3, ReadAtMost
      <4>2. IsText(b) /\ Len(b) \in Nat
        BY <4>1, DecimalIsText, LenProperties DEF AtMost, IsText
      <4>3. PICK m \in 0..Len(b) : v = SubSeq(b, 1, m)
        <5>1. CASE setting.platform = "bsd"
          <6>1. PICK l, m : l = Len(b) /\ m = Min({k, l})
            OBVIOUS
          <6>2. m \in 0..l
            BY <3>2, <4>2, <6>1, MinOfTwo
          <6> QED BY <1>2, <5>1, <6>1, <6>2 DEF BsdValue
        <5>2. CASE setting.platform # "bsd"
          <6>1. v = b
            BY <1>2, <2>2, <5>2 DEF LinuxValue
          <6>2. SubSeq(b, 1, Len(b)) = b
            BY <4>2 DEF IsText
          <6>3. Len(b) \in 0..Len(b)
            BY <4>2
          <6> QED BY <6>1, <6>2, <6>3
        <5> QED BY <5>1, <5>2
      <4> QED BY <4>1, <4>3, StartAtMost
    <3> QED BY <1>1, <1>3, <1>4, <3>1, <3>2, <3>3, AnswerN DEF AskPcs
  <2> QED BY <2>1, <2>2
<1> QED BY <1>3, <1>4, EndsKeepN DEF EndsN

LEMMA WalkN == ASSUME Inv, NInv, NEW p \in Procs, Walk(p) PROVE NInv'
<1>1. PICK c : c = proc[p]
  OBVIOUS
<1>2. Active(p) /\ c.pc = "walk" /\ SameN /\ StoredN
  BY <1>1, LocalN DEF Walk, Active
<1>3. ASSUME Counts PROVE GoesN(p)
  <2>1. CASE ~(dir /\ setting.depth > 0)
    <3>1. NotThere(p)
      BY <2>1 DEF Walk
    <3> QED BY <1>1, <1>2, <1>3, <3>1, NotThereN DEF AskPcs
  <2>2. CASE dir /\ setting.depth > 0
    <3>1. CountCall(c)
      BY <1>1, <1>2, <1>3, CountingCall
    <3>2. PICK pc : pc = CASE c.kind = "exists" -> "check"
                           [] c.kind = "delete" -> "remove"
                           [] OTHER             -> FirstRead(c.stores)
      OBVIOUS
    <3>3. \/ c.kind = "exists" /\ pc = "check"
          \/ c.kind = "delete" /\ pc = "remove"
          \/ c.kind \notin {"exists", "delete"} /\ pc = "size"
      BY <3>1, <3>2 DEF CountCall, FirstRead
    <3>4. PICK e : e = [c EXCEPT !.pc = pc]
      OBVIOUS
    <3>5. PICK d : d = [e EXCEPT !.where = "home"]
      OBVIOUS
    <3>6. /\ IsCallOf(p, e) /\ e.pc = pc /\ e.kind = c.kind /\ e.stores = c.stores
          /\ e.arg = c.arg
      BY <1>1, <1>2, <1>3, <3>4, AtN
    <3>7. d.pc = pc /\ d.kind = c.kind /\ d.stores = c.stores /\ d.arg = c.arg
      BY <3>5, <3>6 DEF IsCallOf
    <3>8. CountCall(d) /\ Pending(d) = Pending(c) /\ d.pc \notin SumPcs
      BY <1>2, <3>1, <3>3, <3>7 DEF CountCall, Pending, AskPcs, SumPcs
    <3>9. proc' = [proc EXCEPT ![p] = d]
      BY <1>1, <2>2, <3>2, <3>4, <3>5 DEF Walk, Stay, Goto, At
    <3> QED BY <1>1, <1>2, <1>3, <3>8, <3>9, OnN
  <2> QED BY <2>1, <2>2
<1> QED BY <1>2, <1>3, EndsKeepN DEF EndsN

LEMMA CheckN == ASSUME Inv, NInv, NEW p \in Procs, Check(p) PROVE NInv'
<1>1. Active(p) /\ proc[p].pc = "check" /\ SameN /\ StoredN
  BY LocalN DEF Check, Active
<1>2. Finish(p, TRUE, Unknown) \/ Missed(p)
  BY DEF Check
<1>3. Counts => GoesN(p)
  BY <1>1, <1>2, ReturnN, MissedN
<1> QED BY <1>1, <1>3, EndsKeepN DEF EndsN

LEMMA LocateN == ASSUME Inv, NInv, NEW p \in Procs, Locate(p) PROVE NInv'
<1>1. PICK c : c = proc[p]
  OBVIOUS
<1>2. Active(p) /\ c.pc = "locate" /\ SameN /\ StoredN
  BY <1>1, LocalN DEF Locate, Active
<1>3. PICK pc \in {"remove", "walk"} : Stay(p, At(p, pc))
  BY DEF Locate
<1>4. PICK d : d = [c EXCEPT !.pc = pc]
  OBVIOUS
<1>5. proc' = [proc EXCEPT ![p] = d]
  BY <1>1, <1>3, <1>4 DEF Stay, Goto, At
<1>6. ASSUME Counts PROVE GoesN(p)
  <2>1. d.pc = pc /\ d.kind = c.kind /\ d.stores = c.stores /\ d.arg = c.arg
    BY <1>1, <1>2, <1>4, <1>6, AtN
  <2>2. CountCall(c) /\ c.kind = "delete"
    BY <1>1, <1>2, <1>6, CountingCall DEF CountCall, AskPcs, SumPcs
  <2>3. CountCall(d) /\ Pending(d) = Pending(c) /\ d.pc \notin SumPcs
    BY <2>1, <2>2 DEF CountCall, Pending, SumPcs
  <2> QED BY <1>1, <1>2, <1>5, <1>6, <2>3, OnN
<1> QED BY <1>2, <1>6, EndsKeepN DEF EndsN

LEMMA DeleteAttrN == ASSUME Inv, NInv, NEW p \in Procs, DeleteAttr(p) PROVE NInv'
<1>1. Active(p) /\ SameN /\ data' = data /\ \E r, s : Finish(p, r, s)
  BY InsideN DEF DeleteAttr, Active
<1>2. CallOK(p, proc[p])
  BY <1>1, ActiveCall DEF Inv
<1>3. \A o \in Objects(program) : object'[o] # 0 => object'[o] = object[o]
  <2>1. CASE object' = object
    BY <2>1
  <2>2. ASSUME NEW s \in {"file", "xattr"}, object' = [object EXCEPT ![The(p, s)] = 0]
        PROVE  \A o \in Objects(program) : object'[o] # 0 => object'[o] = object[o]
    BY <2>2 DEF Inv, StateOK
  <2> QED BY <2>1, <2>2 DEF DeleteAttr
<1>4. StoredN
  BY <1>1, <1>3 DEF StoredN, Below
<1>5. Counts => GoesN(p)
  BY <1>1, ReturnN
<1> QED BY <1>1, <1>4, <1>5, EndsKeepN DEF EndsN

LEMMA FindPlaceN == ASSUME Inv, NInv, NEW p \in Procs, FindPlace(p) PROVE NInv'
<1>1. PICK c, pc : c = proc[p] /\ pc = AtPlace(p)
  OBVIOUS
<1>2. Active(p) /\ c.pc = "find" /\ SameN /\ object' = object /\ data' = data
  BY <1>1, InsideN DEF FindPlace, Active, fsys
<1>3. StoredN
  BY <1>2 DEF StoredN, Below
<1>4. ASSUME Counts PROVE GoesN(p)
  <2>1. CountCall(c) /\ c.kind = "incrBy"
    BY <1>1, <1>2, <1>4, CountingCall DEF CountCall, AskPcs
  <2>2. pc \in {"mkdir", "setxattr"}
    BY <1>1, <1>4, <2>1 DEF AtPlace, FirstWrite, CountCall, Counts
  <2>3. PICK e : e = [c EXCEPT !.pc = pc]
    OBVIOUS
  <2>4. PICK d : d = [e EXCEPT !.where = "home", !.found = dir]
    OBVIOUS
  <2>5. /\ IsCallOf(p, e) /\ e.pc = pc /\ e.kind = c.kind /\ e.stores = c.stores
        /\ e.arg = c.arg /\ e.text = c.text
    BY <1>1, <1>2, <1>4, <2>3, AtN
  <2>6. /\ d.pc = pc /\ d.kind = c.kind /\ d.stores = c.stores /\ d.arg = c.arg
        /\ d.text = c.text
    BY <2>4, <2>5 DEF IsCallOf
  <2>7. CountCall(d) /\ Pending(d) = Pending(c) /\ c.pc \in SumPcs
    BY <1>2, <2>1, <2>2, <2>6 DEF CountCall, Pending, AskPcs, SumPcs
  <2>8. proc' = [proc EXCEPT ![p] = d]
    BY <1>1, <2>3, <2>4 DEF FindPlace, Stay, Goto, At
  <2> QED BY <1>1, <1>2, <1>4, <2>6, <2>7, <2>8, OnN
<1> QED BY <1>2, <1>3, <1>4, EndsKeepN DEF EndsN

LEMMA MakeDirN == ASSUME Inv, NInv, NEW p \in Procs, MakeDir(p) PROVE NInv'
<1>1. PICK c : c = proc[p]
  OBVIOUS
<1>2. Active(p) /\ c.pc = "mkdir" /\ SameN /\ object' = object /\ data' = data
  BY <1>1, InsideN DEF MakeDir, Active
<1>3. StoredN
  BY <1>2 DEF StoredN, Below
<1>4. ASSUME Counts PROVE GoesN(p)
  <2>1. CountCall(c) /\ c.kind = "incrBy"
    BY <1>1, <1>2, <1>4, CountingCall DEF CountCall, AskPcs
  <2>2. FirstWrite(c.stores) = "setxattr"
    BY <1>4, <2>1 DEF FirstWrite, CountCall, Counts
  <2>3. PICK d : d = [c EXCEPT !.pc = "setxattr"]
    OBVIOUS
  <2>4. /\ d.pc = "setxattr" /\ d.kind = c.kind /\ d.stores = c.stores /\ d.arg = c.arg
        /\ d.text = c.text
    BY <1>1, <1>2, <1>4, <2>3, AtN
  <2>5. CountCall(d) /\ Pending(d) = Pending(c) /\ c.pc \in SumPcs
    BY <1>2, <2>1, <2>4 DEF CountCall, Pending, AskPcs, SumPcs
  <2>6. proc' = [proc EXCEPT ![p] = d]
    BY <1>1, <2>2, <2>3 DEF MakeDir, Stay, Goto, At
  <2> QED BY <1>1, <1>2, <1>4, <2>4, <2>5, <2>6, OnN
<1> QED BY <1>2, <1>3, <1>4, EndsKeepN DEF EndsN

LEMMA SetXattrN == ASSUME Inv, NInv, NEW p \in Procs, SetXattr(p) PROVE NInv'
<1>1. PICK c, o : c = proc[p] /\ o = The(p, "xattr")
  OBVIOUS
<1>2. Active(p) /\ c.pc = "setxattr" /\ SameN
  BY <1>1, InsideN DEF SetXattr, Active
<1>3. ASSUME Counts PROVE StoredN
  <2> SUFFICES ASSUME NEW n \in Nat, Below(n), NEW q \in Objects(program), object'[q] # 0
               PROVE  AtMost(data'[object'[q]], n)
    BY DEF StoredN
  <2>1. CASE object' = object /\ data' = data
    BY <2>1 DEF Below
  <2>2. CASE /\ Room(o)
             /\ object' = [object EXCEPT ![o] = Inode(o)]
             /\ data' = [data EXCEPT ![Inode(o)] =
                           SetValue(IF object[o] = 0 THEN <<>> ELSE @, c.text)]
    <3>1. o \in Objects(program)
      BY <1>1, <1>2, <1>3, CountingCall, TheObject DEF The
    <3>2. /\ Inode(o) \in 1..MaxInodes
          /\ \A x \in Objects(program) \ {o} : object[x] # Inode(o)
      BY <2>2, <3>1, InodeType DEF Inv
    <3>3. CASE q = o
      <4>1. data'[object'[q]] = c.text
        BY <2>2, <3>1, <3>2, <3>3 DEF Inv, StateOK, SetValue
      <4>2. AtMost(c.text, n)
        BY <1>1, <1>2 DEF Below, SumPcs
      <4> QED BY <4>1, <4>2
    <3>4. CASE q # o
      <4>1. object'[q] = object[q] /\ object[q] # Inode(o)
        BY <2>2, <3>2, <3>4 DEF Inv, StateOK
      <4>2. object[q] \in 1..MaxInodes
        BY <4>1, InodesAssumption DEF Inv, StateOK
      <4>3. data'[object[q]] = data[object[q]]
        BY <2>2, <4>1, <4>2 DEF Inv, StateOK
      <4> QED BY <4>1, <4>3 DEF Below
    <3> QED BY <3>3, <3>4
  <2> QED BY <1>1, <2>1, <2>2 DEF SetXattr, fsys
<1>4. ASSUME Counts PROVE GoesN(p)
  <2>1. "file" \notin c.stores
    BY <1>1, <1>2, <1>4, CountingCall DEF CountCall
  <2>2. \E r : AfterSet(p, r)
    BY DEF SetXattr
  <2>3. \E r, s : Finish(p, r, s)
    BY <1>1, <2>1, <2>2 DEF AfterSet, PutDone
  <2> QED BY <1>2, <1>4, <2>3, ReturnN
<1> QED BY <1>2, <1>3, <1>4, EndsKeepN DEF EndsN

(* The system calls of the other calls are not made.                       *)
LEMMA OthersN ==
  ASSUME Inv, NInv, NEW p \in Procs,
         \/ NoRead(p) \/ Open(p, "xattr") \/ Open(p, "file") \/ Seek(p) \/ Read(p)
         \/ NoWrite(p) \/ Truncate(p, "xattr") \/ Write(p, "xattr")
         \/ Truncate(p, "file") \/ Write(p, "file") \/ IncrDir(p)
  PROVE  NInv'
<1>1. SameN
  BY InsideN DEF NoRead, Open, Seek, Read, NoWrite, Truncate, Write, IncrDir, OpenRW,
     SeekRW, ReadRW, WriteRW, NullDir, Local
<1>2. PICK pc : pc = proc[p].pc
  OBVIOUS
<1>3. pc \in {"none", "openXattr", "open", "seek", "read", "noWrite", "truncXattr",
              "writeXattr", "trunc", "write", "openRW", "seekRW", "readRW", "writeRW",
              "nullDir"}
  BY <1>2 DEF NoRead, Open, Seek, Read, NoWrite, Truncate, Write, IncrDir, OpenRW,
     SeekRW, ReadRW, WriteRW, NullDir
<1>4. Active(p)
  BY <1>2, <1>3 DEF Active
<1>5. ~Counts
  <2> SUFFICES ASSUME Counts PROVE FALSE
    OBVIOUS
  <2>1. CountCall(proc[p])
    BY <1>4, CountingCall
  <2> QED BY <1>2, <1>3, <2>1 DEF CountCall, AskPcs, SumPcs
<1> QED BY <1>1, <1>5, EndsKeepN

LEMMA CrashN == ASSUME Inv, NInv, NEW p \in Procs, Crash(p) PROVE NInv'
<1>1. Active(p) /\ SameN /\ object' = object /\ data' = data
  BY DEF Crash, Active, SameN, fsys
<1>2. StoredN
  BY <1>1 DEF StoredN, Below
<1>3. Counts => GoesN(p)
  BY <1>1, OverN DEF Crash
<1> QED BY <1>1, <1>2, <1>3, EndsKeepN DEF EndsN

----------------------------------------------------------------------------
(* A call begins; a program starts.                                        *)

LEMMA BeginN ==
  ASSUME CountingOnly, Inv, NInv, NEW p \in Procs, NEW b \in program.ops[p], Begin(p, b)
  PROVE  NInv'
<1>1. /\ program' = program /\ setting' = setting /\ object' = object /\ data' = data
      /\ added' = IF b.kind = "incrBy" THEN added + b.arg ELSE added
      /\ proc[p].pc = "idle"
  BY DEF Begin, fsys
<1>2. Counts' <=> Counts
  BY <1>1 DEF Counts, AtomicXattr
<1> SUFFICES ASSUME Counts
             PROVE  /\ program'.start \in Nat /\ added' \in Nat
                    /\ \A q \in Procs : Active(q)' => CountCall(proc[q])'
                    /\ \E n \in Nat : \E total : Ledger(total, n)' /\ Below(n)'
  BY <1>2 DEF NInv
<1>3. /\ b.stores = {"xattr"}
      /\ \/ b.kind \in {"exists", "get", "getInt", "getCount", "delete"}
         \/ b.kind = "incrBy" /\ b.arg \in Nat
  <2>1. program \in Programs /\ program.counts
    BY DEF Inv, StateOK, Counts
  <2> QED BY <2>1 DEF CountingOnly
<1>4. PICK d : d = Begun(p, b)
  OBVIOUS
<1>5. /\ proc'[p] = d /\ d.kind = b.kind /\ d.stores = b.stores /\ d.arg = b.arg
      /\ d.pc = CASE b.kind = "exists" -> "check"
                  [] b.kind = "delete" -> "locate"
                  [] OTHER             -> "size"
  <2>1. FirstRead(b.stores) = "size"
    BY <1>3 DEF FirstRead
  <2>2. d.pc = CASE b.kind \in {"get", "getInt", "getCount", "incrBy"} -> FirstRead(b.stores)
                 [] b.kind = "exists"            -> "check"
                 [] b.kind \in {"put", "putInt"} -> "find"
                 [] b.kind = "delete"            -> "locate"
                 [] b.kind = "incrDir"           -> "openRW"
                 [] b.kind = "incrInFile"        -> "nullDir"
    BY <1>4 DEF Begun
  <2>3. proc'[p] = d
    BY <1>4 DEF Begin
  <2> QED BY <1>3, <1>4, <2>1, <2>2, <2>3 DEF Begun
<1>6. /\ CountCall(d) /\ d.pc \notin SumPcs
      /\ Pending(d) = IF b.kind = "incrBy" THEN b.arg ELSE 0
  BY <1>3, <1>5 DEF CountCall, AskPcs, SumPcs, Pending
<1>7. ASSUME NEW q \in Procs \ {p}
      PROVE  /\ Active(q)' <=> Active(q)
             /\ CountCall(proc[q]) => CountCall(proc[q])'
             /\ Pending(proc[q])' = Pending(proc[q])
             /\ Active(q) => proc'[q].pc = proc[q].pc /\ proc'[q].text = proc[q].text
  <2>1. PICK e, f : e = proc[q] /\ f = proc'[q]
    OBVIOUS
  <2>2. f = e \/ (Active(q) /\ f = [e EXCEPT !.alone = FALSE])
    BY <2>1 DEF Begin, Others, Active
  <2>3. f.pc = e.pc /\ f.kind = e.kind /\ f.stores = e.stores /\ f.arg = e.arg /\ f.text = e.text
    <3>1. CASE f = e
      BY <3>1
    <3>2. CASE Active(q) /\ f = [e EXCEPT !.alone = FALSE]
      <4>1. IsCallOf(q, e)
        BY <2>1, <3>2, CountingCall
      <4> QED BY <3>2, <4>1 DEF IsCallOf
    <3> QED BY <2>2, <3>1, <3>2
  <2> QED BY <2>1, <2>3 DEF Active, CountCall, Pending
<1>8. /\ \A q \in Procs : Pending(proc[q]) \in Nat /\ Pending(proc[q])' \in Nat
      /\ Pending(proc[p]) = 0 /\ Pending(proc[p])' = Pending(d)
  <2>1. \A q \in Procs : Pending(proc[q]) \in Nat
    BY ActivePending
  <2>2. Pending(proc[p]) = 0
    BY <1>1 DEF Pending, AskPcs
  <2>3. Pending(proc[p])' = Pending(d)
    BY <1>5 DEF Pending
  <2>4. Pending(d) \in Nat
    BY <1>6, PendingType
  <2> QED BY <1>7, <2>1, <2>2, <2>3, <2>4
<1>9. program'.start \in Nat /\ added' \in Nat /\ added' = added + Pending(d)
  BY <1>1, <1>3, <1>6 DEF NInv
<1>n. PICK n \in Nat : \E total : Ledger(total, n) /\ Below(n)
  BY DEF NInv
<1>10. PICK total : Ledger(total, n) /\ Below(n)
  BY <1>n
<1>11. PICK new \in [SUBSET Procs -> Nat] :
           /\ Adds(new)'
           /\ new[Procs] + 0 = total[Procs] + Pending(d)
  BY <1>7, <1>8, <1>10, LedgerMoves DEF Ledger
<1>12. Ledger(new, n)'
  <2>1. total[Procs] \in Nat /\ new[Procs] \in Nat /\ Pending(d) \in Nat
    BY <1>8, <1>10 DEF Ledger
  <2>2. n + total[Procs] = program.start + added /\ added \in Nat /\ program.start \in Nat
    BY <1>10 DEF Ledger, NInv
  <2>3. n + new[Procs] = program'.start + added'
    BY <1>1, <1>9, <1>11, <2>1, <2>2
  <2> QED BY <1>11, <2>3 DEF Ledger
<1>13. Below(n)'
  <2>1. \A o \in Objects(program) : object[o] # 0 => AtMost(data[object[o]], n)
    BY <1>10 DEF Below
  <2>2. ASSUME NEW q \in Procs, Active(q)', proc'[q].pc \in SumPcs
        PROVE  AtMost(proc'[q].text, n)
    <3>1. q # p
      BY <1>5, <1>6, <2>2
    <3> QED BY <1>7, <1>10, <2>2, <3>1 DEF Below
  <2> QED BY <1>1, <2>1, <2>2 DEF Below, AtMost
<1>14. ASSUME NEW q \in Procs, Active(q)' PROVE CountCall(proc[q])'
  <2>1. CASE q = p
    BY <1>5, <1>6, <2>1 DEF CountCall
  <2>2. CASE q # p
    BY <1>7, <1>14, <2>2 DEF NInv
  <2> QED BY <2>1, <2>2
<1> QED BY <1>9, <1>12, <1>13, <1>14

LEMMA InitN == ASSUME CountingOnly, Init PROVE NInv
<1> SUFFICES ASSUME Counts
             PROVE  /\ program.start \in Nat /\ added \in Nat
                    /\ \A p \in Procs : Active(p) => CountCall(proc[p])
                    /\ \E n \in Nat : \E total : Ledger(total, n) /\ Below(n)
  BY DEF NInv
<1>1. added = 0 /\ \A p \in Procs : proc[p] = Idle
  BY DEF Init
<1>2. /\ program \in Programs /\ program.counts /\ program.start \in Nat
      /\ \A o \in DOMAIN program.seed : AtMost(program.seed[o], program.start)
  BY DEF Init, Counts, CountingOnly, AtMost
<1>3. \A p \in Procs : ~Active(p) /\ Pending(proc[p]) = 0
  BY <1>1 DEF Active, Idle, Pending, AskPcs
<1>4. PICK total : total = [S \in SUBSET Procs |-> 0]
  OBVIOUS
<1>5. Ledger(total, program.start)
  <2>1. total \in [SUBSET Procs -> Nat] /\ total[Procs] = 0
    BY <1>4
  <2>2. Adds(total)
    <3> SUFFICES ASSUME NEW S \in SUBSET Procs, NEW p \in Procs \ S
                 PROVE  total[S \cup {p}] = total[S] + Pending(proc[p])
      BY DEF Adds
    <3>1. S \cup {p} \in SUBSET Procs
      OBVIOUS
    <3> QED BY <1>3, <1>4, <3>1
  <2> QED BY <1>1, <1>2, <2>1, <2>2 DEF Ledger
<1>6. Below(program.start)
  BY <1>2, <1>3, InitAttrs DEF Below
<1> QED BY <1>1, <1>2, <1>3, <1>5, <1>6

LEMMA NextN == ASSUME CountingOnly, Inv, NInv, [Next]_vars PROVE NInv'
<1>1. CASE UNCHANGED vars
  <2>1. /\ program' = program /\ setting' = setting /\ object' = object /\ data' = data
        /\ proc' = proc /\ added' = added
    BY <1>1 DEF vars, fsys
  <2>2. Counts' <=> Counts
    BY <2>1 DEF Counts, AtomicXattr
  <2>3. \A q \in Procs : (Active(q)' <=> Active(q)) /\ (CountCall(proc[q])' <=> CountCall(proc[q]))
    BY <2>1 DEF Active, CountCall
  <2>4. ASSUME NEW n, NEW total, Ledger(total, n), Below(n) PROVE Ledger(total, n)' /\ Below(n)'
    BY <2>1, <2>4 DEF Ledger, Adds, Pending, Below, Active, AtMost
  <2> QED BY <2>1, <2>2, <2>3, <2>4 DEF NInv
<1>2. ASSUME NEW p \in Procs, NEW c \in program.ops[p], Begin(p, c) PROVE NInv'
  BY <1>2, BeginN
<1>3. ASSUME NEW p \in Procs, Get(p) PROVE NInv'
  BY <1>3, OthersN, XattrSizeN, XattrValueN, WalkN DEF Get
<1>4. ASSUME NEW p \in Procs, Put(p) PROVE NInv'
  BY <1>4, OthersN, FindPlaceN, MakeDirN, SetXattrN DEF Put
<1>5. ASSUME NEW p \in Procs, Check(p) \/ Locate(p) \/ DeleteAttr(p) \/ IncrDir(p) \/ Crash(p)
      PROVE  NInv'
  BY <1>5, OthersN, CheckN, LocateN, DeleteAttrN, CrashN
<1> QED BY <1>1, <1>2, <1>3, <1>4, <1>5 DEF Next

----------------------------------------------------------------------------
(* Where an attribute is set in one call, a counter that any number of     *)
(* processes increment, read and delete is never ahead of the increments   *)
(* begun, whichever are lost, and wherever a process dies: what a process  *)
(* reads is at most the start and what the others have added, and what it  *)
(* has still to add is no part of that.                                    *)
THEOREM CountersNeverAhead ==
  ASSUME CountingOnly
  PROVE  Spec => []CounterNeverAhead
<1>1. Inv /\ NInv => CounterNeverAhead
  <2> SUFFICES ASSUME Inv, NInv, Counts, NEW o \in Objects(program), object[o] # 0
               PROVE  Strtoll(data[object[o]]).value <= program.start + added
    BY DEF CounterNeverAhead, Counts, Inv, StateOK
  <2>n. PICK n \in Nat : \E total : Ledger(total, n) /\ Below(n)
    BY DEF NInv
  <2>1. PICK total : Ledger(total, n) /\ Below(n)
    BY <2>n
  <2>2. program.start \in Nat /\ added \in Nat
    BY DEF NInv
  <2>3. n <= program.start + added
    <3>1. total[Procs] \in Nat /\ n + total[Procs] = program.start + added
      BY <2>1 DEF Ledger
    <3> QED BY <2>2, <3>1
  <2>4. PICK b : b = data[object[o]]
    OBVIOUS
  <2>5. AtMost(b, n)
    BY <2>1, <2>4 DEF Below
  <2>6. IsText(b) /\ Len(b) \in 0..Len(b)
    BY <2>5, DecimalIsText, LenProperties DEF AtMost, IsText
  <2>7. SubSeq(b, 1, Len(b)) = b
    BY <2>6 DEF IsText
  <2>8. Strtoll(b).value \in 0..n
    BY <2>5, <2>6, <2>7, StartAtMost
  <2> QED BY <2>2, <2>3, <2>4, <2>8
<1>2. Init => Inv /\ NInv
  BY InitInv, InitN
<1>3. Inv /\ NInv /\ [Next]_vars => (Inv /\ NInv)'
  BY NextKeeps, NextN
<1> QED BY <1>1, <1>2, <1>3, PTL DEF Spec
=============================================================================
