------------------------- MODULE AttrAnswers_proofs -------------------------
(***************************************************************************)
(* Proofs about the answers of calls that no write overlaps, for programs  *)
(* whose calls each work on one store: they answer by what the last write  *)
(* has left, for any number of processes, attributes and calls.            *)
(***************************************************************************)
EXTENDS AttrProcs_proofs

\* Every call works on files or on extended attributes, not on both.
OneStore == \A g \in Programs : \A p \in Procs : \A c \in g.ops[p] :
              Cardinality(c.stores) = 1

\* What stands for no text is none.
NoTexts  == ~IsText(NULL) /\ ~IsText(Unknown) /\ NULL # Unknown

----------------------------------------------------------------------------
(* The inductive invariant, part by part.                                  *)

SetPcs   == {"write", "writeXattr"}
RWPcs    == {"seekRW", "readRW", "writeRW"}
PutPcs   == {"find", "mkdir", "setxattr", "truncXattr", "trunc"} \cup SetPcs
XattrPcs == {"size", "value", "openXattr", "setxattr", "truncXattr", "writeXattr"}
FilePcs  == {"open", "seek", "trunc", "write", "openRW"} \cup RWPcs
Active(p) == proc[p].pc \notin {"idle", "dead"}

\* A call of one store is only at the system calls of that store.
Shape(c) ==
  /\ c.where \in {"plain", "home"}
  /\ c.pc \notin {"none", "noWrite"}
  /\ c.pc \in XattrPcs => c.stores = {"xattr"}
  /\ c.pc \in FilePcs => c.stores = {"file"}
  /\ c.pc \in PutPcs => c.kind \in {"put", "putInt", "incrBy"}
  /\ c.pc \in RWPcs \cup {"openRW"} => c.kind = "incrDir"
  /\ c.pc = "nullDir" => c.kind = "incrInFile"

\* What an attribute holds: a text, or NULL for no attribute.
Holds(o, a) == /\ object[o] = 0 <=> a = NULL
               /\ object[o] # 0 => data[object[o]] = a
Start(a)    == IF a = NULL THEN <<>> ELSE a

\* A file that is open belongs to the call's attribute.  A writer that is
\* alone has emptied it, or knows its length; a reader that is alone, of an
\* attribute that holds a known text, knows where and how long that is.
Facts(c) ==
  LET o == Slot(c)
      a == acked[Slot(c)]
  IN
  /\ c.fd # 0 => \A q \in Objects(program) : object[q] = c.fd => q = o
  /\ c.alone /\ c.pc \in SetPcs => object[o] = c.fd /\ data[c.fd] = <<>>
  /\ c.alone /\ c.pc \in RWPcs => object[o] = c.fd
  /\ c.alone /\ a # Unknown =>
       /\ c.pc \in RWPcs => data[c.fd] = Start(a)
       /\ c.pc \in {"readRW", "writeRW"} => c.len = Len(Start(a))
       /\ c.pc \in {"value", "openXattr", "read"} => c.len = Len(a)
       /\ c.pc \in {"seek", "read"} => object[o] = c.fd
       /\ c.pc = "walk" /\ setting.depth = 0 => a = NULL

CallQ(c) == Shape(c) /\ Facts(c)
AllQ     == \A p \in Procs : Active(p) => CallQ(proc[p])

\* Who is alone shares the attribute with no writer.
AloneOK ==
  \A p, q \in Procs :
    /\ p # q /\ Active(p) /\ Active(q) /\ Slot(proc[p]) = Slot(proc[q])
    /\ proc[p].alone
    => ~Writes(proc[q])

\* What the last write has left is there, unless a writer is at work.
Disturbs(c) == Writes(c) /\ (~c.alone \/ c.pc \in SetPcs \cup RWPcs)
Calm(o)     == \A q \in Procs : Active(q) /\ Slot(proc[q]) = o => ~Disturbs(proc[q])
SlotsOK     == \A o \in Objects(program) :
                 acked[o] # Unknown /\ Calm(o) => Holds(o, acked[o])
AckedOK     ==
  /\ acked = [o \in Objects(program) |-> acked[o]]
  /\ \A o \in Objects(program) : acked[o] \in {NULL, Unknown} \/ IsText(acked[o])

AnswerQ(c, r, b) == c.alone /\ b # Unknown => /\ c.kind = "get" => r = b
                                              /\ c.kind = "exists" => r = (b # NULL)
LastQ == last # NULL => AnswerQ(last.call, last.ret, last.before)

QInv == AllQ /\ AloneOK /\ SlotsOK /\ AckedOK /\ LastQ

----------------------------------------------------------------------------
(* How a step of process p may end, and what it leaves alone.              *)

\* The step touches no attribute but the call's own, and none if the call
\* does not write; the attribute keeps its inode, loses it, or gets one that
\* nobody has open.
SameFrame(p) ==
  LET c == proc[p]
      o == Slot(proc[p])
  IN
  /\ program' = program /\ setting' = setting
  /\ acked' = [q \in Objects(program) |-> acked'[q]]
  /\ \A q \in Objects(program) \ {o} :
       /\ object'[q] = object[q] /\ acked'[q] = acked[q]
       /\ object[q] # 0 => data'[object[q]] = data[object[q]]
  /\ ~Writes(c) => object' = object /\ data' = data /\ acked'[o] = acked[o]
  /\ \/ object'[o] \in {0, object[o]}
     \/ \A q \in Procs : proc[q].fd # object'[o]

HoldsNext(o, a) == /\ object'[o] = 0 <=> a = NULL
                   /\ object'[o] # 0 => data'[object'[o]] = a

SameCallQ(c, d) == /\ d.pc \notin {"idle", "dead"} /\ d.kind = c.kind
                   /\ Slot(d) = Slot(c) /\ d.alone = c.alone

GoesQ(p) ==
  \E d : /\ proc' = [proc EXCEPT ![p] = d] /\ SameCallQ(proc[p], d) /\ CallQ(d)'
         /\ last' = last /\ acked' = acked
         /\ Writes(d) /\ ~Disturbs(d) /\ acked[Slot(d)] # Unknown
              => HoldsNext(Slot(d), acked[Slot(d)])
ReturnsQ(p) ==
  \E r, s : /\ Finish(p, r, s) /\ AnswerQ(proc[p], r, acked[Slot(proc[p])])
            /\ Writes(proc[p]) /\ proc[p].alone =>
                 /\ s \in {NULL, Unknown} \/ IsText(s)
                 /\ s # Unknown => HoldsNext(Slot(proc[p]), s)
DiesQ(p) ==
  /\ proc' = [proc EXCEPT ![p] = Dead] /\ last' = last
  /\ acked' = [acked EXCEPT ![Slot(proc[p])] = IF Writes(proc[p]) THEN Unknown ELSE @]
EndsQ(p) == GoesQ(p) \/ ReturnsQ(p) \/ DiesQ(p)

LEMMA ActiveCall ==
  ASSUME ProcsOK, NEW p \in Procs, Active(p)
  PROVE  /\ CallOK(p, proc[p])
         /\ Slot(proc[p]) \in Objects(program)
BY InCallOK, TheObject DEF Active, CallOK

LEMMA OthersKeep ==
  ASSUME Inv, AllQ, AloneOK, NEW p \in Procs, Active(p), SameFrame(p),
         NEW q \in Procs, q # p, Active(q), proc'[q] = proc[q]
  PROVE  CallQ(proc[q])'
<1>1. PICK c, o : c = proc[q] /\ o = Slot(c)
  OBVIOUS
<1>2. PICK x : x = Slot(proc[p])
  OBVIOUS
<1>3. o \in Objects(program) /\ x \in Objects(program) /\ CallOK(q, c)
  BY <1>1, <1>2, ActiveCall DEF Inv
<1>4. CallQ(c)
  BY <1>1 DEF AllQ
<1>5. Shape(c)'
  BY <1>4 DEF CallQ, Shape
<1>6. c.pc \in SetPcs \cup RWPcs \cup {"seek", "read"} => c.fd # 0
  BY <1>3 DEF CallOK, Fits, FdPcs, SetPcs, RWPcs
<1>7. c.fd # 0 => \A y \in Objects(program) : object'[y] = c.fd => y = o
  <2> SUFFICES ASSUME c.fd # 0, NEW y \in Objects(program), object'[y] = c.fd
               PROVE  y = o
    OBVIOUS
  <2>1. CASE y # x
    BY <1>2, <1>4, <1>1, <2>1 DEF SameFrame, CallQ, Facts
  <2>2. CASE y = x
    BY <1>1, <1>2, <1>4, <2>2 DEF SameFrame, CallQ, Facts
  <2> QED BY <2>1, <2>2
<1>8. CASE o = x /\ Writes(proc[p])
  <2>1. ~c.alone
    BY <1>1, <1>2, <1>8 DEF AloneOK
  <2> QED BY <1>1, <1>5, <1>7, <2>1 DEF CallQ, Facts, SameFrame
<1>9. CASE ~(o = x /\ Writes(proc[p]))
  <2>1. /\ object'[o] = object[o] /\ acked'[o] = acked[o] /\ setting' = setting
        /\ program' = program
        /\ object[o] # 0 => data'[object[o]] = data[object[o]]
    BY <1>1, <1>2, <1>3, <1>9 DEF SameFrame
  <2>2. Facts(c)
    BY <1>4 DEF CallQ
  <2>3. Facts(c)'
    BY <1>1, <1>6, <1>7, <2>1, <2>2 DEF Facts
  <2> QED BY <1>1, <1>5, <2>3 DEF CallQ, Shape, Facts
<1> QED BY <1>8, <1>9

LEMMA NextState ==
  ASSUME ProcsOK, NEW p \in Procs, NEW d, proc' = [proc EXCEPT ![p] = d]
  PROVE  proc'[p] = d /\ \A q \in Procs : q # p => proc'[q] = proc[q]
BY DEF ProcsOK

(* After a step on one attribute all is well, if it is with that attribute. *)
LEMMA FrameKeeps ==
  ASSUME Inv, QInv, NEW p \in Procs, Active(p), SameFrame(p),
         NEW d, proc' = [proc EXCEPT ![p] = d],
         d \in {Idle, Dead} \/ (SameCallQ(proc[p], d) /\ CallQ(d)'),
         NEW o, o = Slot(proc[p]),
         acked'[o] \in {NULL, Unknown} \/ IsText(acked'[o]),
         \/ ~Writes(proc[p])
         \/ acked'[o] = Unknown
         \/ d \notin {Idle, Dead} /\ Disturbs(d)
         \/ HoldsNext(o, acked'[o])
  PROVE  (AllQ /\ AloneOK /\ SlotsOK /\ AckedOK)'
<1>1. proc'[p] = d /\ \A q \in Procs : q # p => proc'[q] = proc[q]
  BY NextState DEF Inv
<1>2. o \in Objects(program)
  BY ActiveCall DEF Inv
<1>3. d.pc \notin {"idle", "dead"} => SameCallQ(proc[p], d) /\ CallQ(d)'
  BY DEF Idle, Dead
<1>4. AllQ'
  <2> SUFFICES ASSUME NEW q \in Procs, Active(q)' PROVE CallQ(proc[q])'
    BY DEF AllQ
  <2>1. CASE q = p
    BY <1>1, <1>3, <2>1 DEF Active, CallQ, Shape, Facts
  <2>2. CASE q # p
    BY <1>1, <2>2, OthersKeep DEF Active, QInv
  <2> QED BY <2>1, <2>2
<1>5. AloneOK'
  <2> SUFFICES ASSUME NEW x \in Procs, NEW y \in Procs, x # y, Active(x)', Active(y)',
                      Slot(proc'[x]) = Slot(proc'[y]), proc'[x].alone
               PROVE  ~Writes(proc'[y])
    BY DEF AloneOK
  <2>1. ASSUME NEW q \in Procs, Active(q)'
        PROVE  /\ Active(q) /\ Slot(proc'[q]) = Slot(proc[q])
               /\ proc'[q].alone = proc[q].alone /\ proc'[q].kind = proc[q].kind
    BY <1>1, <1>3, <2>1 DEF Active, SameCallQ
  <2>2. proc[x].alone /\ Slot(proc[x]) = Slot(proc[y])
    BY <2>1
  <2>3. ~Writes(proc[y])
    BY <2>1, <2>2 DEF QInv, AloneOK
  <2> QED BY <2>1, <2>3 DEF Writes
<1>6. SlotsOK'
  <2> SUFFICES ASSUME NEW x \in Objects(program), acked'[x] # Unknown, Calm(x)'
               PROVE  HoldsNext(x, acked'[x])
    BY DEF SlotsOK, SameFrame, HoldsNext, Holds
  <2>1. ASSUME NEW q \in Procs, q # p, Active(q), Slot(proc[q]) = x PROVE ~Disturbs(proc[q])
    BY <1>1, <2>1 DEF Calm, Active
  <2>2. CASE x # o
    <3>1. Calm(x)
      BY <2>1, <2>2 DEF Calm
    <3>2. acked[x] # Unknown /\ Holds(x, acked[x])
      BY <2>2, <3>1 DEF SameFrame, QInv, SlotsOK
    <3> QED BY <2>2, <3>2 DEF SameFrame, Holds, HoldsNext
  <2>3. CASE x = o /\ ~Writes(proc[p])
    <3>1. Calm(x)
      BY <2>1, <2>3 DEF Calm, Disturbs
    <3>2. object' = object /\ data' = data /\ acked'[x] = acked[x]
      BY <2>3 DEF SameFrame
    <3> QED BY <3>1, <3>2 DEF Holds, HoldsNext, QInv, SlotsOK
  <2>4. CASE x = o /\ d \notin {Idle, Dead} /\ Disturbs(d)
    <3>1. Active(p)' /\ Slot(d) = o
      BY <1>1, <2>4 DEF SameCallQ, Active
    <3> QED BY <1>1, <2>4, <3>1 DEF Calm
  <2> QED BY <2>2, <2>3, <2>4
<1>7. AckedOK'
  BY <1>2 DEF SameFrame, QInv, AckedOK
<1> QED BY <1>4, <1>5, <1>6, <1>7

(* However a step ends, all stays well.                                    *)
LEMMA EndsKeepQ ==
  ASSUME Inv, QInv, NEW p \in Procs, Active(p), SameFrame(p), EndsQ(p)
  PROVE  QInv'
<1>1. PICK c, o : c = proc[p] /\ o = Slot(c)
  OBVIOUS
<1>2. /\ o \in Objects(program) /\ acked = [q \in Objects(program) |-> acked[q]]
      /\ acked[o] \in {NULL, Unknown} \/ IsText(acked[o])
  BY <1>1, ActiveCall DEF Inv, QInv, AckedOK
<1>3. CASE GoesQ(p)
  <2>1. PICK d : /\ proc' = [proc EXCEPT ![p] = d] /\ SameCallQ(c, d) /\ CallQ(d)'
                 /\ last' = last /\ acked' = acked
                 /\ Writes(d) /\ ~Disturbs(d) /\ acked[Slot(d)] # Unknown
                      => HoldsNext(Slot(d), acked[Slot(d)])
    BY <1>1, <1>3 DEF GoesQ
  <2>2. Slot(d) = o /\ Writes(d) = Writes(c) /\ d \notin {Idle, Dead}
    BY <1>1, <2>1 DEF SameCallQ, Writes, Idle, Dead
  <2>3. (AllQ /\ AloneOK /\ SlotsOK /\ AckedOK)'
    BY <1>1, <1>2, <2>1, <2>2, FrameKeeps
  <2> QED BY <2>1, <2>3 DEF QInv, LastQ
<1>4. CASE ReturnsQ(p)
  <2>1. PICK r, s : /\ Finish(p, r, s) /\ AnswerQ(c, r, acked[o])
                    /\ Writes(c) /\ c.alone => /\ s \in {NULL, Unknown} \/ IsText(s)
                                               /\ s # Unknown => HoldsNext(o, s)
    BY <1>1, <1>4 DEF ReturnsQ
  <2>2. /\ proc' = [proc EXCEPT ![p] = Idle]
        /\ last' = [by |-> p, call |-> c, ret |-> r, before |-> acked[o]]
        /\ acked' = [acked EXCEPT ![o] =
                       IF ~Writes(c) THEN @ ELSE IF c.alone THEN s ELSE Unknown]
    BY <1>1, <2>1 DEF Finish
  <2>3. acked'[o] = IF ~Writes(c) THEN acked[o] ELSE IF c.alone THEN s ELSE Unknown
    BY <1>2, <2>2
  <2>4. /\ acked'[o] \in {NULL, Unknown} \/ IsText(acked'[o])
        /\ ~Writes(c) \/ acked'[o] = Unknown \/ HoldsNext(o, acked'[o])
    BY <1>2, <2>1, <2>3
  <2>5. PICK d : d \in {Idle, Dead} /\ proc' = [proc EXCEPT ![p] = d]
    BY <2>2
  <2>6. ~Writes(proc[p]) \/ acked'[o] = Unknown \/ HoldsNext(o, acked'[o])
    BY <1>1, <2>4
  <2>7. (AllQ /\ AloneOK /\ SlotsOK /\ AckedOK)'
    BY <1>1, <2>4, <2>5, <2>6, FrameKeeps, Zenon
  <2>8. LastQ'
    BY <2>1, <2>2 DEF LastQ
  <2> QED BY <2>7, <2>8 DEF QInv
<1>5. CASE DiesQ(p)
  <2>1. acked'[o] = IF Writes(c) THEN Unknown ELSE acked[o]
    BY <1>1, <1>2, <1>5 DEF DiesQ
  <2>2. PICK d : d \in {Idle, Dead} /\ proc' = [proc EXCEPT ![p] = d]
    BY <1>5 DEF DiesQ
  <2>3. /\ acked'[o] \in {NULL, Unknown} \/ IsText(acked'[o])
        /\ ~Writes(proc[p]) \/ acked'[o] = Unknown
    BY <1>1, <1>2, <2>1
  <2>4. (AllQ /\ AloneOK /\ SlotsOK /\ AckedOK)'
    BY <1>1, <2>2, <2>3, FrameKeeps, Zenon
  <2> QED BY <1>5, <2>4 DEF DiesQ, QInv, LastQ
<1> QED BY <1>3, <1>4, <1>5 DEF EndsQ

----------------------------------------------------------------------------
(* Calls of one store, and what an attribute holds under one that is alone. *)

LEMMA OneStoreSets ==
  ASSUME NEW S, S \subseteq {"file", "xattr"}, Cardinality(S) = 1
  PROVE  S \in {{"file"}, {"xattr"}}
<1>1. IsFiniteSet({"file"}) /\ IsFiniteSet({"file"} \cup {"xattr"})
  BY FS_Singleton, FS_AddElement, Zenon
<1>2. S \subseteq {"file"} \cup {"xattr"}
  OBVIOUS
<1>3. IsFiniteSet(S)
  BY <1>1, <1>2, FS_Subset, Zenon
<1>4. PICK x : S = {x}
  BY <1>3, FS_Singleton
<1> QED BY <1>4

LEMMA OneStoreCall ==
  ASSUME OneStore, StateOK, NEW p \in Procs, NEW c, IsCallOf(p, c)
  PROVE  /\ c.stores \in {{"file"}, {"xattr"}}
         /\ c.kind \in {"incrInFile", "incrDir"} => c.stores = {"file"}
         /\ \A s \in c.stores : Stored(s, c.attr) = Slot(c)
<1>1. PICK b \in program.ops[p] : c.stores = b.stores /\ c.kind = b.kind
  BY DEF IsCallOf
<1>2. /\ Cardinality(b.stores) = 1 /\ b.stores \subseteq {"file", "xattr"}
      /\ b.kind \in {"incrInFile", "incrDir"} => b.stores = {"file"}
  BY <1>1, ProgramsAssumption DEF OneStore, StateOK, IsProgram, IsCall
<1>3. b.stores \in {{"file"}, {"xattr"}}
  BY <1>2, OneStoreSets
<1> QED BY <1>1, <1>2, <1>3 DEF Slot

LEMMA SettingOK ==
  ASSUME StateOK
  PROVE  setting.depth \in Nat /\ (~setting.paged => setting.depth = 0)
BY ProgramsAssumption DEF StateOK, IsProgram

LEMMA AloneHolds ==
  ASSUME Inv, QInv, NEW p \in Procs, Active(p), NEW o, o = Slot(proc[p]),
         proc[p].alone, proc[p].pc \notin SetPcs \cup RWPcs, acked[o] # Unknown
  PROVE  Holds(o, acked[o])
<1>1. o \in Objects(program)
  BY ActiveCall DEF Inv
<1>2. ASSUME NEW q \in Procs, Active(q), Slot(proc[q]) = o PROVE ~Disturbs(proc[q])
  <2>1. CASE q = p
    BY <2>1 DEF Disturbs
  <2>2. CASE q # p
    BY <1>2, <2>2 DEF QInv, AloneOK, Disturbs
  <2> QED BY <2>1, <2>2
<1> QED BY <1>1, <1>2 DEF QInv, SlotsOK, Calm

----------------------------------------------------------------------------
(* The steps that change no store.                                         *)

\* The attributes stay as they are.
Still == /\ program' = program /\ setting' = setting
         /\ object' = object /\ data' = data

LEMMA LocalStill == Local => Still
BY DEF Local, Inside, fsys, Still

LEMMA StillFrame == ASSUME NEW p, Still, QInv, EndsQ(p) PROVE SameFrame(p)
<1>1. acked = [q \in Objects(program) |-> acked[q]]
  BY DEF QInv, AckedOK
<1>2. CASE GoesQ(p)
  BY <1>1, <1>2 DEF GoesQ, SameFrame, Still
<1>3. CASE ReturnsQ(p)
  <2>1. PICK s : acked' = [acked EXCEPT ![Slot(proc[p])] =
                             IF ~Writes(proc[p]) THEN @ ELSE s]
    BY <1>3 DEF ReturnsQ, Finish
  <2> QED BY <1>1, <2>1 DEF SameFrame, Still
<1>4. CASE DiesQ(p)
  BY <1>1, <1>4 DEF DiesQ, SameFrame, Still
<1> QED BY <1>2, <1>3, <1>4 DEF EndsQ

LEMMA StillKeepsQ ==
  ASSUME Inv, QInv, NEW p \in Procs, Active(p), Still, EndsQ(p)
  PROVE  QInv'
BY StillFrame, EndsKeepQ

LEMMA LocalKeepsQ ==
  ASSUME Inv, QInv, NEW p \in Procs, Active(p), Local, EndsQ(p)
  PROVE  QInv'
BY LocalStill, StillKeepsQ

\* The system calls before which a call knows nothing.
Unknowing(pc) == pc \notin SetPcs \cup RWPcs
                           \cup {"value", "openXattr", "read", "seek", "walk"}

(* A call that goes on without touching a store.                           *)
LEMMA StillGoes ==
  ASSUME Inv, QInv, Still, NEW p \in Procs, Active(p),
         NEW c, c = proc[p], NEW d, SameCallQ(c, d),
         c.pc \notin SetPcs \cup RWPcs \/ Disturbs(d), d.fd \in {c.fd, object[Slot(c)]},
         Shape(d), Unknowing(d.pc) \/ Facts(d),
         proc' = [proc EXCEPT ![p] = d], last' = last, acked' = acked
  PROVE  EndsQ(p)
<1>1. Slot(d) = Slot(c) /\ Slot(c) \in Objects(program)
  BY ActiveCall DEF SameCallQ, Inv
<1>2. d.fd # 0 => \A q \in Objects(program) : object[q] = d.fd => q = Slot(d)
  BY <1>1 DEF QInv, AllQ, CallQ, Facts, Inv, StateOK
<1>3. Facts(d)
  BY <1>2 DEF Unknowing, Facts, RWPcs
<1>4. CallQ(d)'
  BY <1>3 DEF CallQ, Shape, Facts, Still
<1>5. Writes(d) /\ ~Disturbs(d) /\ acked[Slot(d)] # Unknown
        => HoldsNext(Slot(d), acked[Slot(d)])
  BY AloneHolds DEF Disturbs, SameCallQ, Holds, HoldsNext, Still
<1> QED BY <1>4, <1>5 DEF EndsQ, GoesQ

LEMMA LocalGoes ==
  ASSUME Inv, QInv, Local, NEW p \in Procs, Active(p),
         NEW c, c = proc[p], NEW d, SameCallQ(c, d),
         c.pc \notin SetPcs \cup RWPcs \/ Disturbs(d),
         d.fd \in {c.fd, object[Slot(c)]},
         Shape(d), Unknowing(d.pc) \/ Facts(d),
         proc' = [proc EXCEPT ![p] = d], last' = last, acked' = acked
  PROVE  EndsQ(p)
BY LocalStill, StillGoes

(* An answer is given from what the attribute holds.                       *)
LEMMA AnswerEndsQ ==
  ASSUME Inv, QInv, Local, NEW p \in Procs, Active(p),
         NEW c, c = proc[p], c.kind \in Getting, c.pc \notin SetPcs \cup RWPcs,
         NEW t, Answer(p, t),
         c.alone /\ acked[Slot(c)] # Unknown => t = acked[Slot(c)]
  PROVE  EndsQ(p)
<1>1. CASE c.kind = "get"
  <2>1. Finish(p, t, Unknown) /\ ~Writes(proc[p])
    BY <1>1 DEF Answer, Writes
  <2> QED BY <1>1, <2>1 DEF EndsQ, ReturnsQ, AnswerQ
<1>2. CASE c.kind \in {"getInt", "getCount"}
  <2>1. ~Writes(proc[p]) /\ \E r : Finish(p, r, Unknown)
    BY <1>2 DEF Answer, Writes
  <2> QED BY <1>2, <2>1 DEF EndsQ, ReturnsQ, AnswerQ
<1>3. CASE c.kind = "incrBy"
  <2>1. PICK n : Stay(p, [At(p, "find") EXCEPT !.result = n, !.text = Decimal(n)])
    BY <1>3 DEF Answer
  <2>2. PICK e : e = [c EXCEPT !.pc = "find"]
    OBVIOUS
  <2>3. PICK d : d = [e EXCEPT !.result = n, !.text = Decimal(n)]
    OBVIOUS
  <2>4. IsCallOf(p, c) /\ Shape(c)
    BY ActiveCall DEF CallOK, Inv, QInv, AllQ, CallQ
  <2>5. /\ IsCallOf(p, e) /\ e.pc = "find" /\ e.kind = c.kind /\ e.fd = c.fd
        /\ e.where = c.where /\ e.alone = c.alone /\ Slot(e) = Slot(c)
    BY <2>2, <2>4, AtFields
  <2>6. /\ d.pc = "find" /\ d.kind = c.kind /\ d.fd = c.fd /\ d.where = c.where
        /\ d.alone = c.alone /\ Slot(d) = Slot(c)
    BY <2>3, <2>5 DEF IsCallOf, Slot
  <2>7. SameCallQ(c, d) /\ Shape(d) /\ Unknowing(d.pc)
    BY <1>3, <2>4, <2>6 DEF SameCallQ, Shape, Unknowing, SetPcs, RWPcs, PutPcs,
       XattrPcs, FilePcs
  <2>8. proc' = [proc EXCEPT ![p] = d] /\ last' = last /\ acked' = acked
    BY <2>1, <2>2, <2>3 DEF Stay, Goto, At
  <2> QED BY <2>6, <2>7, <2>8, LocalGoes
<1> QED BY <1>1, <1>2, <1>3 DEF Getting

LEMMA NotThereEndsQ ==
  ASSUME Inv, QInv, Local, NEW p \in Procs, Active(p),
         NEW c, c = proc[p], c.kind \in Getting \cup {"exists", "delete"},
         c.pc \notin SetPcs \cup RWPcs, NotThere(p),
         c.alone /\ acked[Slot(c)] # Unknown => acked[Slot(c)] = NULL
  PROVE  EndsQ(p)
<1>1. CASE c.kind \in {"exists", "delete"}
  <2>1. PICK s : s = acked[Slot(c)] /\ Finish(p, FALSE, s)
    BY <1>1 DEF NotThere
  <2>2. s \in {NULL, Unknown} \/ IsText(s)
    BY <2>1, ActiveCall DEF Inv, QInv, AckedOK
  <2>3. c.alone /\ s # Unknown => HoldsNext(Slot(c), s)
    BY <2>1, AloneHolds DEF Holds, HoldsNext, Local, fsys
  <2> QED BY <1>1, <2>1, <2>2, <2>3 DEF EndsQ, ReturnsQ, AnswerQ
<1>2. CASE c.kind \notin {"exists", "delete"}
  <2>1. c.kind \in Getting /\ Answer(p, NULL)
    BY <1>2 DEF NotThere
  <2> QED BY <2>1, AnswerEndsQ
<1> QED BY <1>1, <1>2

(* A call that misses the attribute in a place that would have it.         *)
LEMMA Absent ==
  ASSUME Inv, QInv, NEW p \in Procs, Active(p), NEW c, c = proc[p],
         c.pc \notin SetPcs \cup RWPcs, c.alone, acked[Slot(c)] # Unknown,
         ~dir \/ object[Slot(c)] = 0
  PROVE  acked[Slot(c)] = NULL
<1>1. Slot(c) \in Objects(program)
  BY ActiveCall DEF Inv
<1>2. object[Slot(c)] = 0
  BY <1>1 DEF Inv, StateOK
<1> QED BY <1>2, AloneHolds DEF Holds

LEMMA MissedEndsQ ==
  ASSUME OneStore, Inv, QInv, Local, NEW p \in Procs, Active(p),
         NEW c, c = proc[p], c.kind \in Getting \cup {"exists", "delete"},
         c.pc \notin SetPcs \cup RWPcs, Missed(p),
         c.alone /\ acked[Slot(c)] # Unknown => ~(Here(p) /\ object[Slot(c)] # 0)
  PROVE  EndsQ(p)
<1>1. IsCallOf(p, c) /\ Shape(c)
  BY ActiveCall DEF CallOK, Inv, QInv, AllQ, CallQ
<1>2. c.where = "home" \/ setting.depth = 0 =>
        (c.alone /\ acked[Slot(c)] # Unknown => acked[Slot(c)] = NULL)
  BY Absent DEF Here
<1>3. CASE c.where = "plain" /\ setting.paged
  <2>1. PICK d : d = [c EXCEPT !.pc = "walk"]
    OBVIOUS
  <2>2. /\ d.pc = "walk" /\ d.kind = c.kind /\ d.fd = c.fd
        /\ d.where = c.where /\ d.alone = c.alone /\ Slot(d) = Slot(c)
    BY <1>1, <2>1, AtFields
  <2>3. SameCallQ(c, d) /\ Shape(d)
    BY <1>1, <2>2 DEF SameCallQ, Shape, SetPcs, RWPcs, PutPcs, XattrPcs, FilePcs
  <2>4. Facts(c)
    BY DEF QInv, AllQ, CallQ
  <2>5. Facts(d)
    BY <1>2, <2>2, <2>4 DEF Facts, SetPcs, RWPcs
  <2>6. proc' = [proc EXCEPT ![p] = d] /\ last' = last /\ acked' = acked
    BY <1>3, <2>1 DEF Missed, Stay, Goto, At
  <2> QED BY <2>2, <2>3, <2>5, <2>6, LocalGoes
<1>4. CASE ~(c.where = "plain" /\ setting.paged)
  <2>1. NotThere(p)
    BY <1>4 DEF Missed
  <2>2. c.where = "home" \/ setting.depth = 0
    BY <1>1, <1>4, SettingOK DEF Shape, Inv
  <2> QED BY <1>2, <2>1, <2>2, NotThereEndsQ
<1> QED BY <1>3, <1>4

LEMMA WholeText ==
  ASSUME NEW b, IsText(b)
  PROVE  /\ Len(b) \in Nat /\ (Len(b) = 0 => b = <<>>)
         /\ SubSeq(b, 1, Min({Len(b), Len(b)})) = b
<1>1. PICK S : b \in Seq(S)
  BY DEF IsText
<1>2. Len(b) \in Nat /\ (Len(b) = 0 => b = <<>>)
  BY <1>1, LenProperties, EmptySeq
<1>3. Min({Len(b), Len(b)}) = Len(b)
  BY <1>2, MinOfTwo
<1>4. SubSeq(b, 1, Len(b)) = b
  BY <1>1
<1> QED BY <1>2, <1>3, <1>4

(* What a call that is alone sees of its attribute.                        *)
LEMMA SeesText ==
  ASSUME NoTexts, Inv, QInv, NEW p \in Procs, Active(p), NEW c, c = proc[p],
         NEW a, a = acked[Slot(c)], c.alone, a # Unknown,
         c.pc \notin SetPcs \cup RWPcs, object[Slot(c)] # 0
  PROVE  /\ data[object[Slot(c)]] = a /\ a # NULL /\ IsText(a)
<1>1. Holds(Slot(c), a)
  BY AloneHolds
<1>2. a \in {NULL, Unknown} \/ IsText(a)
  BY ActiveCall DEF Inv, QInv, AckedOK
<1> QED BY <1>1, <1>2 DEF Holds

LEMMA TheSlot ==
  ASSUME OneStore, Inv, QInv, NEW p \in Procs, Active(p), NEW c, c = proc[p]
  PROVE  /\ CallOK(p, c) /\ IsCallOf(p, c) /\ Fits(c) /\ Shape(c) /\ Facts(c)
         /\ c.stores \in {{"file"}, {"xattr"}}
         /\ \A s \in c.stores : The(p, s) = Slot(c)
                                /\ (Present(p, s) <=> Here(p) /\ object[Slot(c)] # 0)
<1>1. CallOK(p, c) /\ Shape(c) /\ Facts(c)
  BY ActiveCall DEF Inv, QInv, AllQ, CallQ
<1>2. /\ c.stores \in {{"file"}, {"xattr"}}
      /\ \A s \in c.stores : Stored(s, c.attr) = Slot(c)
  BY <1>1, OneStoreCall DEF CallOK, Inv
<1> QED BY <1>1, <1>2 DEF CallOK, The, Present

(* A get of an extended attribute that is alone takes the text it holds.   *)
LEMMA XattrSizeQ ==
  ASSUME OneStore, NoTexts, Inv, QInv, NEW p \in Procs, XattrSize(p)
  PROVE  QInv'
<1>1. PICK c, b : c = proc[p] /\ b = Bytes(p, "xattr")
  OBVIOUS
<1>2. Active(p) /\ Local /\ c.pc = "size"
  BY <1>1 DEF Active, XattrSize
<1>3. /\ IsCallOf(p, c) /\ Fits(c) /\ Shape(c) /\ Facts(c)
      /\ The(p, "xattr") = Slot(c) /\ c.stores = {"xattr"}
      /\ Present(p, "xattr") <=> Here(p) /\ object[Slot(c)] # 0
  BY <1>1, <1>2, TheSlot DEF Shape, XattrPcs
<1>4. c.kind \in Getting /\ c.pc \notin SetPcs \cup RWPcs
  BY <1>2, <1>3 DEF Fits, GetPcs, SetPcs, RWPcs
<1>5. CASE ~Present(p, "xattr")
  <2>1. Missed(p)
    BY <1>1, <1>3, <1>5 DEF XattrSize, AfterXattr
  <2> QED BY <1>1, <1>2, <1>3, <1>4, <1>5, <2>1, MissedEndsQ, LocalKeepsQ
<1>6. CASE Present(p, "xattr")
  <2>1. c.alone /\ acked[Slot(c)] # Unknown => b = acked[Slot(c)] /\ IsText(b)
    BY <1>1, <1>2, <1>3, <1>4, <1>6, SeesText DEF Bytes
  <2>2. CASE Len(b) = 0
    <3>1. Answer(p, <<>>)
      BY <1>1, <1>6, <2>2 DEF XattrSize
    <3>2. c.alone /\ acked[Slot(c)] # Unknown => <<>> = acked[Slot(c)]
      BY <2>1, <2>2, WholeText
    <3> QED BY <1>1, <1>2, <1>4, <3>1, <3>2, AnswerEndsQ, LocalKeepsQ
  <2>3. CASE Len(b) # 0
    <3>1. PICK pc, n : pc = (IF AtomicXattr THEN "value" ELSE "openXattr") /\ n = Len(b)
      OBVIOUS
    <3>2. PICK e : e = [c EXCEPT !.pc = pc]
      OBVIOUS
    <3>3. PICK d : d = [e EXCEPT !.len = n]
      OBVIOUS
    <3>4. /\ IsCallOf(p, e) /\ e.pc = pc /\ e.kind = c.kind /\ e.fd = c.fd
          /\ e.where = c.where /\ e.alone = c.alone /\ Slot(e) = Slot(c)
          /\ e.stores = c.stores
      BY <1>3, <3>2, AtFields
    <3>5. /\ d.pc = pc /\ d.kind = c.kind /\ d.fd = c.fd /\ d.where = c.where
          /\ d.alone = c.alone /\ Slot(d) = Slot(c) /\ d.stores = c.stores /\ d.len = n
      BY <3>3, <3>4 DEF IsCallOf, Slot
    <3>6. SameCallQ(c, d) /\ Shape(d)
      BY <1>3, <3>1, <3>5 DEF SameCallQ, Shape, SetPcs, RWPcs, PutPcs, XattrPcs, FilePcs
    <3>7. Facts(d)
      BY <1>3, <2>1, <3>1, <3>5 DEF Facts, SetPcs, RWPcs
    <3>8. proc' = [proc EXCEPT ![p] = d] /\ last' = last /\ acked' = acked
      BY <1>1, <1>6, <2>3, <3>1, <3>2, <3>3 DEF XattrSize, Stay, Goto, At
    <3> QED BY <1>1, <1>2, <1>4, <3>5, <3>6, <3>7, <3>8, LocalGoes, LocalKeepsQ
  <2> QED BY <2>2, <2>3
<1> QED BY <1>5, <1>6

LEMMA XattrValueQ ==
  ASSUME OneStore, NoTexts, Inv, QInv, NEW p \in Procs, XattrValue(p)
  PROVE  QInv'
<1>1. PICK c, n, b : c = proc[p] /\ n = c.len /\ b = Bytes(p, "xattr")
  OBVIOUS
<1>2. PICK v : v = IF setting.platform = "bsd" THEN BsdValue(b, n) ELSE LinuxValue(b, n)
  OBVIOUS
<1>3. Active(p) /\ Local /\ c.pc = "value"
  BY <1>1 DEF Active, XattrValue
<1>4. /\ IsCallOf(p, c) /\ Fits(c) /\ Shape(c) /\ Facts(c)
      /\ The(p, "xattr") = Slot(c) /\ c.stores = {"xattr"}
      /\ Present(p, "xattr") <=> Here(p) /\ object[Slot(c)] # 0
  BY <1>1, <1>3, TheSlot DEF Shape, XattrPcs
<1>5. c.kind \in Getting /\ c.pc \notin SetPcs \cup RWPcs
  BY <1>3, <1>4 DEF Fits, GetPcs, SetPcs, RWPcs
<1>6. c.alone /\ acked[Slot(c)] # Unknown /\ Present(p, "xattr") =>
        v = acked[Slot(c)] /\ v # NULL
  <2> SUFFICES ASSUME c.alone, acked[Slot(c)] # Unknown, Present(p, "xattr")
               PROVE  v = acked[Slot(c)] /\ v # NULL
    OBVIOUS
  <2>1. b = acked[Slot(c)] /\ IsText(b) /\ b # NULL
    BY <1>1, <1>3, <1>4, <1>5, SeesText DEF Bytes
  <2>2. n = Len(b)
    BY <1>1, <1>3, <1>4, <2>1 DEF Facts
  <2>3. n \in Nat /\ n = Len(b) /\ SubSeq(b, 1, Min({n, Len(b)})) = b
    BY <2>1, <2>2, WholeText
  <2>4. BsdValue(b, n) = b /\ LinuxValue(b, n) = b
    BY <2>3 DEF BsdValue, LinuxValue
  <2> QED BY <1>2, <2>1, <2>4
<1>7. CASE Present(p, "xattr") /\ v # NULL
  <2>1. Answer(p, v)
    BY <1>1, <1>2, <1>7 DEF XattrValue
  <2> QED BY <1>1, <1>3, <1>5, <1>6, <1>7, <2>1, AnswerEndsQ, LocalKeepsQ
<1>8. CASE ~(Present(p, "xattr") /\ v # NULL)
  <2>1. Missed(p)
    BY <1>1, <1>2, <1>4, <1>8 DEF XattrValue, AfterXattr
  <2>2. c.alone /\ acked[Slot(c)] # Unknown => ~(Here(p) /\ object[Slot(c)] # 0)
    BY <1>4, <1>6, <1>8
  <2> QED BY <1>1, <1>3, <1>5, <2>1, <2>2, MissedEndsQ, LocalKeepsQ
<1> QED BY <1>7, <1>8

LEMMA OpenQ ==
  ASSUME OneStore, NoTexts, Inv, QInv, NEW p \in Procs,
         NEW store \in {"file", "xattr"}, Open(p, store)
  PROVE  QInv'
<1>1. PICK c, o : c = proc[p] /\ o = Slot(c)
  OBVIOUS
<1>2. Active(p) /\ Local /\ c.pc = IF store = "xattr" THEN "openXattr" ELSE "open"
  BY <1>1 DEF Active, Open
<1>3. /\ IsCallOf(p, c) /\ Fits(c) /\ Shape(c) /\ Facts(c)
      /\ The(p, store) = o /\ c.stores = {store}
      /\ Present(p, store) <=> Here(p) /\ object[o] # 0
  BY <1>1, <1>2, TheSlot DEF Shape, XattrPcs, FilePcs
<1>4. c.kind \in Getting /\ c.pc \notin SetPcs \cup RWPcs
  BY <1>2, <1>3 DEF Fits, GetPcs, SetPcs, RWPcs
<1>5. CASE ~Present(p, store)
  <2>1. Missed(p)
    BY <1>1, <1>3, <1>5 DEF Open, AfterXattr
  <2> QED BY <1>1, <1>2, <1>3, <1>4, <1>5, <2>1, MissedEndsQ, LocalKeepsQ
<1>6. CASE Present(p, store)
  <2>1. PICK pc, n : pc = (IF store = "xattr" THEN "read" ELSE "seek") /\ n = object[o]
    OBVIOUS
  <2>2. PICK e : e = [c EXCEPT !.pc = pc]
    OBVIOUS
  <2>3. PICK d : d = [e EXCEPT !.fd = n]
    OBVIOUS
  <2>4. /\ IsCallOf(p, e) /\ e.pc = pc /\ e.kind = c.kind /\ e.len = c.len
        /\ e.where = c.where /\ e.alone = c.alone /\ Slot(e) = Slot(c)
        /\ e.stores = c.stores
    BY <1>3, <2>2, AtFields
  <2>5. /\ d.pc = pc /\ d.kind = c.kind /\ d.fd = n /\ d.where = c.where
        /\ d.alone = c.alone /\ Slot(d) = Slot(c) /\ d.stores = c.stores
        /\ d.len = c.len
    BY <2>3, <2>4 DEF IsCallOf, Slot
  <2>6. SameCallQ(c, d) /\ Shape(d)
    BY <1>3, <2>1, <2>5 DEF SameCallQ, Shape, SetPcs, RWPcs, PutPcs, XattrPcs, FilePcs
  <2>7. Facts(d)
    <3>1. \A q \in Objects(program) : object[q] = n /\ n # 0 => q = o
      BY <1>1, <1>2, <2>1, ActiveCall DEF Inv, StateOK
    <3> QED BY <1>1, <1>2, <1>3, <2>1, <2>5, <3>1 DEF Facts, SetPcs, RWPcs
  <2>8. proc' = [proc EXCEPT ![p] = d] /\ last' = last /\ acked' = acked
    BY <1>1, <1>3, <1>6, <2>1, <2>2, <2>3 DEF Open, Stay, Goto, At
  <2> QED BY <1>1, <1>2, <1>4, <2>1, <2>5, <2>6, <2>7, <2>8, LocalGoes, LocalKeepsQ
<1> QED BY <1>5, <1>6

LEMMA SeekQ ==
  ASSUME OneStore, NoTexts, Inv, QInv, NEW p \in Procs, Seek(p)
  PROVE  QInv'
<1>1. PICK c, n : c = proc[p] /\ n = Len(data[c.fd])
  OBVIOUS
<1>2. Active(p) /\ Local /\ c.pc = "seek"
  BY <1>1 DEF Active, Seek
<1>3. IsCallOf(p, c) /\ Fits(c) /\ Shape(c) /\ Facts(c)
  BY <1>1, <1>2, TheSlot
<1>4. c.kind \in Getting /\ c.pc \notin SetPcs \cup RWPcs /\ c.fd # 0
  BY <1>2, <1>3 DEF Fits, GetPcs, SetPcs, RWPcs, FdPcs
<1>5. c.alone /\ acked[Slot(c)] # Unknown => n = Len(acked[Slot(c)])
  BY <1>1, <1>2, <1>3, <1>4, SeesText DEF Facts
<1>6. PICK e : e = [c EXCEPT !.pc = "read"]
  OBVIOUS
<1>7. PICK d : d = [e EXCEPT !.len = n]
  OBVIOUS
<1>8. /\ IsCallOf(p, e) /\ e.pc = "read" /\ e.kind = c.kind /\ e.fd = c.fd
      /\ e.where = c.where /\ e.alone = c.alone /\ Slot(e) = Slot(c)
      /\ e.stores = c.stores
  BY <1>3, <1>6, AtFields
<1>9. /\ d.pc = "read" /\ d.kind = c.kind /\ d.fd = c.fd /\ d.where = c.where
      /\ d.alone = c.alone /\ Slot(d) = Slot(c) /\ d.stores = c.stores /\ d.len = n
  BY <1>7, <1>8 DEF IsCallOf, Slot
<1>10. SameCallQ(c, d) /\ Shape(d)
  BY <1>3, <1>9 DEF SameCallQ, Shape, SetPcs, RWPcs, PutPcs, XattrPcs, FilePcs
<1>11. Facts(d)
  BY <1>2, <1>3, <1>5, <1>9 DEF Facts, SetPcs, RWPcs
<1>12. proc' = [proc EXCEPT ![p] = d] /\ last' = last /\ acked' = acked
  BY <1>1, <1>6, <1>7 DEF Seek, Stay, Goto, At
<1> QED BY <1>1, <1>2, <1>4, <1>9, <1>10, <1>11, <1>12, LocalGoes, LocalKeepsQ

LEMMA ReadQ ==
  ASSUME OneStore, NoTexts, Inv, QInv, NEW p \in Procs, Read(p)
  PROVE  QInv'
<1>1. PICK c, b : c = proc[p] /\ b = data[c.fd]
  OBVIOUS
<1>2. PICK t : t = SubSeq(b, 1, Min({c.len, Len(b)}))
  OBVIOUS
<1>3. Active(p) /\ Local /\ c.pc = "read" /\ Answer(p, t)
  BY <1>1, <1>2 DEF Active, Read
<1>4. Fits(c) /\ Facts(c)
  BY <1>1, <1>3, TheSlot
<1>5. c.kind \in Getting /\ c.pc \notin SetPcs \cup RWPcs /\ c.fd # 0
  BY <1>3, <1>4 DEF Fits, GetPcs, SetPcs, RWPcs, FdPcs
<1>6. ASSUME c.alone, acked[Slot(c)] # Unknown PROVE t = acked[Slot(c)]
  <2>1. object[Slot(c)] = c.fd /\ c.len = Len(acked[Slot(c)])
    BY <1>3, <1>4, <1>6 DEF Facts
  <2>2. b = acked[Slot(c)] /\ IsText(b)
    BY <1>1, <1>3, <1>5, <1>6, <2>1, SeesText
  <2> QED BY <1>2, <2>1, <2>2, WholeText
<1> QED BY <1>1, <1>3, <1>5, <1>6, AnswerEndsQ, LocalKeepsQ

LEMMA WalkQ ==
  ASSUME OneStore, Inv, QInv, NEW p \in Procs, Walk(p)
  PROVE  QInv'
<1>1. PICK c : c = proc[p]
  OBVIOUS
<1>2. Active(p) /\ Local /\ c.pc = "walk"
  BY <1>1 DEF Active, Walk
<1>3. /\ IsCallOf(p, c) /\ Fits(c) /\ Shape(c) /\ Facts(c)
      /\ c.stores \in {{"file"}, {"xattr"}}
  BY <1>1, <1>2, TheSlot
<1>4. /\ c.kind \in Getting \cup {"exists", "delete"}
      /\ c.pc \notin SetPcs \cup RWPcs
  BY <1>2, <1>3 DEF Fits, SetPcs, RWPcs
<1>5. CASE dir /\ setting.depth > 0
  <2>1. PICK pc : pc = CASE c.kind = "exists" -> "check"
                         [] c.kind = "delete" -> "remove"
                         [] OTHER             -> FirstRead(c.stores)
    OBVIOUS
  <2>2. FirstRead({"file"}) = "open" /\ FirstRead({"xattr"}) = "size"
    BY DEF FirstRead
  <2>3. \/ pc \in {"check", "remove"}
        \/ pc = "open" /\ c.stores = {"file"}
        \/ pc = "size" /\ c.stores = {"xattr"}
    BY <1>3, <1>4, <2>1, <2>2
  <2>4. PICK e : e = [c EXCEPT !.pc = pc]
    OBVIOUS
  <2>5. PICK d : d = [e EXCEPT !.where = "home"]
    OBVIOUS
  <2>6. /\ IsCallOf(p, e) /\ e.pc = pc /\ e.kind = c.kind /\ e.fd = c.fd
        /\ e.alone = c.alone /\ Slot(e) = Slot(c) /\ e.stores = c.stores
    BY <1>3, <2>4, AtFields
  <2>7. /\ d.pc = pc /\ d.kind = c.kind /\ d.fd = c.fd /\ d.where = "home"
        /\ d.alone = c.alone /\ Slot(d) = Slot(c) /\ d.stores = c.stores
    BY <2>5, <2>6 DEF IsCallOf, Slot
  <2>8. SameCallQ(c, d) /\ Shape(d) /\ Unknowing(d.pc)
    BY <1>3, <2>3, <2>7 DEF SameCallQ, Shape, Unknowing, SetPcs, RWPcs, PutPcs,
       XattrPcs, FilePcs
  <2>9. proc' = [proc EXCEPT ![p] = d] /\ last' = last /\ acked' = acked
    BY <1>1, <1>5, <2>1, <2>4, <2>5 DEF Walk, Stay, Goto, At
  <2> QED BY <1>1, <1>2, <1>4, <2>7, <2>8, <2>9, LocalGoes, LocalKeepsQ
<1>6. CASE ~(dir /\ setting.depth > 0)
  <2>1. NotThere(p)
    BY <1>6 DEF Walk
  <2>2. ~dir \/ setting.depth = 0
    BY <1>6, SettingOK DEF Inv
  <2>3. c.alone /\ acked[Slot(c)] # Unknown => acked[Slot(c)] = NULL
    BY <1>1, <1>2, <1>3, <1>4, <2>2, Absent DEF Facts
  <2> QED BY <1>1, <1>2, <1>4, <2>1, <2>3, NotThereEndsQ, LocalKeepsQ
<1> QED BY <1>5, <1>6

(* A question that is alone is answered by whether there is a text.        *)
LEMMA CheckQ ==
  ASSUME OneStore, NoTexts, Inv, QInv, NEW p \in Procs, Check(p)
  PROVE  QInv'
<1>1. PICK c : c = proc[p]
  OBVIOUS
<1>2. Active(p) /\ Local /\ c.pc = "check"
  BY <1>1 DEF Active, Check
<1>3. /\ Fits(c) /\ c.stores \in {{"file"}, {"xattr"}}
      /\ \A s \in c.stores : Present(p, s) <=> Here(p) /\ object[Slot(c)] # 0
  BY <1>1, <1>2, TheSlot
<1>4. c.kind = "exists" /\ c.pc \notin SetPcs \cup RWPcs /\ ~Writes(c)
  BY <1>2, <1>3 DEF Fits, SetPcs, RWPcs, Writes
<1>5. \/ Here(p) /\ object[Slot(c)] # 0 /\ Finish(p, TRUE, Unknown)
      \/ ~(Here(p) /\ object[Slot(c)] # 0) /\ Missed(p)
  BY <1>1, <1>3 DEF Check
<1>6. CASE object[Slot(c)] # 0 /\ Finish(p, TRUE, Unknown)
  <2>1. c.alone /\ acked[Slot(c)] # Unknown => acked[Slot(c)] # NULL
    BY <1>1, <1>2, <1>4, <1>6, SeesText
  <2>2. ReturnsQ(p)
    BY <1>1, <1>4, <1>6, <2>1 DEF ReturnsQ, AnswerQ
  <2> QED BY <1>2, <2>2, LocalKeepsQ DEF EndsQ
<1>7. CASE ~(Here(p) /\ object[Slot(c)] # 0) /\ Missed(p)
  BY <1>1, <1>2, <1>4, <1>7, MissedEndsQ, LocalKeepsQ
<1> QED BY <1>5, <1>6, <1>7

LEMMA LocateQ ==
  ASSUME OneStore, Inv, QInv, NEW p \in Procs, Locate(p)
  PROVE  QInv'
<1>1. PICK c : c = proc[p]
  OBVIOUS
<1>2. Active(p) /\ Local /\ c.pc = "locate" /\ c.pc \notin SetPcs \cup RWPcs
  BY <1>1 DEF Active, Locate, SetPcs, RWPcs
<1>3. IsCallOf(p, c) /\ Shape(c) /\ Facts(c)
  BY <1>1, <1>2, TheSlot
<1>4. PICK pc : /\ pc = IF (dir /\ setting.depth = 0) \/ ~setting.paged
                        THEN "remove" ELSE "walk"
                /\ Stay(p, At(p, pc))
  BY DEF Locate
<1>5. PICK d : d = [c EXCEPT !.pc = pc]
  OBVIOUS
<1>6. /\ d.pc = pc /\ d.kind = c.kind /\ d.fd = c.fd /\ d.where = c.where
      /\ d.alone = c.alone /\ Slot(d) = Slot(c) /\ d.stores = c.stores
  BY <1>3, <1>5, AtFields
<1>7. SameCallQ(c, d) /\ Shape(d)
  BY <1>3, <1>4, <1>6 DEF SameCallQ, Shape, SetPcs, RWPcs, PutPcs, XattrPcs, FilePcs
<1>8. pc = "walk" /\ setting.depth = 0 /\ c.alone /\ acked[Slot(c)] # Unknown
        => acked[Slot(c)] = NULL
  BY <1>1, <1>2, <1>4, Absent
<1>9. Facts(d)
  BY <1>3, <1>4, <1>6, <1>8 DEF Facts, SetPcs, RWPcs
<1>10. proc' = [proc EXCEPT ![p] = d] /\ last' = last /\ acked' = acked
  BY <1>1, <1>4, <1>5 DEF Stay, Goto, At
<1> QED BY <1>1, <1>2, <1>6, <1>7, <1>9, <1>10, LocalGoes, LocalKeepsQ

LEMMA StartIsText == ASSUME NEW a, IsText(a) \/ a = NULL PROVE IsText(Start(a))
<1>1. <<>> \in Seq({})
  OBVIOUS
<1> QED BY <1>1 DEF Start, IsText

LEMMA SeekRWQ ==
  ASSUME OneStore, NoTexts, Inv, QInv, NEW p \in Procs, SeekRW(p)
  PROVE  QInv'
<1>1. PICK c, n : c = proc[p] /\ n = Len(data[c.fd])
  OBVIOUS
<1>2. PICK pc : pc = IF n = 0 THEN "writeRW" ELSE "readRW"
  OBVIOUS
<1>3. Active(p) /\ Local /\ c.pc = "seekRW"
  BY <1>1 DEF Active, SeekRW
<1>4. IsCallOf(p, c) /\ Shape(c) /\ Facts(c)
  BY <1>1, <1>3, TheSlot
<1>5. PICK e : e = [c EXCEPT !.pc = pc]
  OBVIOUS
<1>6. PICK d : d = [e EXCEPT !.len = n, !.result = c.arg, !.text = Decimal(c.arg)]
  OBVIOUS
<1>7. /\ IsCallOf(p, e) /\ e.pc = pc /\ e.kind = c.kind /\ e.fd = c.fd
      /\ e.where = c.where /\ e.alone = c.alone /\ Slot(e) = Slot(c)
      /\ e.stores = c.stores
  BY <1>4, <1>5, AtFields
<1>8. /\ d.pc = pc /\ d.kind = c.kind /\ d.fd = c.fd /\ d.where = c.where
      /\ d.alone = c.alone /\ Slot(d) = Slot(c) /\ d.stores = c.stores /\ d.len = n
  BY <1>6, <1>7 DEF IsCallOf, Slot
<1>9. SameCallQ(c, d) /\ Shape(d) /\ Disturbs(d)
  BY <1>2, <1>3, <1>4, <1>8
     DEF SameCallQ, Shape, Disturbs, Writes, SetPcs, RWPcs, PutPcs, XattrPcs, FilePcs
<1>10. Facts(d)
  BY <1>1, <1>2, <1>3, <1>4, <1>8 DEF Facts, SetPcs, RWPcs
<1>11. proc' = [proc EXCEPT ![p] = d] /\ last' = last /\ acked' = acked
  BY <1>1, <1>2, <1>5, <1>6 DEF SeekRW, Stay, Goto, At
<1> QED BY <1>1, <1>3, <1>8, <1>9, <1>10, <1>11, LocalGoes, LocalKeepsQ

LEMMA ReadRWQ ==
  ASSUME OneStore, NoTexts, Inv, QInv, NEW p \in Procs, ReadRW(p)
  PROVE  QInv'
<1>1. PICK c, b : c = proc[p] /\ b = data[c.fd]
  OBVIOUS
<1>2. PICK m, n : /\ m = Len(SubSeq(b, 1, Min({c.len, Len(b)})))
                  /\ Stay(p, [At(p, "writeRW") EXCEPT !.len = m, !.result = n,
                                                      !.text = Decimal(n)])
  BY <1>1 DEF ReadRW
<1>3. Active(p) /\ Local /\ c.pc = "readRW"
  BY <1>1 DEF Active, ReadRW
<1>4. IsCallOf(p, c) /\ Shape(c) /\ Facts(c)
  BY <1>1, <1>3, TheSlot
<1>5. PICK a : a = acked[Slot(c)]
  OBVIOUS
<1>6. ASSUME c.alone, a # Unknown PROVE m = Len(Start(a))
  <2>1. b = Start(a) /\ c.len = Len(Start(a))
    BY <1>1, <1>3, <1>4, <1>5, <1>6 DEF Facts, RWPcs
  <2>2. IsText(b)
    BY <1>1, <1>3, <1>5, <1>6, <2>1, StartIsText, ActiveCall DEF Inv, QInv, AckedOK
  <2> QED BY <1>2, <2>1, <2>2, WholeText
<1>7. PICK e : e = [c EXCEPT !.pc = "writeRW"]
  OBVIOUS
<1>8. PICK d : d = [e EXCEPT !.len = m, !.result = n, !.text = Decimal(n)]
  OBVIOUS
<1>9. /\ IsCallOf(p, e) /\ e.pc = "writeRW" /\ e.kind = c.kind /\ e.fd = c.fd
      /\ e.where = c.where /\ e.alone = c.alone /\ Slot(e) = Slot(c)
      /\ e.stores = c.stores
  BY <1>4, <1>7, AtFields
<1>10. /\ d.pc = "writeRW" /\ d.kind = c.kind /\ d.fd = c.fd /\ d.where = c.where
       /\ d.alone = c.alone /\ Slot(d) = Slot(c) /\ d.stores = c.stores /\ d.len = m
  BY <1>8, <1>9 DEF IsCallOf, Slot
<1>11. SameCallQ(c, d) /\ Shape(d) /\ Disturbs(d)
  BY <1>3, <1>4, <1>10
     DEF SameCallQ, Shape, Disturbs, Writes, SetPcs, RWPcs, PutPcs, XattrPcs, FilePcs
<1>12. Facts(d)
  BY <1>3, <1>4, <1>5, <1>6, <1>10 DEF Facts, SetPcs, RWPcs
<1>13. proc' = [proc EXCEPT ![p] = d] /\ last' = last /\ acked' = acked
  BY <1>1, <1>2, <1>7, <1>8 DEF Stay, Goto, At
<1> QED BY <1>1, <1>3, <1>10, <1>11, <1>12, <1>13, LocalGoes, LocalKeepsQ

LEMMA NullDirQ ==
  ASSUME Inv, QInv, NEW p \in Procs, NullDir(p)
  PROVE  QInv'
<1>1. Active(p) /\ Local /\ proc[p].pc = "nullDir"
  BY DEF Active, NullDir
<1>2. ~Writes(proc[p])
  BY <1>1 DEF QInv, AllQ, CallQ, Shape, Writes
<1>3. acked' = [acked EXCEPT ![Slot(proc[p])] = @]
  BY DEF NullDir, QInv, AckedOK
<1>4. DiesQ(p)
  BY <1>2, <1>3 DEF NullDir, DiesQ
<1> QED BY <1>1, <1>4, LocalKeepsQ DEF EndsQ

LEMMA NoStoreQ ==
  ASSUME QInv, NEW p \in Procs
  PROVE  ~NoRead(p) /\ ~NoWrite(p)
BY DEF QInv, AllQ, Active, CallQ, Shape, NoRead, NoWrite

----------------------------------------------------------------------------
(* The steps of a put.                                                     *)

LEMMA FirstWriteOne ==
  ASSUME NEW st \in {{"file"}, {"xattr"}}
  PROVE  \/ FirstWrite(st) \in {"setxattr", "truncXattr"} /\ st = {"xattr"}
         \/ FirstWrite(st) = "trunc" /\ st = {"file"}
<1>1. FirstWrite({"file"}) = "trunc"
  BY DEF FirstWrite
<1>2. FirstWrite({"xattr"}) \in {"setxattr", "truncXattr"}
  BY DEF FirstWrite
<1> QED BY <1>1, <1>2

LEMMA FindPlaceQ ==
  ASSUME OneStore, Inv, QInv, NEW p \in Procs, FindPlace(p)
  PROVE  QInv'
<1>1. PICK c : c = proc[p]
  OBVIOUS
<1>2. Active(p) /\ Still /\ c.pc = "find" /\ c.pc \notin SetPcs \cup RWPcs
  BY <1>1 DEF Active, FindPlace, Inside, fsys, Still, SetPcs, RWPcs
<1>3. IsCallOf(p, c) /\ Shape(c) /\ c.stores \in {{"file"}, {"xattr"}}
  BY <1>1, <1>2, TheSlot
<1>4. PICK pc : pc = AtPlace(p)
  OBVIOUS
<1>5. \/ pc = "mkdir"
      \/ pc \in {"setxattr", "truncXattr"} /\ c.stores = {"xattr"}
      \/ pc = "trunc" /\ c.stores = {"file"}
  BY <1>1, <1>3, <1>4, FirstWriteOne DEF AtPlace
<1>6. PICK e : e = [c EXCEPT !.pc = pc]
  OBVIOUS
<1>7. PICK d : d = [e EXCEPT !.where = "home", !.found = dir]
  OBVIOUS
<1>8. /\ IsCallOf(p, e) /\ e.pc = pc /\ e.kind = c.kind /\ e.fd = c.fd
      /\ e.alone = c.alone /\ Slot(e) = Slot(c) /\ e.stores = c.stores
  BY <1>3, <1>6, AtFields
<1>9. /\ d.pc = pc /\ d.kind = c.kind /\ d.fd = c.fd /\ d.where = "home"
      /\ d.alone = c.alone /\ Slot(d) = Slot(c) /\ d.stores = c.stores
  BY <1>7, <1>8 DEF IsCallOf, Slot
<1>10. SameCallQ(c, d) /\ Shape(d) /\ Unknowing(d.pc)
  BY <1>2, <1>3, <1>5, <1>9 DEF SameCallQ, Shape, Unknowing, SetPcs, RWPcs, PutPcs,
     XattrPcs, FilePcs
<1>11. proc' = [proc EXCEPT ![p] = d] /\ last' = last /\ acked' = acked
  BY <1>1, <1>4, <1>6, <1>7 DEF FindPlace, Stay, Goto, At
<1> QED BY <1>1, <1>2, <1>9, <1>10, <1>11, StillGoes, StillKeepsQ

LEMMA MakeDirQ ==
  ASSUME OneStore, Inv, QInv, NEW p \in Procs, MakeDir(p)
  PROVE  QInv'
<1>1. PICK c : c = proc[p]
  OBVIOUS
<1>2. Active(p) /\ Still /\ c.pc = "mkdir" /\ c.pc \notin SetPcs \cup RWPcs
  BY <1>1 DEF Active, MakeDir, Inside, Still, SetPcs, RWPcs
<1>3. IsCallOf(p, c) /\ Shape(c) /\ c.stores \in {{"file"}, {"xattr"}}
  BY <1>1, <1>2, TheSlot
<1>4. PICK pc : pc = FirstWrite(c.stores)
  OBVIOUS
<1>5. \/ pc \in {"setxattr", "truncXattr"} /\ c.stores = {"xattr"}
      \/ pc = "trunc" /\ c.stores = {"file"}
  BY <1>3, <1>4, FirstWriteOne
<1>6. PICK d : d = [c EXCEPT !.pc = pc]
  OBVIOUS
<1>7. /\ d.pc = pc /\ d.kind = c.kind /\ d.fd = c.fd /\ d.where = c.where
      /\ d.alone = c.alone /\ Slot(d) = Slot(c) /\ d.stores = c.stores
  BY <1>3, <1>6, AtFields
<1>8. SameCallQ(c, d) /\ Shape(d) /\ Unknowing(d.pc)
  BY <1>2, <1>3, <1>5, <1>7 DEF SameCallQ, Shape, Unknowing, SetPcs, RWPcs, PutPcs,
     XattrPcs, FilePcs
<1>9. proc' = [proc EXCEPT ![p] = d] /\ last' = last /\ acked' = acked
  BY <1>1, <1>4, <1>6 DEF MakeDir, Stay, Goto, At
<1> QED BY <1>1, <1>2, <1>7, <1>8, <1>9, StillGoes, StillKeepsQ

(* The end of a call changes what is known of its own attribute.           *)
LEMMA FinishFrame ==
  ASSUME QInv, NEW p, NEW r, NEW s, Finish(p, r, s)
  PROVE  /\ acked' = [q \in Objects(program) |-> acked'[q]]
         /\ \A q \in Objects(program) \ {Slot(proc[p])} : acked'[q] = acked[q]
BY DEF Finish, QInv, AckedOK

LEMMA PutDoneQ ==
  ASSUME OneStore, Inv, QInv, NEW p \in Procs, Active(p),
         NEW c, c = proc[p], c.pc \in PutPcs, NEW r, PutDone(p, r),
         c.alone /\ r = 0 => HoldsNext(Slot(c), c.text)
  PROVE  EndsQ(p) /\ acked' = [q \in Objects(program) |-> acked'[q]]
                  /\ \A q \in Objects(program) \ {Slot(c)} : acked'[q] = acked[q]
<1>1. IsText(c.text) /\ c.kind \in {"put", "putInt", "incrBy"}
  BY TheSlot DEF IsCallOf, Shape
<1>2. PICK s, u : /\ s = IF r = 0 THEN c.text ELSE Unknown
                  /\ Finish(p, u, s)
  BY DEF PutDone
<1>3. acked' = [q \in Objects(program) |-> acked'[q]]
      /\ \A q \in Objects(program) \ {Slot(c)} : acked'[q] = acked[q]
  BY <1>2, FinishFrame
<1>4. ReturnsQ(p)
  BY <1>1, <1>2 DEF ReturnsQ, AnswerQ
<1> QED BY <1>3, <1>4 DEF EndsQ

(* Setting an extended attribute leaves the text that was put.             *)
LEMMA SetXattrQ ==
  ASSUME OneStore, NoTexts, Inv, QInv, NEW p \in Procs, SetXattr(p)
  PROVE  QInv'
<1>1. PICK c, o : c = proc[p] /\ o = Slot(c)
  OBVIOUS
<1>2. Active(p) /\ c.pc = "setxattr" /\ c.pc \in PutPcs
  BY <1>1 DEF Active, SetXattr, PutPcs
<1>3. /\ IsCallOf(p, c) /\ Shape(c) /\ c.stores = {"xattr"} /\ o \in Objects(program)
      /\ The(p, "xattr") = o
  BY <1>1, <1>2, TheSlot, ActiveCall DEF Shape, XattrPcs, Inv
<1>4. program' = program /\ setting' = setting
  BY DEF SetXattr, Inside
<1>5. ASSUME NEW r, AfterSet(p, r) PROVE PutDone(p, r)
  BY <1>1, <1>3, <1>5 DEF AfterSet
<1>6. CASE \E r \in {EINVAL, ENOSPC} : UNCHANGED fsys /\ AfterSet(p, r)
  <2>1. PICK r \in {EINVAL, ENOSPC} : UNCHANGED fsys /\ AfterSet(p, r)
    BY <1>6
  <2>2. Still /\ r # 0
    BY <1>4, <2>1 DEF Still, fsys, EINVAL, ENOSPC
  <2> QED BY <1>1, <1>2, <1>5, <2>1, <2>2, PutDoneQ, StillKeepsQ
<1>7. CASE /\ object' = [object EXCEPT ![o] = Inode(o)]
           /\ data' = [data EXCEPT ![Inode(o)] =
                        SetValue(IF object[o] = 0 THEN <<>> ELSE @, c.text)]
           /\ Room(o) /\ AfterSet(p, 0)
  <2>1. /\ Inode(o) \in 1..MaxInodes /\ Inode(o) # 0
        /\ \A q \in Objects(program) \ {o} : object[q] # Inode(o)
        /\ object[o] # 0 => Inode(o) = object[o]
        /\ object[o] = 0 => \A q \in Procs : proc[q].fd # Inode(o)
    BY <1>3, <1>7, InodeType DEF Inv
  <2>2. /\ object'[o] = Inode(o) /\ data'[Inode(o)] = c.text
        /\ \A q \in Objects(program) \ {o} :
             object'[q] = object[q] /\ (object[q] # 0 => data'[object[q]] = data[object[q]])
    BY <1>3, <1>7, <2>1 DEF Inv, StateOK, SetValue
  <2>3. HoldsNext(o, c.text)
    BY <1>3, <2>1, <2>2 DEF HoldsNext, IsCallOf, NoTexts
  <2>4. /\ EndsQ(p) /\ acked' = [q \in Objects(program) |-> acked'[q]]
        /\ \A q \in Objects(program) \ {o} : acked'[q] = acked[q]
    BY <1>1, <1>2, <1>5, <1>7, <2>3, PutDoneQ
  <2>5. Writes(c)
    BY <1>2, <1>3 DEF Shape, Writes
  <2>6. SameFrame(p)
    BY <1>1, <1>4, <2>1, <2>2, <2>4, <2>5 DEF SameFrame
  <2> QED BY <1>2, <2>4, <2>6, EndsKeepQ
<1> QED BY <1>1, <1>3, <1>6, <1>7 DEF SetXattr

\* An attribute gets inode n, with bytes b, and nothing else changes.
Places(o, n, b) ==
  /\ object'[o] = n /\ n # 0 /\ data'[n] = b
  /\ \A q \in Objects(program) \ {o} :
       /\ object[q] # n /\ object'[q] = object[q]
       /\ object[q] # 0 => data'[object[q]] = data[object[q]]
  /\ object[o] # 0 => n = object[o]
  /\ object[o] = 0 => \A q \in Procs : proc[q].fd # n

LEMMA PlacesFrame ==
  ASSUME Inv, QInv, NEW p \in Procs, Active(p), NEW o, o = Slot(proc[p]),
         NEW n, NEW b, Places(o, n, b), Writes(proc[p]),
         program' = program, setting' = setting, acked' = acked
  PROVE  SameFrame(p)
<1>1. acked' = [q \in Objects(program) |-> acked'[q]]
  BY DEF QInv, AckedOK
<1> QED BY <1>1 DEF SameFrame, Places

(* Opening for a put leaves an empty file, which nobody else has open      *)
(* unless it was the attribute's.                                          *)
LEMMA TruncateQ ==
  ASSUME OneStore, Inv, QInv, NEW p \in Procs, NEW store \in {"file", "xattr"},
         Truncate(p, store)
  PROVE  QInv'
<1>1. PICK c, o : c = proc[p] /\ o = Slot(c)
  OBVIOUS
<1>2. Active(p) /\ c.pc = IF store = "xattr" THEN "truncXattr" ELSE "trunc"
  BY <1>1 DEF Active, Truncate
<1>3. /\ IsCallOf(p, c) /\ Shape(c) /\ c.stores = {store} /\ o \in Objects(program)
      /\ The(p, store) = o
  BY <1>1, <1>2, TheSlot, ActiveCall DEF Shape, XattrPcs, FilePcs, Inv
<1>4. Writes(c)
  BY <1>2, <1>3 DEF Shape, PutPcs, Writes
<1>5. PICK n : n = Inode(o)
  OBVIOUS
<1>6. /\ program' = program /\ setting' = setting /\ Room(o)
      /\ object' = [object EXCEPT ![o] = n]
      /\ data' = [data EXCEPT ![n] = <<>>]
  BY <1>3, <1>5 DEF Truncate, Inside, Opened
<1>7. /\ n \in 1..MaxInodes /\ n # 0
      /\ \A q \in Objects(program) \ {o} : object[q] # n
      /\ object[o] # 0 => n = object[o]
      /\ object[o] = 0 => \A q \in Procs : proc[q].fd # n
  BY <1>3, <1>5, <1>6, InodeType DEF Inv
<1>8. Places(o, n, <<>>)
  BY <1>3, <1>6, <1>7 DEF Places, Inv, StateOK
<1>9. PICK pc : pc = IF store = "xattr" THEN "writeXattr" ELSE "write"
  OBVIOUS
<1>10. PICK e : e = [c EXCEPT !.pc = pc]
  OBVIOUS
<1>11. PICK d : d = [e EXCEPT !.fd = n]
  OBVIOUS
<1>12. /\ IsCallOf(p, e) /\ e.pc = pc /\ e.kind = c.kind /\ e.where = c.where
       /\ e.alone = c.alone /\ Slot(e) = Slot(c) /\ e.stores = c.stores
  BY <1>3, <1>10, AtFields
<1>13. /\ d.pc = pc /\ d.kind = c.kind /\ d.fd = n /\ d.where = c.where
       /\ d.alone = c.alone /\ Slot(d) = Slot(c) /\ d.stores = c.stores
  BY <1>11, <1>12 DEF IsCallOf, Slot
<1>14. SameCallQ(c, d) /\ Shape(d) /\ Disturbs(d)
  BY <1>2, <1>3, <1>4, <1>9, <1>13
     DEF SameCallQ, Shape, Disturbs, Writes, SetPcs, RWPcs, PutPcs, XattrPcs, FilePcs
<1>15. /\ proc' = [proc EXCEPT ![p] = d] /\ last' = last /\ acked' = acked
  BY <1>1, <1>3, <1>5, <1>9, <1>10, <1>11 DEF Truncate, Stay, Goto, At
<1>16. Facts(d)'
  BY <1>1, <1>6, <1>8, <1>9, <1>13 DEF Facts, Places, SetPcs, RWPcs
<1>17. GoesQ(p)
  BY <1>1, <1>14, <1>15, <1>16 DEF GoesQ, CallQ, Shape
<1>18. SameFrame(p)
  BY <1>1, <1>2, <1>4, <1>6, <1>8, <1>15, PlacesFrame
<1> QED BY <1>2, <1>17, <1>18, EndsKeepQ DEF EndsQ

(* Writing behind the last byte.                                           *)
LEMMA WriteAtEnd ==
  ASSUME NEW b, IsText(b), NEW t, IsText(t)
  PROVE  WriteAt(b, Len(b), t) = b \o t /\ IsText(b \o t)
<1>1. PICK S, T : b \in Seq(S) /\ t \in Seq(T)
  BY DEF IsText
<1>2. PICK U : U = S \cup T
  OBVIOUS
<1>3. b \in Seq(U) /\ t \in Seq(U)
  BY <1>1, <1>2
<1>4. Len(b) \in Nat /\ Len(t) \in Nat
  BY <1>3, LenProperties
<1>5. [i \in 1..Len(b) |-> IF i <= Len(b) THEN b[i] ELSE "nul"] = b
  BY <1>3, <1>4
<1>6. SubSeq(b, Len(b) + Len(t) + 1, Len(b)) = <<>>
  BY <1>3, <1>4
<1>7. b \o t \in Seq(U) /\ (b \o t) \o <<>> = b \o t
  BY <1>3, ConcatProperties
<1> QED BY <1>5, <1>6, <1>7 DEF WriteAt, IsText

LEMMA WriteAtStart ==
  ASSUME NEW t, IsText(t)
  PROVE  WriteAt(<<>>, 0, t) = t /\ <<>> \o t = t
<1>1. PICK S : t \in Seq(S)
  BY DEF IsText
<1>2. IsText(<<>>) /\ Len(<<>>) = 0
  BY StartIsText DEF Start, IsText
<1>3. <<>> \o t = t
  BY <1>1
<1> QED BY <1>2, <1>3, WriteAtEnd

\* The bytes of inode n change, which no attribute but o has.
Rewrites(o, n, b) ==
  /\ object' = object /\ n # 0 /\ data'[n] = b
  /\ \A q \in Objects(program) \ {o} :
       object[q] # 0 => object[q] # n /\ data'[object[q]] = data[object[q]]

LEMMA RewritesFrame ==
  ASSUME Inv, QInv, NEW p \in Procs, Active(p), NEW o, o = Slot(proc[p]),
         NEW n, NEW b, Rewrites(o, n, b), Writes(proc[p]),
         program' = program, setting' = setting,
         acked' = [q \in Objects(program) |-> acked'[q]],
         \A q \in Objects(program) \ {o} : acked'[q] = acked[q]
  PROVE  SameFrame(p)
BY DEF SameFrame, Rewrites

LEMMA OpenRewrites ==
  ASSUME OneStore, Inv, QInv, NEW p \in Procs, Active(p), NEW c, c = proc[p],
         c.fd # 0, NEW b, data' = [data EXCEPT ![c.fd] = b], object' = object
  PROVE  Rewrites(Slot(c), c.fd, b)
<1>1. c.fd \in 1..MaxInodes /\ Facts(c) /\ Slot(c) \in Objects(program)
  BY TheSlot, ActiveCall, InodesAssumption DEF Fits, Inv
<1> QED BY <1>1 DEF Facts, Rewrites, Inv, StateOK

(* A writer that is alone writes its text into the empty file.             *)
LEMMA WriteQ ==
  ASSUME OneStore, NoTexts, Inv, QInv, NEW p \in Procs,
         NEW store \in {"file", "xattr"}, Write(p, store)
  PROVE  QInv'
<1>1. PICK c, o : c = proc[p] /\ o = Slot(c)
  OBVIOUS
<1>2. Active(p) /\ c.pc = IF store = "xattr" THEN "writeXattr" ELSE "write"
  BY <1>1 DEF Active, Write
<1>3. c.pc \in PutPcs /\ c.pc \in SetPcs
  BY <1>2 DEF PutPcs, SetPcs
<1>4. /\ IsCallOf(p, c) /\ Shape(c) /\ Facts(c) /\ c.stores = {store}
      /\ o \in Objects(program) /\ c.fd # 0 /\ IsText(c.text)
  BY <1>1, <1>2, TheSlot, ActiveCall
     DEF Shape, XattrPcs, FilePcs, Inv, IsCallOf, Fits, FdPcs
<1>5. Writes(c)
  BY <1>3, <1>4 DEF Shape, Writes
<1>6. program' = program /\ setting' = setting
  BY DEF Write, Inside
<1>7. ASSUME NEW r, IF store = "xattr" THEN AfterSet(p, r) ELSE PutDone(p, r)
      PROVE  PutDone(p, r)
  BY <1>1, <1>4, <1>7 DEF AfterSet
<1>8. CASE \E r \in {ENOSPC, 1} : UNCHANGED fsys /\ PutDone(p, r)
  <2>1. PICK r \in {ENOSPC, 1} : UNCHANGED fsys /\ PutDone(p, r)
    BY <1>8
  <2>2. Still /\ r # 0
    BY <1>6, <2>1 DEF Still, fsys, ENOSPC
  <2> QED BY <1>1, <1>2, <1>3, <2>1, <2>2, PutDoneQ, StillKeepsQ
<1>9. CASE /\ data' = [data EXCEPT ![c.fd] = WriteAt(@, 0, c.text)]
           /\ object' = object /\ PutDone(p, 0)
  <2>1. PICK b : b = WriteAt(data[c.fd], 0, c.text)
    OBVIOUS
  <2>2. Rewrites(o, c.fd, b)
    BY <1>1, <1>2, <1>4, <1>9, <2>1, OpenRewrites
  <2>3. ASSUME c.alone PROVE HoldsNext(o, c.text)
    <3>1. object[o] = c.fd /\ data[c.fd] = <<>>
      BY <1>1, <1>3, <1>4, <2>3 DEF Facts
    <3>2. b = c.text
      BY <1>4, <2>1, <3>1, WriteAtStart
    <3> QED BY <1>4, <2>2, <3>1, <3>2 DEF HoldsNext, Rewrites, NoTexts
  <2>4. /\ EndsQ(p) /\ acked' = [q \in Objects(program) |-> acked'[q]]
        /\ \A q \in Objects(program) \ {o} : acked'[q] = acked[q]
    BY <1>1, <1>2, <1>3, <1>9, <2>3, PutDoneQ
  <2>5. SameFrame(p)
    BY <1>1, <1>2, <1>5, <1>6, <2>2, <2>4, RewritesFrame
  <2> QED BY <1>2, <2>4, <2>5, EndsKeepQ
<1>10. \/ \E r \in {ENOSPC, 1} : /\ UNCHANGED fsys
                                 /\ IF store = "xattr" THEN AfterSet(p, r) ELSE PutDone(p, r)
       \/ /\ data' = [data EXCEPT ![c.fd] = WriteAt(@, 0, c.text)]
          /\ object' = object
          /\ IF store = "xattr" THEN AfterSet(p, 0) ELSE PutDone(p, 0)
  BY <1>1 DEF Write
<1> QED BY <1>7, <1>8, <1>9, <1>10

----------------------------------------------------------------------------
(* Deleting, incrementing in place, crashing.                              *)

LEMMA DeleteAttrQ ==
  ASSUME OneStore, Inv, QInv, NEW p \in Procs, DeleteAttr(p)
  PROVE  QInv'
<1>1. PICK c, o : c = proc[p] /\ o = Slot(c)
  OBVIOUS
<1>2. Active(p) /\ c.pc = "remove" /\ c.pc \notin SetPcs \cup RWPcs
  BY <1>1 DEF Active, DeleteAttr, SetPcs, RWPcs
<1>3. /\ c.stores \in {{"file"}, {"xattr"}} /\ o \in Objects(program)
      /\ \A s \in c.stores : The(p, s) = o
      /\ c.kind = "delete" /\ Writes(c)
  BY <1>1, <1>2, TheSlot, ActiveCall DEF Fits, Inv, Writes
<1>4. PICK store \in c.stores : store = IF "xattr" \in c.stores THEN "xattr" ELSE "file"
  BY <1>3
<1>5. The(p, store) = o
  BY <1>3, <1>4
<1>6. program' = program /\ setting' = setting /\ data' = data
  BY DEF DeleteAttr, Inside
<1>7. \/ /\ object' = [object EXCEPT ![o] = 0]
         /\ \E s \in {NULL, Unknown} : Finish(p, TRUE, s)
      \/ object' = object /\ Finish(p, FALSE, acked[o])
  BY <1>1, <1>3, <1>4, <1>5 DEF DeleteAttr
<1>8. CASE /\ object' = [object EXCEPT ![o] = 0]
           /\ \E s \in {NULL, Unknown} : Finish(p, TRUE, s)
  <2>1. PICK s \in {NULL, Unknown} : Finish(p, TRUE, s)
    BY <1>8
  <2>2. /\ object'[o] = 0
        /\ \A q \in Objects(program) \ {o} : object'[q] = object[q]
    BY <1>3, <1>8 DEF Inv, StateOK
  <2>3. /\ acked' = [q \in Objects(program) |-> acked'[q]]
        /\ \A q \in Objects(program) \ {o} : acked'[q] = acked[q]
    BY <1>1, <2>1, FinishFrame
  <2>4. SameFrame(p)
    BY <1>1, <1>3, <1>6, <2>2, <2>3 DEF SameFrame
  <2>5. s # Unknown => HoldsNext(o, s)
    BY <2>1, <2>2 DEF HoldsNext
  <2>6. ReturnsQ(p)
    BY <1>1, <1>3, <2>1, <2>5 DEF ReturnsQ, AnswerQ
  <2> QED BY <1>2, <2>4, <2>6, EndsKeepQ DEF EndsQ
<1>9. CASE object' = object /\ Finish(p, FALSE, acked[o])
  <2>1. PICK s : s = acked[o] /\ Finish(p, FALSE, s)
    BY <1>9
  <2>2. s \in {NULL, Unknown} \/ IsText(s)
    BY <1>3, <2>1 DEF QInv, AckedOK
  <2>3. c.alone /\ s # Unknown => HoldsNext(o, s)
    BY <1>1, <1>2, <1>6, <1>9, <2>1, AloneHolds DEF Holds, HoldsNext
  <2>4. ReturnsQ(p)
    BY <1>1, <1>3, <2>1, <2>2, <2>3 DEF ReturnsQ, AnswerQ
  <2> QED BY <1>2, <1>6, <1>9, <2>4, StillKeepsQ DEF EndsQ, Still
<1> QED BY <1>7, <1>8, <1>9

LEMMA CrashQ == ASSUME QInv, Inv, NEW p \in Procs, Crash(p) PROVE QInv'
<1>1. Active(p) /\ Still
  BY DEF Crash, Active, Still, fsys
<1>2. DiesQ(p)
  BY DEF Crash, DiesQ
<1> QED BY <1>1, <1>2, StillKeepsQ DEF EndsQ

LEMMA OpenRWQ ==
  ASSUME OneStore, NoTexts, Inv, QInv, NEW p \in Procs, OpenRW(p)
  PROVE  QInv'
<1>1. PICK c, o, a : c = proc[p] /\ o = Slot(c) /\ a = acked[Slot(c)]
  OBVIOUS
<1>2. Active(p) /\ c.pc = "openRW" /\ c.pc \notin SetPcs \cup RWPcs
  BY <1>1 DEF Active, OpenRW, SetPcs, RWPcs
<1>3. /\ IsCallOf(p, c) /\ Shape(c) /\ c.stores = {"file"} /\ o \in Objects(program)
      /\ The(p, "file") = o /\ c.kind = "incrDir" /\ Writes(c)
  BY <1>1, <1>2, TheSlot, ActiveCall DEF Shape, FilePcs, Inv, Writes
<1>4. program' = program /\ setting' = setting
  BY DEF OpenRW, Inside
<1>5. a # Unknown /\ c.alone => Holds(o, a)
  BY <1>1, <1>2, AloneHolds
<1>6. CASE ~dir
  <2>1. PICK s : s = a /\ Finish(p, 0, s)
    BY <1>1, <1>6 DEF OpenRW
  <2>2. Still
    BY <1>4, <1>6 DEF OpenRW, Still
  <2>3. s \in {NULL, Unknown} \/ IsText(s)
    BY <1>1, <1>3, <2>1 DEF QInv, AckedOK
  <2>4. c.alone /\ s # Unknown => HoldsNext(o, s)
    BY <1>5, <2>1, <2>2 DEF Holds, HoldsNext, Still
  <2>5. ReturnsQ(p)
    BY <1>1, <1>3, <2>1, <2>3, <2>4 DEF ReturnsQ, AnswerQ
  <2> QED BY <1>2, <2>2, <2>5, StillKeepsQ DEF EndsQ
<1>7. CASE dir
  <2>1. PICK n : n = Inode(o)
    OBVIOUS
  <2>2. /\ Room(o) /\ object' = [object EXCEPT ![o] = n]
        /\ data' = IF object[o] = 0 THEN [data EXCEPT ![n] = <<>>] ELSE data
        /\ Stay(p, [At(p, "seekRW") EXCEPT !.fd = n])
    BY <1>3, <1>7, <2>1 DEF OpenRW
  <2>3. /\ n \in 1..MaxInodes /\ n # 0
        /\ \A q \in Objects(program) \ {o} : object[q] # n
        /\ object[o] # 0 => n = object[o]
        /\ object[o] = 0 => \A q \in Procs : proc[q].fd # n
    BY <1>3, <2>1, <2>2, InodeType DEF Inv
  <2>4. PICK b : b = IF object[o] = 0 THEN <<>> ELSE data[n]
    OBVIOUS
  <2>5. Places(o, n, b)
    BY <1>3, <2>2, <2>3, <2>4 DEF Places, Inv, StateOK
  <2>6. a # Unknown /\ c.alone => b = Start(a)
    BY <1>5, <2>3, <2>4 DEF Holds, Start
  <2>7. PICK e : e = [c EXCEPT !.pc = "seekRW"]
    OBVIOUS
  <2>8. PICK d : d = [e EXCEPT !.fd = n]
    OBVIOUS
  <2>9. /\ IsCallOf(p, e) /\ e.pc = "seekRW" /\ e.kind = c.kind /\ e.where = c.where
        /\ e.alone = c.alone /\ Slot(e) = Slot(c) /\ e.stores = c.stores
    BY <1>3, <2>7, AtFields
  <2>10. /\ d.pc = "seekRW" /\ d.kind = c.kind /\ d.fd = n /\ d.where = c.where
         /\ d.alone = c.alone /\ Slot(d) = Slot(c) /\ d.stores = c.stores
    BY <2>8, <2>9 DEF IsCallOf, Slot
  <2>11. SameCallQ(c, d) /\ Shape(d) /\ Disturbs(d)
    BY <1>2, <1>3, <2>10
       DEF SameCallQ, Shape, Disturbs, Writes, SetPcs, RWPcs, PutPcs, XattrPcs, FilePcs
  <2>12. /\ proc' = [proc EXCEPT ![p] = d] /\ last' = last /\ acked' = acked
    BY <1>1, <2>2, <2>7, <2>8 DEF Stay, Goto, At
  <2>13. Facts(d)'
    BY <1>1, <1>4, <2>5, <2>6, <2>10, <2>12 DEF Facts, Places, SetPcs, RWPcs
  <2>14. GoesQ(p)
    BY <1>1, <2>11, <2>12, <2>13 DEF GoesQ, CallQ, Shape
  <2>15. SameFrame(p)
    BY <1>1, <1>2, <1>3, <1>4, <2>5, <2>12, PlacesFrame
  <2> QED BY <1>2, <2>14, <2>15, EndsKeepQ DEF EndsQ
<1> QED BY <1>6, <1>7

(* An increment in place that is alone leaves the old digits and its own.  *)
LEMMA WriteRWQ ==
  ASSUME OneStore, NoTexts, Inv, QInv, NEW p \in Procs, WriteRW(p)
  PROVE  QInv'
<1>1. PICK c, o, a : c = proc[p] /\ o = Slot(c) /\ a = acked[Slot(c)]
  OBVIOUS
<1>2. Active(p) /\ c.pc = "writeRW" /\ c.pc \in RWPcs
  BY <1>1 DEF Active, WriteRW, RWPcs
<1>3. /\ IsCallOf(p, c) /\ Facts(c) /\ o \in Objects(program)
      /\ c.kind = "incrDir" /\ Writes(c) /\ c.fd # 0 /\ IsText(c.text)
      /\ a \in {NULL, Unknown} \/ IsText(a)
  BY <1>1, <1>2, TheSlot, ActiveCall
     DEF Shape, Inv, Writes, IsCallOf, Fits, FdPcs, QInv, AckedOK
<1>4. program' = program /\ setting' = setting /\ object' = object
  BY DEF WriteRW, Inside
<1>5. PICK b : b = WriteAt(data[c.fd], c.len, c.text)
  OBVIOUS
<1>6. Rewrites(o, c.fd, b)
  BY <1>1, <1>2, <1>3, <1>4, <1>5, OpenRewrites DEF WriteRW
<1>7. PICK s : /\ s = CASE a = NULL    -> c.text
                        [] a = Unknown -> Unknown
                        [] OTHER       -> a \o c.text
               /\ Finish(p, c.result, s)
  BY <1>1 DEF WriteRW
<1>8. a # Unknown => s = Start(a) \o c.text /\ IsText(s)
  <2>1. CASE a = NULL
    BY <1>3, <1>7, <2>1, WriteAtStart DEF NoTexts, Start
  <2>2. CASE IsText(a)
    <3>1. a # NULL /\ a # Unknown /\ IsText(a \o c.text)
      BY <1>3, <2>2, WriteAtEnd DEF NoTexts
    <3> QED BY <1>7, <3>1 DEF Start
  <2> QED BY <1>3, <2>1, <2>2
<1>9. a = Unknown => s = Unknown
  BY <1>7 DEF NoTexts
<1>10. ASSUME c.alone, s # Unknown PROVE HoldsNext(o, s)
  <2>1. object[o] = c.fd /\ data[c.fd] = Start(a) /\ c.len = Len(Start(a))
    BY <1>1, <1>2, <1>3, <1>9, <1>10 DEF Facts
  <2>2. IsText(Start(a))
    BY <1>3, <1>9, <1>10, StartIsText
  <2>3. b = s
    BY <1>3, <1>5, <1>8, <1>9, <1>10, <2>1, <2>2, WriteAtEnd
  <2> QED BY <1>3, <1>6, <1>8, <1>9, <1>10, <2>1, <2>3 DEF HoldsNext, Rewrites, NoTexts
<1>11. s \in {NULL, Unknown} \/ IsText(s)
  BY <1>8, <1>9
<1>12. ReturnsQ(p)
  BY <1>1, <1>3, <1>7, <1>10, <1>11 DEF ReturnsQ, AnswerQ
<1>13. /\ acked' = [q \in Objects(program) |-> acked'[q]]
       /\ \A q \in Objects(program) \ {o} : acked'[q] = acked[q]
  BY <1>1, <1>7, FinishFrame
<1>14. SameFrame(p)
  BY <1>1, <1>2, <1>3, <1>4, <1>6, <1>13, RewritesFrame
<1> QED BY <1>2, <1>12, <1>14, EndsKeepQ DEF EndsQ

----------------------------------------------------------------------------
(* A call begins; a program starts.                                        *)

LEMMA BeginQ ==
  ASSUME OneStore, Inv, QInv, NEW p \in Procs, NEW b \in program.ops[p], Begin(p, b)
  PROVE  QInv'
<1>1. /\ program' = program /\ setting' = setting /\ object' = object
      /\ data' = data /\ last' = last /\ acked' = acked
  BY DEF Begin, fsys
<1>2. ~Active(p)
  BY DEF Begin, Active
<1>3. PICK c : c = Begun(p, b)
  OBVIOUS
<1>4. /\ proc'[p] = c /\ c.kind = b.kind /\ c.stores = b.stores /\ c.where = "plain"
      /\ c.fd = 0 /\ Slot(c) = Slot(b) /\ Writes(c) = Writes(b)
      /\ c.alone <=> \A q \in Others(p, b) : ~Writes(proc[q])
  BY <1>3 DEF Begin, Begun, Slot, Writes
<1>5. Shape(c) /\ Unknowing(c.pc) /\ c.pc \notin {"value", "openXattr", "read", "seek", "walk"}
  <2>1. IsCall(b) /\ Cardinality(b.stores) = 1
    BY ProgramsAssumption DEF Inv, StateOK, IsProgram, OneStore
  <2>2. b.stores \in {{"file"}, {"xattr"}}
    BY <2>1, OneStoreSets DEF IsCall
  <2>3. /\ b.stores = {"file"} => FirstRead(b.stores) = "open"
        /\ b.stores = {"xattr"} => FirstRead(b.stores) = "size"
    BY DEF FirstRead
  <2>4. \/ c.pc = "open" /\ b.stores = {"file"}
        \/ c.pc = "size" /\ b.stores = {"xattr"}
        \/ c.pc = "find" /\ c.kind \in {"put", "putInt"}
        \/ c.pc = "openRW" /\ c.kind = "incrDir" /\ b.stores = {"file"}
        \/ c.pc = "nullDir" /\ c.kind = "incrInFile"
        \/ c.pc \in {"check", "locate"}
    BY <1>3, <2>1, <2>2, <2>3 DEF Begun, IsCall
  <2> QED BY <1>4, <2>4 DEF Shape, Unknowing, SetPcs, RWPcs, PutPcs, XattrPcs, FilePcs
<1>6. Facts(c)'
  BY <1>4, <1>5 DEF Facts, Unknowing, RWPcs
<1>7. ASSUME NEW q \in Procs \ {p}
      PROVE  /\ Active(q)' <=> Active(q)
             /\ Active(q) => /\ Slot(proc'[q]) = Slot(proc[q])
                             /\ Writes(proc'[q]) = Writes(proc[q])
                             /\ proc'[q].alone => /\ proc[q].alone
                                                  /\ Slot(proc[q]) = Slot(c) => ~Writes(c)
                             /\ Disturbs(proc[q]) => Disturbs(proc'[q])
                             /\ CallQ(proc[q])'
  <2>1. PICK e, d : e = proc[q] /\ d = proc'[q]
    OBVIOUS
  <2>2. /\ d = IF q \in Others(p, b) /\ Writes(b) THEN [e EXCEPT !.alone = FALSE] ELSE e
        /\ q \in Others(p, b) <=> Active(q) /\ Slot(e) = Slot(b)
    BY <2>1 DEF Begin, Others, Active
  <2>3. CASE ~Active(q)
    BY <2>1, <2>2, <2>3 DEF Active
  <2>4. CASE Active(q)
    <3>1. CallQ(e) /\ IsCallOf(q, e)
      BY <2>1, <2>4, ActiveCall DEF QInv, AllQ, Inv, CallOK
    <3>2. /\ d.kind = e.kind /\ d.stores = e.stores /\ d.attr = e.attr /\ d.pc = e.pc
          /\ d.where = e.where /\ d.fd = e.fd /\ d.len = e.len
          /\ d.alone => e.alone /\ (Slot(e) = Slot(b) => ~Writes(b))
          /\ ~e.alone => ~d.alone
      BY <2>2, <2>4, <3>1 DEF IsCallOf
    <3>3. Slot(d) = Slot(e) /\ Writes(d) = Writes(e)
      BY <3>2 DEF Slot, Writes
    <3>4. Disturbs(e) => Disturbs(d)
      BY <3>2, <3>3 DEF Disturbs
    <3>5. CallQ(d)
      BY <3>1, <3>2, <3>3 DEF CallQ, Shape, Facts
    <3>6. CallQ(d)'
      BY <1>1, <3>5 DEF CallQ, Shape, Facts
    <3>7. CallQ(proc[q])'
      BY <2>1, <3>6 DEF CallQ, Shape, Facts
    <3>8. Active(q)'
      BY <2>1, <2>4, <3>2 DEF Active
    <3> QED BY <1>4, <2>1, <2>4, <3>2, <3>3, <3>4, <3>7, <3>8
  <2> QED BY <2>3, <2>4
<1>8. AllQ'
  <2>1. CallQ(proc[p])'
    BY <1>4, <1>5, <1>6 DEF CallQ, Shape, Facts
  <2> QED BY <1>7, <2>1 DEF AllQ
<1>9. AloneOK'
  <2> SUFFICES ASSUME NEW x \in Procs, NEW y \in Procs, x # y, Active(x)', Active(y)',
                      Slot(proc'[x]) = Slot(proc'[y]), proc'[x].alone
               PROVE  ~Writes(proc'[y])
    BY DEF AloneOK
  <2>1. CASE x = p
    <3>1. y \in Procs \ {p} /\ Active(y) /\ Slot(proc[y]) = Slot(b)
      BY <1>4, <1>7, <2>1
    <3>2. y \in Others(p, b)
      BY <3>1 DEF Others, Active
    <3> QED BY <1>4, <1>7, <2>1, <3>1, <3>2
  <2>2. CASE y = p
    BY <1>4, <1>7, <2>2
  <2>3. CASE x # p /\ y # p
    <3>1. /\ Active(x) /\ Active(y) /\ Slot(proc[x]) = Slot(proc[y]) /\ proc[x].alone
          /\ Writes(proc'[y]) = Writes(proc[y])
      BY <1>7, <2>3
    <3>2. ~Writes(proc[y])
      BY <3>1 DEF QInv, AloneOK
    <3> QED BY <3>1, <3>2
  <2> QED BY <2>1, <2>2, <2>3
<1>10. SlotsOK'
  <2> SUFFICES ASSUME NEW o \in Objects(program), acked[o] # Unknown, Calm(o)'
               PROVE  Holds(o, acked[o])
    BY <1>1 DEF SlotsOK, Holds
  <2>1. Calm(o)
    <3> SUFFICES ASSUME NEW q \in Procs, Active(q), Slot(proc[q]) = o
                 PROVE  ~Disturbs(proc[q])
      BY DEF Calm
    <3>1. q # p
      BY <1>2
    <3>2. Active(q)' /\ Slot(proc'[q]) = o /\ (Disturbs(proc[q]) => Disturbs(proc'[q]))
      BY <1>7, <3>1
    <3>3. ~Disturbs(proc'[q])
      BY <3>2 DEF Calm
    <3> QED BY <3>2, <3>3
  <2> QED BY <2>1 DEF QInv, SlotsOK
<1>11. AckedOK' /\ LastQ'
  BY <1>1 DEF QInv, AckedOK, LastQ
<1> QED BY <1>8, <1>9, <1>10, <1>11 DEF QInv

LEMMA InitQ ==
  ASSUME NoTexts, Init
  PROVE  QInv
<1>1. proc = [p \in Procs |-> Idle] /\ last = NULL
  BY DEF Init
<1>2. \A p \in Procs : ~Active(p)
  BY <1>1 DEF Active, Idle
<1>3. AllQ /\ AloneOK /\ LastQ
  BY <1>1, <1>2 DEF AllQ, AloneOK, LastQ
<1>4. ASSUME NEW o \in Objects(program)
      PROVE  /\ acked[o] \in {NULL, Unknown} \/ IsText(acked[o])
             /\ Holds(o, acked[o])
  <2>1. CASE object[o] = 0
    <3>1. acked[o] = NULL
      BY <2>1, InitAttrs
    <3> QED BY <2>1, <3>1 DEF Holds
  <2>2. CASE object[o] # 0
    <3>1. /\ acked[o] = program.seed[o] /\ data[object[o]] = program.seed[o]
          /\ IsText(program.seed[o])
      BY <2>2, InitAttrs
    <3> QED BY <2>2, <3>1 DEF Holds, NoTexts
  <2> QED BY <2>1, <2>2
<1>5. acked = [o \in Objects(program) |-> acked[o]]
  BY InitAttrs
<1> QED BY <1>3, <1>4, <1>5 DEF QInv, SlotsOK, AckedOK

LEMMA NextQ ==
  ASSUME OneStore, NoTexts, Inv, QInv, [Next]_vars
  PROVE  QInv'
<1>1. CASE UNCHANGED vars
  <2>1. /\ program' = program /\ setting' = setting /\ object' = object /\ data' = data
        /\ proc' = proc /\ last' = last /\ acked' = acked
    BY <1>1 DEF vars, fsys
  <2>2. AllQ'
    <3> SUFFICES ASSUME NEW p \in Procs, Active(p)' PROVE CallQ(proc[p])'
      BY DEF AllQ
    <3>1. CallQ(proc[p])
      BY <2>1 DEF Active, QInv, AllQ
    <3> QED BY <2>1, <3>1 DEF CallQ, Shape, Facts
  <2>3. AloneOK' /\ AckedOK' /\ LastQ'
    BY <2>1 DEF QInv, AloneOK, AckedOK, LastQ, Active
  <2>4. SlotsOK'
    BY <2>1 DEF QInv, SlotsOK, Calm, Active, Holds
  <2> QED BY <2>2, <2>3, <2>4 DEF QInv
<1>2. ASSUME NEW p \in Procs, NEW c \in program.ops[p], Begin(p, c) PROVE QInv'
  BY <1>2, BeginQ
<1>3. ASSUME NEW p \in Procs, Get(p) PROVE QInv'
  BY <1>3, NoStoreQ, XattrSizeQ, XattrValueQ, OpenQ, SeekQ, ReadQ, WalkQ DEF Get
<1>4. ASSUME NEW p \in Procs, Put(p) PROVE QInv'
  BY <1>4, NoStoreQ, FindPlaceQ, MakeDirQ, SetXattrQ, TruncateQ, WriteQ DEF Put
<1>5. ASSUME NEW p \in Procs, IncrDir(p) PROVE QInv'
  BY <1>5, OpenRWQ, SeekRWQ, ReadRWQ, WriteRWQ, NullDirQ DEF IncrDir
<1>6. ASSUME NEW p \in Procs, Check(p) \/ Locate(p) \/ DeleteAttr(p) \/ Crash(p) PROVE QInv'
  BY <1>6, CheckQ, LocateQ, DeleteAttrQ, CrashQ
<1> QED BY <1>1, <1>2, <1>3, <1>4, <1>5, <1>6 DEF Next

----------------------------------------------------------------------------
(* A call that no write of the same attribute overlaps answers by what the *)
(* last write has left, on every platform and at every place: iGet returns *)
(* that text and iIsExists says whether there is one, although both take   *)
(* several system calls, other attributes are written meanwhile, writes    *)
(* fail and processes die.  Every call works on one store here.            *)
THEOREM OneStoreAnswers ==
  ASSUME OneStore, NoTexts
  PROVE  Spec => []QuietAnswers
<1>1. Inv /\ QInv => QuietAnswers
  BY DEF QInv, LastQ, AnswerQ, QuietAnswers
<1>2. Init => Inv /\ QInv
  BY InitInv, InitQ
<1>3. Inv /\ QInv /\ [Next]_vars => (Inv /\ QInv)'
  BY NextKeeps, NextQ
<1> QED BY <1>1, <1>2, <1>3, PTL DEF Spec
=============================================================================
