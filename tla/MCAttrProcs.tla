---------------------------- MODULE MCAttrProcs ----------------------------
(***************************************************************************)
(* Instances of AttrProcs for TLC.                                         *)
(***************************************************************************)
EXTENDS AttrProcs

P1 == "p1"
P2 == "p2"
TwoProcs == {P1, P2}

Short == <<"1">>
Long  == <<"2", "2">>
X     == <<"x">>
DotX  == <<".", "x">>
Count == <<".", "count">>

Platforms == {"linux", "bsd", "sun", "mac"}
APath     == <<"d", "b", "/", "k">>
OddPath   == <<"1", "0", "/", "k">>
On(pls, places, path) ==
  {[platform |-> pl, paged |-> q[1], depth |-> q[2], path |-> path] :
     pl \in pls, q \in places}
AllPlaces == {<<FALSE, 0>>, <<TRUE, 0>>, <<TRUE, 1>>, <<TRUE, 2>>}

Both == {"file", "xattr"}

\* Everything that reads and writes texts.
Texts(st, names) ==
  UNION {{iGet(a, st), iIsExists(a, st), iDelete(a, st), iPut(a, Short, st), iPut(a, Long, st)} :
           a \in names}
InFile(a)  == {iGetInFile(a), iIsExistsInFile(a), iDeleteInFile(a),
               iPutInFile(a, Short), iPutInFile(a, Long)}
InXattr(a) == {iGetInXattr(a), iIsExistsInXattr(a), iDeleteInXattr(a),
               iPutInXattr(a, Short), iPutInXattr(a, Long)}

OnlyP1(cs) == [p \in TwoProcs |-> IF p = P1 THEN cs ELSE {}]
Each(cs)   == [p \in TwoProcs |-> cs]
Plain      == {<<FALSE, 0>>}
Mixed      == {<<FALSE, 0>>, <<TRUE, 1>>}

Base == [dir |-> FALSE, seed |-> <<>>, counts |-> FALSE, start |-> 0,
         crashes |-> 0, faults |-> 0]

\* One process does everything to one or two attributes.
AloneIn(cs, n) ==
  [ops |-> OnlyP1(cs), settings |-> On({"linux", "sun"}, AllPlaces, APath),
   calls |-> 3, faults |-> n] @@ Base

\* Two processes read and write one attribute.
Shared(cs) ==
  [ops |-> Each(cs), settings |-> On(Platforms, Mixed, APath), calls |-> 2, crashes |-> 1]
    @@ Base

\* Two processes count, from 8 on.
Counting ==
  [ops |-> Each({iIncr(NULL, {"xattr"})}), settings |-> On(Platforms, Mixed, APath),
   calls |-> 2, dir |-> TRUE, counts |-> TRUE, start |-> 8,
   seed |-> (<<"xattr", <<"value">>>> :> <<"8">>)] @@ Base

\* One process puts and counts numbers.
Numbers(st) ==
  [ops |-> OnlyP1({iPutInt(NULL, 7, st), iIncr(NULL, st), iDecr(NULL, st),
                   iGetInt(NULL, st), iPutInt(Count, 7, st), iGetCount(st)}),
   settings |-> On({"linux"}, AllPlaces, APath), calls |-> 4] @@ Base

\* IncrByDirValue below two paths, and iIncrByInFile, which dies.
InPlace ==
  [ops |-> Each({IncrByDirValue(X, 1), iIncrByInFile(X, 1), iGetInFile(X)}),
   settings |-> On({"linux"}, Plain, APath) \cup On({"linux"}, Plain, OddPath),
   calls |-> 2, dir |-> TRUE] @@ Base

AnyPrograms ==
  {AloneIn(Texts({}, {NULL}), 0), AloneIn(UNION {InFile(a) : a \in {NULL, <<>>, X, DotX}}, 0),
   AloneIn(UNION {InXattr(a) : a \in {NULL, <<>>, X, DotX}}, 0),
   AloneIn(Texts(Both, {X, DotX}), 1), Shared(InXattr(X)), Shared(Texts(Both, {X})),
   Counting, Numbers({"file"}), Numbers({"xattr"}), InPlace}

CounterPrograms == {Numbers({"file"}), Numbers({"xattr"})}

=============================================================================
