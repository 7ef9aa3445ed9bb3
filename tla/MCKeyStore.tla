----------------------------- MODULE MCKeyStore -----------------------------
(***************************************************************************)
(* Instances of KeyStore for TLC: three characters, names of one to three  *)
(* of them, so that a name can be placed at up to three levels.            *)
(***************************************************************************)
EXTENDS KeyStore

MCChar == {"a", "b", "c"}

a   == <<"a">>
b   == <<"b">>
ac  == <<"a", "c">>
abc == <<"a", "b", "c">>

\* "a" is a leading part of the other names, and one key has a subkey.
AnyKeys == {<<a>>, <<ac>>, <<abc>>, <<ac, b>>}

\* No name is a leading part of another; two share their first character.
FlatKeys   == {<<ac>>, <<abc>>, <<b>>}
NestedKeys == {<<ac>>, <<abc>>, <<ac, b>>}
CleanKeys  == FlatKeys \cup NestedKeys

\* Values that tell which key they were put to.
Marks          == {1, 2}
MarkedValues   == Keys \X Marks
MarkedValuesOf == [K \in Keys |-> {K} \X Marks]
OneValueOf     == [K \in Keys |-> {K} \X {1}]

\* Every property checked with this view speaks of the last call as the
\* action sees it, so that states that differ in it only need not be told
\* apart.
Tree == <<fs, options>>
=============================================================================
