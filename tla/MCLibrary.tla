----------------------------- MODULE MCLibrary -----------------------------
(***************************************************************************)
(* Instances of Library for TLC.                                           *)
(***************************************************************************)
EXTENDS Library

H1 == "h1"
H2 == "h2"
TwoHandles == {H1, H2}
DotNames   == {".h", ".value"}

Nodes(dirs) == [p \in dirs \cup {<<>>} |-> DirNode]

\* Every option set the code asks for, and one that lists lost links.
Options == {LIST_NORMAL_DIRS, LIST_NORMAL_FILES, LIST_HIDDEN_DIRS, LIST_ALL_FILES,
            LIST_DIRS \cup LIST_FILES \cup {"SYMBOLIC_NONE"}}

Base == [options |-> {}, texts |-> {<<>>}, others |-> {}, tree |-> Nodes({})]

----------------------------------------------------------------------------
Force1(xs)  == {[op |-> "ForceDirectories", path |-> x] : x \in xs}
Create1(xs) == {[op |-> "open_or_create_file", path |-> x] : x \in xs}
Delete1(xs) == {[op |-> "DeleteDir", path |-> x] : x \in xs}
Move1(xs, ys) == {[op |-> "MoveDir", path |-> x, dest |-> y] : x \in xs, y \in ys}
Alias1(ds, ks, as) ==
  {[op |-> "iKeyAlias", path |-> d, key |-> k, alias |-> a] : d \in ds, k \in ks, a \in as}

D   == <<"d">>
E   == <<"e">>
L   == <<"l">>
DE  == <<"d", "/", "e">>
DL  == <<"d", "/", "l">>
EL  == <<"e", "/", "l">>
LE  == <<"l", "/", "e">>

\* Directories, files and links that are made, moved and removed.
Trees ==
  [tree |-> Nodes({<<"d">>}), options |-> Options, calls |-> 3,
   ops |-> Force1({E, LE, <<"d", "/", "/", "e", "/">>, <<"/", "d", "/", ".h">>,
                   <<"d", "/", "..", "/", "e">>, L})
           \cup Create1({DE, L, EL, <<"d", "/", ".h">>})
           \cup Alias1({<<>>}, {E, D, DE}, {L, DL, EL})
           \cup Move1({D, DE, E}, {E, L, DL})
           \cup Delete1({D, L, LE, E})] @@ Base

\* Aliases of every shape in a deeper tree.
Aliases ==
  [tree |-> Nodes({<<"d">>, <<"d", "e">>, <<"d", "e", "x">>, <<"d", "d">>, <<"e">>}),
   calls |-> 2,
   ops |-> Alias1({<<>>, D, <<"/">>, <<"d", "/">>},
                  {E, DE, <<"e", "/", "x">>, D, <<"/", "e">>, <<"d", "/", "e", "/">>, <<"d", "/", "/", "e">>},
                  {L, DL, EL, <<"e", "/", "x", "/", "l">>, <<"d", "/", "e", "/", "l">>,
                   <<"d", "/", "/", "l">>, <<"/", "l">>, <<"e", "/">>, <<"d", "/">>})] @@ Base

----------------------------------------------------------------------------
ValueOf(v) == FileNode(v)
Stores ==
  Nodes({<<"s">>, <<"s", "k">>, <<"s", "k", "a">>, <<"s", "k", "b">>, <<"t">>, <<"t", "k">>,
         <<"s", "s">>, <<"s", "s", "k">>})
    @@ [p \in {<<"s", "k", ".value">>} |-> ValueOf(1)]
    @@ [p \in {<<"t", "k", ".value">>} |-> ValueOf(2)]
    @@ [p \in {<<"s", "s", "k", ".value">>} |-> ValueOf(3)]

K == <<"k">>

\* Two handles on two stores; one of the stores can also be named from where
\* the program is, and there is another of that name in it.
HandleProgram ==
  [tree |-> Stores, calls |-> 8,
   ops |-> UNION {
     {[op |-> "New", h |-> h], [op |-> "Free", h |-> h], [op |-> "Close", h |-> h],
      [op |-> "SetOpened", h |-> h, to |-> TRUE], [op |-> "SetOpened", h |-> h, to |-> FALSE],
      [op |-> "GetString", h |-> h, key |-> K], [op |-> "PutString", h |-> h, key |-> K],
      [op |-> "IncrBy", h |-> h, key |-> K],
      [op |-> "Subkeys", h |-> h, key |-> K, page |-> 0, size |-> 0],
      [op |-> "Subkeys", h |-> h, key |-> K, page |-> 1, size |-> 1]}
     \cup {[op |-> "Open", h |-> h, path |-> x] : x \in {<<"/", "s">>, <<"/", "t">>, <<"s">>}} :
     h \in TwoHandles}] @@ Base

----------------------------------------------------------------------------
\* "%", "A", "b", "/", " ", "4" and a byte that is not ASCII.
Bytes == {37, 65, 98, 47, 32, 52, 200}
ShortTexts == {<<>>} \cup [1..1 -> Bytes] \cup [1..2 -> Bytes]

\* "%41%", "%u4142", "%u41424344", "%U41 ", " -4.5K", "-9", "2.5", "-16 E", "63"
OddTexts == {<<37, 52, 49, 37>>, <<37, 117, 52, 49, 52, 50>>,
             <<37, 117, 52, 49, 52, 50, 52, 51, 52, 52>>, <<37, 85, 52, 49, 32>>,
             <<32, 45, 52, 46, 53, 75>>, <<45, 57>>, <<50, 46, 53>>, <<45, 49, 54, 32, 69>>,
             <<54, 51>>}

TextProgram ==
  [texts |-> ShortTexts \cup OddTexts, calls |-> 3,
   others |-> {<<>>, <<65>>, <<97>>, <<98, 65>>, <<37, 52>>, <<200>>},
   ops |-> {[op |-> "UrlDecode"], [op |-> "strToUpperCase"], [op |-> "strToLowerCase"],
            [op |-> "strTrim"], [op |-> "UrlEncode", unsafe |-> {}],
            [op |-> "UrlEncode", unsafe |-> {32, 47}], [op |-> "UrlEncode", unsafe |-> {65, 98}],
            [op |-> "strReplaceChars", search |-> <<47, 65>>, new |-> <<98>>]}] @@ Base

AnyPrograms == {Trees, Aliases, HandleProgram, TextProgram}

\* Every property speaks of the last call as the action sees it.
ButLast == <<program, tree, cwd, handle, alive, buffer, calls, start, coded, lastPath,
             IF alive = "yes" THEN NULL ELSE last>>
=============================================================================
