---------------------------- MODULE MCStoreProcs ----------------------------
(***************************************************************************)
(* Instances of StoreProcs for TLC.                                        *)
(***************************************************************************)
EXTENDS StoreProcs

MCChar == {"a", "b", "c", "d", "e"}

ac  == <<<<"a", "c">>>>
ad  == <<<<"a", "d">>>>
ae  == <<<<"a", "e">>>>
b   == <<<<"b">>>>
abc == <<<<"a", "b", "c">>>>
abd == <<<<"a", "b", "d">>>>
e   == <<<<"e">>>>
ec  == <<<<"e">>, <<"a", "c">>>>
ed  == <<<<"e">>, <<"a", "d">>>>
acb == <<<<"a", "c">>, <<"b">>>>

AllKeys == {ac, ad, ae, b, abc, abd, e, ec, ed, acb}

\* Values of different lengths, so that one does not cover the other.
Short == <<1>>
Long  == <<2, 2>>
Other == <<3>>
AllValues == {Short, Long, Other}

P1 == "p1"
P2 == "p2"
P3 == "p3"
ThreeProcs == {P1, P2, P3}

Do(op, ks) == {[op |-> op, key |-> k] : k \in ks}
Nothing    == [p \in ThreeProcs |-> {}]
All(vs)    == [k \in AllKeys |-> vs]

\* Two processes do everything to one key, while one of them also puts
\* another that competes for its place.
Everything(ks) == Do("iPut", ks) \cup Do("iGet", ks)
                    \cup Do("iDelete", ks) \cup Do("iKeyDelete", ks)
Shared == [ops |-> [Nothing EXCEPT ![P1] = Do("iPut", {ac}) \cup Everything({ad}),
                                   ![P2] = Everything({ad})],
           values |-> All({Short, Long}), full |-> "dkIgnored", calls |-> 2, crashes |-> 0]

\* They put and remove three names that compete for the same levels.
Pages == [ops |-> [Nothing EXCEPT ![P1] = Do("iPut", {ac, ad}) \cup Do("iKeyDelete", {ac}),
                                  ![P2] = Do("iPut", {ac, ae})],
          values |-> All({Short}), full |-> "dkStopped", calls |-> 2, crashes |-> 1]

\* One process has abc for itself; the other makes and empties the levels
\* it walks through.
Private == [ops |-> [Nothing EXCEPT
                       ![P1] = Do("iPut", {abc}) \cup Do("iGet", {abc}),
                       ![P2] = Do("iPut", {abd, b}) \cup Do("iKeyDelete", {abd})],
            values |-> [All({Short}) EXCEPT ![abc] = {Short, Other}], full |-> "dkIgnored", calls |-> 3, crashes |-> 0]

\* Two writers of one key, and a process that makes and removes another.
Acks == [ops |-> [Nothing EXCEPT
                    ![P1] = Do("iPut", {ac}),
                    ![P2] = Do("iPut", {ac}),
                    ![P3] = Do("iPut", {ad}) \cup Do("iKeyDelete", {ad})],
         values |-> All({Short}), full |-> "dkIgnored", calls |-> 2, crashes |-> 0]

\* One writer that may crash, and a reader.
Reader == [ops |-> [Nothing EXCEPT ![P1] = Do("iPut", {ac}), ![P2] = Do("iGet", {ac})],
           values |-> All({Short, Long}), full |-> "dkIgnored", calls |-> 3, crashes |-> 1]

\* A key is deleted with its subkeys, while others put and get these.
Family == [ops |-> [Nothing EXCEPT
                      ![P1] = Do("iPut", {e, ec}) \cup Do("iKeyDelete", {e}),
                      ![P2] = Do("iPut", {ed}) \cup Do("iGet", {ec})],
           values |-> All({Short}), full |-> "dkIgnored", calls |-> 3, crashes |-> 0]

\* A key that may be in a level gets a subkey, and its unpartitioned
\* directory with it.
Parent == [ops |-> [Nothing EXCEPT
                      ![P1] = Do("iPut", {ac}) \cup Do("iGet", {ac}) \cup Do("iKeyDelete", {ac}),
                      ![P2] = Do("iPut", {acb, ad})],
           values |-> [All({Short}) EXCEPT ![ac] = {Short, Other}], full |-> "dkIgnored", calls |-> 3, crashes |-> 0]

\* The properties look at the last call if it was a get or a recursive delete;
\* a file that is made anew is empty, whatever its inode held.
ButPuts == <<program, dirs, file, [n \in InUse \ {0} |-> data[n]], proc, calls, crashes, tried, acked,
             IF last.op \in {"iGet", "iKeyDelete"} THEN last ELSE NoValue>>

SafetyPrograms == {Family, Parent, Shared, Pages, Private, Acks, Reader}

\* Calls of every kind, while the level they look through fills and empties.
Live == [ops |-> [Nothing EXCEPT
                    ![P1] = Do("iPut", {ac, ad}) \cup Do("iKeyDelete", {ad}),
                    ![P2] = Do("iPut", {ad}) \cup Do("iGet", {ad})
                              \cup Do("iDelete", {ac, ad})],
         values |-> All({Short}), full |-> "dkIgnored", calls |-> 2, crashes |-> 1]
LiveFamily == [ops |-> [Nothing EXCEPT
                          ![P1] = Do("iPut", {ec}) \cup Do("iKeyDelete", {e}),
                          ![P2] = Do("iPut", {ed}) \cup Do("iKeyDelete", {e})],
               values |-> All({Short}), full |-> "dkIgnored", calls |-> 2, crashes |-> 0]
LivePrograms == {Live, LiveFamily}

\* Writers of longer names.
LongNames ==
  [ops |-> [Nothing EXCEPT ![P1] = Do("iPut", {abc}),
                           ![P2] = Do("iPut", {abc, abd}),
                           ![P3] = Do("iPut", {b, abd})],
   values |-> All({Short}), full |-> "dkIgnored", calls |-> 1, crashes |-> 0]
LongPrograms == {LongNames}

=============================================================================
