---------------------------- MODULE MCSubkeyList ----------------------------
(***************************************************************************)
(* Instances of SubkeyList for TLC.                                        *)
(***************************************************************************)
EXTENDS SubkeyList

MCChar == {"a", "b", "c", "d"}

b   == <<"b">>
ac  == <<"a", "c">>
ad  == <<"a", "d">>
abc == <<"a", "b", "c">>

\* Names that compete for two levels, and a subkey, whose put makes a
\* second directory of its parent.
MCKeys == {<<b>>, <<ac>>, <<ad>>, <<abc>>, <<ac, b>>}

OneValue   == {1}
OneValueOf == [K \in MCKeys |-> OneValue]

MCCalls == { [pat |-> NoPattern,   skip |-> 0, count |-> 0],
             [pat |-> NoPattern,   skip |-> 0, count |-> 1],
             [pat |-> NoPattern,   skip |-> 1, count |-> 1],
             [pat |-> NoPattern,   skip |-> 2, count |-> 0],
             [pat |-> <<"a", "*">>, skip |-> 0, count |-> 0],
             [pat |-> ac,          skip |-> 0, count |-> 0] }

\* One order of the names that can occur in a directory, and its reverse.
Order    == << <<"a">>, b, <<"c">>, <<"d">>, ac, ad, abc, <<"b", "c">> >>
MCOrders == {Order, Reverse(Order)}

\* Every property speaks of the last call as the action sees it.
ListTree == <<fs, options, IDBDuplicationKeyProcess>>
=============================================================================
