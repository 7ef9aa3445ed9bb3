------------------------------ MODULE KVStore ------------------------------
(***************************************************************************)
(* What iDB promises of a hierarchical key/value store with one value      *)
(* attribute per key: a key that is put exists together with its           *)
(* ancestors, a get returns the last value put and not deleted since,      *)
(* deleting a key takes its subkeys along, and no call touches another     *)
(* key.  The specification knows nothing of directories and partitions.    *)
(***************************************************************************)
EXTENDS Integers, SequencesExt

CONSTANTS
  Keys,      \* the key paths used
  Values,    \* the values put
  NoFile     \* the value of a key without a value attribute

VARIABLES
  keys,      \* the keys that exist
  kv,        \* the value of every key
  last       \* the last call and its result

vars == <<keys, kv, last>>

\* The outcome of iPut when the partitions are full.
PartFull == -100

Init == /\ keys = {}
        /\ kv = [K \in Keys |-> NoFile]
        /\ last = [op |-> "none"]

Put(K, v) ==
  /\ keys' = keys \cup {J \in Keys : IsPrefix(J, K)}
  /\ kv' = [kv EXCEPT ![K] = v]
  /\ last' = [op |-> "iPut", key |-> K, val |-> v, ret |-> 0]

PutRefused(K, v) ==
  /\ last' = [op |-> "iPut", key |-> K, val |-> v, ret |-> PartFull]
  /\ UNCHANGED <<keys, kv>>

Get(K) == /\ last' = [op |-> "iGet", key |-> K, ret |-> kv[K]]
          /\ UNCHANGED <<keys, kv>>

IsExists(K) ==
  /\ last' = [op |-> "iIsExists", key |-> K, ret |-> kv[K] # NoFile]
  /\ UNCHANGED <<keys, kv>>

KeyIsExists(K) ==
  /\ last' = [op |-> "iKeyIsExists", key |-> K, ret |-> K \in keys]
  /\ UNCHANGED <<keys, kv>>

Delete(K) ==
  /\ kv' = [kv EXCEPT ![K] = NoFile]
  /\ last' = [op |-> "iDelete", key |-> K, ret |-> kv[K] # NoFile]
  /\ UNCHANGED keys

KeyDelete(K) ==
  /\ keys' = {J \in keys : ~IsPrefix(K, J)}
  /\ kv' = [J \in Keys |-> IF IsPrefix(K, J) THEN NoFile ELSE kv[J]]
  /\ last' = [op |-> "iKeyDelete", key |-> K, ret |-> K \in keys]

Next == \E K \in Keys :
          \/ \E v \in Values : Put(K, v) \/ PutRefused(K, v)
          \/ Get(K)
          \/ IsExists(K)
          \/ KeyIsExists(K)
          \/ Delete(K)
          \/ KeyDelete(K)

Spec == Init /\ [][Next]_vars
=============================================================================
