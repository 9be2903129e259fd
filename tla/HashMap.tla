------------------------------- MODULE HashMap --------------------------------
(***************************************************************************)
(* The hash map of structures/hash_map.c as a state machine.  Every        *)
(* operation holds the map's mutex from beginning to end, so each is one   *)
(* action; hash_map_get changes nothing and is the operators Found and     *)
(* ValuesOf of HashMapOps.                                                 *)
(***************************************************************************)
EXTENDS HashMapOps

CONSTANTS
  Keys,       \* the keys in use
  Values,     \* the values
  MaxValues   \* bound on the number of values of one entry

ASSUME KeysAssumption == Keys \subseteq Strings
ASSUME MaxValuesAssumption == MaxValues \in Nat \ {0}

VARIABLES
  map,        \* hm->entries
  ret         \* what the last operation returned

mapVars == <<map, ret>>

MapInit == map = EmptyMap /\ ret = TRUE

Set(key, value) ==
  /\ Found(map, key) => Len(ValuesOf(map, key)) < MaxValues
  /\ map' = AfterSet(map, key, value)
  /\ ret' = TRUE

Remove(key) ==
  /\ map' = AfterRemove(map, key)
  /\ ret' = RemoveFinds(map, key)

\* Mutant: a value that is not there is reported as removed.
RemoveValueAlwaysTrue(key, value) ==
  /\ map' = AfterRemoveValue(map, key, value)
  /\ ret' = TRUE

RemoveValue(key, value) ==
  /\ map' = AfterRemoveValue(map, key, value)
  /\ ret' = RemoveValueResult(map, key, value)

MapNext ==
  \E key \in Keys :
    \/ Remove(key)
    \/ \E value \in Values : Set(key, value) \/ RemoveValue(key, value)

MapSpec == MapInit /\ [][MapNext]_mapVars

-------------------------------------------------------------------------------
(* Properties *)

Entry == [key : Keys, value : Seq(Values)]

\* Type invariant of struct hash_map; a row that is not live has no entries.
MapTypeOK ==
  /\ map \in [0..(Rows - 1) -> [live : BOOLEAN, entries : Seq(Entry)]]
  /\ \A r \in DOMAIN map : ~map[r].live => map[r].entries = <<>>
  /\ ret \in BOOLEAN

\* hash_map_remove succeeds on every key that is stored and whose hash fits an
\* int, and leaves no value of it.
SmallKeysAreRemoved ==
  [][\A key \in Keys :
       Remove(key) /\ Found(map, key) /\ FitsInt(key) => ret' /\ ~Found(map', key)]_mapVars

\* With keys of which none is the beginning of another, the map is a table from
\* keys to bags of values, and collisions do not show.
Table == INSTANCE TopicTable WITH
  known <- {key \in Keys : Found(map, key)},
  count <- [key \in Keys |-> [v \in Values |->
              IF Found(map, key) THEN Occurrences(ValuesOf(map, key), v) ELSE 0]],
  ok    <- ret

ImplementsTable == Table!TableSpec
===============================================================================
