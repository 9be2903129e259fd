------------------------------ MODULE HashMapOps ------------------------------
(***************************************************************************)
(* structures/hash_map.c as operators on a value of the map, for the       *)
(* modules that have one in their state.                                   *)
(*                                                                         *)
(* A map is an array of Rows rows; a row is an array of entries that is    *)
(* allocated (live) by the first hash_map_set that reaches it; an entry    *)
(* has a key and the values set under it.  Keys are C strings, here        *)
(* sequences of character codes without 0.  Memory is taken not to run out.*)
(***************************************************************************)
EXTENDS Arrays

LOCAL INSTANCE SequencesExt

CONSTANTS
  Rows,       \* number of rows: 1000
  HashSize,   \* number of values of unsigned long and size_t: 2^64
  IntSize     \* number of values of int: 2^32

ASSUME RowsAssumption == Rows \in Nat \ {0}
ASSUME SizeAssumption == IntSize \in Nat \ {0} /\ HashSize \in Nat /\ IntSize <= HashSize

\* Keys are strings of characters, of a signed char, other than the one that ends them.
Chars == (-128..127) \ {0}
Strings == Seq(Chars)

-------------------------------------------------------------------------------
\* hash_from_str: hash * 33 + c, in the width of unsigned long.
HashFromStr(key) ==
  LET hash[n \in 0..Len(key)] ==
        IF n = 0 THEN 5381 % HashSize ELSE (33 * hash[n - 1] + key[n]) % HashSize
  IN  hash[Len(key)]

\* The row in hash_map_get, hash_map_set and hash_map_remove_value.
RowOf(key) == HashFromStr(key) % Rows

\* The row in hash_map_remove: the hash is cut to an int, and extended with its
\* sign when mod takes it as a size_t.
RowOfInt(key) ==
  LET cut == HashFromStr(key) % IntSize IN
    (IF cut < IntSize \div 2 THEN cut ELSE cut + HashSize - IntSize) % Rows

\* The hash of key is the same number as an int.
FitsInt(key) == HashFromStr(key) < IntSize \div 2

EmptyMap == [r \in 0..(Rows - 1) |-> [live |-> FALSE, entries |-> <<>>]]

-------------------------------------------------------------------------------
\* strncmp(entry->key, key, strlen(key)) == 0: the first entry of the row whose
\* key begins with key.
MatchIn(entries, key) == FirstIndex(entries, LAMBDA entry : IsPrefix(key, entry.key))

Match(map, key) == MatchIn(map[RowOf(key)].entries, key)

Found(map, key) == Match(map, key) # 0

\* hash_map_get, for a key that is found.
ValuesOf(map, key) == map[RowOf(key)].entries[Match(map, key)].value

\* hash_map_add_new_entry
NewEntry(key, value) == [key |-> key, value |-> <<value>>]

\* The entries of a row after value was set under key, which found entry i or (0) none.
WithValue(entries, i, key, value) ==
  IF i # 0 THEN [entries EXCEPT ![i].value = Append(@, value)]
           ELSE Append(entries, NewEntry(key, value))

\* Mutant: the row is computed as in hash_map_remove.
AfterSetInt(map, key, value) ==
  LET r == RowOfInt(key)
      entries == map[r].entries IN
    [map EXCEPT ![r] = [live    |-> TRUE,
                        entries |-> WithValue(entries, MatchIn(entries, key), key, value)]]

\* Mutant: a key that is found gets an entry of its own all the same.
AfterSetAgain(map, key, value) ==
  LET r == RowOf(key) IN
    [map EXCEPT ![r] = [live    |-> TRUE,
                        entries |-> WithValue(map[r].entries, 0, key, value)]]

\* Mutant: the row is used without being allocated.
AfterSetNotLive(map, key, value) ==
  [map EXCEPT ![RowOf(key)].entries = WithValue(@, Match(map, key), key, value)]

\* hash_map_set
AfterSet(map, key, value) ==
  LET r == RowOf(key) IN
    [map EXCEPT ![r] = [live    |-> TRUE,
                        entries |-> WithValue(map[r].entries, Match(map, key), key, value)]]

\* hash_map_remove, which succeeds if the key matches in the row it looks at.
RemoveFinds(map, key) == MatchIn(map[RowOfInt(key)].entries, key) # 0

\* Mutant: the entry before the one found is removed.
AfterRemovePrevious(map, key) ==
  LET r == RowOfInt(key) IN
    [map EXCEPT ![r].entries = SwapRemove(@, MatchIn(@, key) - 1)]

AfterRemove(map, key) ==
  LET r == RowOfInt(key) IN
    [map EXCEPT ![r].entries = SwapRemove(@, MatchIn(@, key))]

\* hash_map_remove_value.  In a live row a key that is not found is a success.
ValueIndex(map, key, value) == IndexOf(ValuesOf(map, key), value)

RemoveValueResult(map, key, value) ==
  /\ map[RowOf(key)].live
  /\ Found(map, key) => ValueIndex(map, key, value) # 0

AfterRemoveValue(map, key, value) ==
  IF Found(map, key)
  THEN [map EXCEPT ![RowOf(key)].entries[Match(map, key)].value =
                     SwapRemove(@, ValueIndex(map, key, value))]
  ELSE map
===============================================================================
