----------------------------- MODULE HashMapProofs ----------------------------
(***************************************************************************)
(* The hash map's invariants, for every set of keys and values and every   *)
(* number of rows; and, when none of the keys begins another, that it      *)
(* implements the table of topics.  Without that hypothesis it does not:   *)
(* a key is looked up by its first characters only.                        *)
(***************************************************************************)
EXTENDS HashMapOpsProofs, HashMap

-------------------------------------------------------------------------------
(* The invariant *)

\* The map is one of the keys in use and their values, a row that is not live has no
\* entries, and every entry is in the row of its key, alone with that key.
MapInv == map \in Maps(Keys, Values) /\ LiveRows(map) /\ WellPlaced(map) /\ ret \in BOOLEAN

LEMMA MapInvInit == MapInit => MapInv
  BY EmptyMapType, EmptyMapPlaced DEF MapInit, MapInv

LEMMA MapInvStep == MapInv /\ [MapNext]_mapVars => MapInv'
<1>. SUFFICES ASSUME MapInv, [MapNext]_mapVars PROVE MapInv'
  OBVIOUS
<1>0. /\ map \in Maps(Keys, Values) /\ LiveRows(map) /\ WellPlaced(map)
      /\ Keys \subseteq Strings
  BY KeysAssumption DEF MapInv
<1>1. CASE UNCHANGED mapVars
  BY <1>1 DEF mapVars, MapInv
<1>2. ASSUME NEW key \in Keys, NEW value \in Values, Set(key, value) PROVE MapInv'
  <2>1. map' = AfterSet(map, key, value) /\ ret' = TRUE
    BY <1>2 DEF Set
  <2>. QED  BY <1>0, <2>1, AfterSetEffect, AfterSetPlaced DEF MapInv
<1>3. ASSUME NEW key \in Keys, Remove(key) PROVE MapInv'
  <2>1. map' = AfterRemove(map, key) /\ ret' \in BOOLEAN
    BY <1>3 DEF Remove, RemoveFinds
  <2>. QED  BY <1>0, <2>1, AfterRemoveEffect, AfterRemovePlaced DEF MapInv
<1>4. ASSUME NEW key \in Keys, NEW value \in Values, RemoveValue(key, value) PROVE MapInv'
  <2>1. map' = AfterRemoveValue(map, key, value) /\ ret' = RemoveValueResult(map, key, value)
    BY <1>4 DEF RemoveValue
  <2>2. ret' \in BOOLEAN
    BY <2>1 DEF RemoveValueResult
  <2>. QED  BY <1>0, <2>1, <2>2, AfterRemoveValueEffect, AfterRemoveValuePlaced DEF MapInv
<1>. QED  BY <1>1, <1>2, <1>3, <1>4 DEF MapNext

LEMMA MapInvariant == MapSpec => []MapInv
  BY MapInvInit, MapInvStep, PTL DEF MapSpec

\* The types of struct hash_map, and that a row has no entries before it is allocated.
THEOREM MapTypeCorrect == MapSpec => []MapTypeOK
<1>1. MapInv => MapTypeOK
  BY DEF MapInv, MapTypeOK, Maps, LiveRows, Entry
<1>. QED  BY <1>1, MapInvariant, PTL

-------------------------------------------------------------------------------
(* Keys of which none begins another *)

\* hash_map_remove succeeds on a key that is stored and whose hash fits an int, and
\* leaves nothing of it, wherever swap-removals have put its entry.
THEOREM SmallKeysGo == ASSUME PrefixFree(Keys) PROVE MapSpec => SmallKeysAreRemoved
<1>1. MapInv /\ [MapNext]_mapVars =>
        [\A key \in Keys :
           Remove(key) /\ Found(map, key) /\ FitsInt(key) => ret' /\ ~Found(map', key)]_mapVars
  <2>. SUFFICES ASSUME MapInv, NEW key \in Keys, Remove(key), Found(map, key), FitsInt(key)
                PROVE  ret' /\ ~Found(map', key)
    OBVIOUS
  <2>1. map' = AfterRemove(map, key) /\ ret' = RemoveFinds(map, key)
    BY DEF Remove
  <2>2. /\ map \in Maps(Keys, Values) /\ LiveRows(map) /\ WellPlaced(map)
        /\ Keys \subseteq Strings
    BY KeysAssumption DEF MapInv
  <2>3. RemoveFinds(map, key) /\ ~Found(AfterRemove(map, key), key)
    BY <2>2, PlainRemove
  <2>. QED  BY <2>1, <2>3
<1>. QED  BY <1>1, MapInvariant, PTL DEF MapSpec, SmallKeysAreRemoved

\* The table a map stands for.
KnownIn(m) == {key \in Keys : Found(m, key)}

CountIn(m) == [key \in Keys |-> [v \in Values |->
                 IF Found(m, key) THEN Occurrences(ValuesOf(m, key), v) ELSE 0]]

\* The lookups of every other key being the same, the table changes at key only.
LEMMA TableChange ==
  ASSUME NEW m, NEW new, NEW key \in Keys, SameForOthers(Keys, m, new, key)
  PROVE  /\ KnownIn(new) = IF Found(new, key) THEN KnownIn(m) \cup {key} ELSE KnownIn(m) \ {key}
         /\ CountIn(new) = [CountIn(m) EXCEPT ![key] = [v \in Values |->
                              IF Found(new, key) THEN Occurrences(ValuesOf(new, key), v) ELSE 0]]
<1>1. \A k \in Keys \ {key} : /\ Found(new, k) <=> Found(m, k)
                              /\ Found(m, k) => ValuesOf(new, k) = ValuesOf(m, k)
  BY DEF SameForOthers
<1>. QED  BY <1>1 DEF KnownIn, CountIn

\* hash_map_set stores, hash_map_remove forgets and hash_map_remove_value discards.
LEMMA TableStep ==
  ASSUME PrefixFree(Keys), MapInv, [MapNext]_mapVars
  PROVE  [Table!TableNext]_Table!tableVars
<1>. DEFINE known == KnownIn(map)
            count == CountIn(map)
            known2 == KnownIn(map')
            count2 == CountIn(map')
<1>0. /\ map \in Maps(Keys, Values) /\ LiveRows(map) /\ WellPlaced(map)
      /\ Keys \subseteq Strings /\ MaxValues \in Nat \ {0}
  BY KeysAssumption, MaxValuesAssumption DEF MapInv
<1>a. ASSUME NEW key \in Keys, Found(map, key)
      PROVE  /\ ValuesOf(map, key) \in Seq(Values)
             /\ \A v : /\ Occurrences(ValuesOf(map, key), v) \in Nat
                       /\ Occurrences(ValuesOf(map, key), v) <= Len(ValuesOf(map, key))
  <2>1. ValuesOf(map, key) \in Seq(Values)
    BY <1>0, <1>a, MatchFinds
  <2>. QED  BY <2>1, OccurrencesType
<1>b. /\ count \in [Keys -> [Values -> Nat]]
      /\ \A key \in Keys : \A v \in Values :
           count[key][v] = IF Found(map, key) THEN Occurrences(ValuesOf(map, key), v) ELSE 0
  BY <1>a DEF CountIn
<1>1. CASE UNCHANGED mapVars
  BY <1>1 DEF mapVars, Table!tableVars
<1>2. ASSUME NEW key \in Keys, NEW value \in Values, Set(key, value) PROVE Table!Store(key, value)
  <2>1. /\ map' = AfterSet(map, key, value) /\ ret' = TRUE
        /\ Found(map, key) => Len(ValuesOf(map, key)) < MaxValues
    BY <1>2 DEF Set
  <2>2. /\ SameForOthers(Keys, map, map', key) /\ Found(map', key)
        /\ Found(map, key) => ValuesOf(map', key) = Append(ValuesOf(map, key), value)
        /\ ~Found(map, key) => ValuesOf(map', key) = <<value>>
    <3>. DEFINE new == AfterSet(map, key, value)
    <3>1. /\ SameForOthers(Keys, map, new, key) /\ Found(new, key)
          /\ Found(map, key) => ValuesOf(new, key) = Append(ValuesOf(map, key), value)
          /\ ~Found(map, key) => ValuesOf(new, key) = <<value>>
      BY <1>0, PlainSet
    <3>. HIDE DEF new
    <3>2. map' = new
      BY <2>1 DEF new
    <3>. QED  BY <3>1, <3>2
  <2>3. count[key][value] < MaxValues
    <3>. HIDE DEF count
    <3>1. CASE ~Found(map, key)
      BY <1>0, <1>b, <3>1
    <3>2. CASE Found(map, key)
      <4>1. ValuesOf(map, key) \in Seq(Values) /\ Len(ValuesOf(map, key)) < MaxValues
        BY <1>a, <2>1, <3>2
      <4>. QED  BY <1>0, <1>a, <1>b, <3>2, <4>1
    <3>. QED  BY <3>1, <3>2
  <2>4. known2 = known \cup {key}
    BY <2>2, TableChange
  <2>5. ASSUME NEW v \in Values
        PROVE  Occurrences(ValuesOf(map', key), v) = count[key][v] + (IF v = value THEN 1 ELSE 0)
    <3>1. CASE Found(map, key)
      <4>1. ValuesOf(map, key) \in Seq(Values)
        BY <1>a, <3>1
      <4>2. Occurrences(Append(ValuesOf(map, key), value), v) =
              Occurrences(ValuesOf(map, key), v) + (IF value = v THEN 1 ELSE 0)
        BY <4>1, OccurrencesAppend
      <4>. HIDE DEF count
      <4>. QED  BY <1>b, <2>2, <3>1, <4>2
    <3>2. CASE ~Found(map, key)
      <4>1. Occurrences(<<value>>, v) = IF value = v THEN 1 ELSE 0
        BY OccurrencesSingle
      <4>. QED  BY <1>b, <2>2, <3>2, <4>1
    <3>. QED  BY <3>1, <3>2
  <2>6. count2 = [count EXCEPT ![key] = [v \in Values |-> Occurrences(ValuesOf(map', key), v)]]
    BY <2>2, TableChange
  <2>7. count2 = [count EXCEPT ![key][value] = @ + 1]
    <3>. HIDE DEF count, count2
    <3>1. [v \in Values |-> Occurrences(ValuesOf(map', key), v)] =
            [count[key] EXCEPT ![value] = @ + 1]
      BY <1>b, <2>5
    <3>. QED  BY <1>b, <2>6, <3>1
  <2>. QED  BY <2>1, <2>3, <2>4, <2>7 DEF Table!Store, KnownIn, CountIn
<1>3. ASSUME NEW key \in Keys, Remove(key) PROVE Table!Forget(key) \/ Table!ForgetNothing(key)
  <2>1. map' = AfterRemove(map, key) /\ ret' = RemoveFinds(map, key)
    BY <1>3 DEF Remove
  <2>2. /\ SameForOthers(Keys, map, map', key)
        /\ RemoveFinds(map, key) => Found(map, key) /\ ~Found(map', key)
    BY <1>0, <2>1, PlainRemove
  <2>3. CASE RemoveFinds(map, key)
    <3>1. known2 = known \ {key} /\ key \in known
      BY <2>2, <2>3, TableChange DEF KnownIn
    <3>2. count2 = [count EXCEPT ![key] = [v \in Values |-> 0]]
      BY <2>2, <2>3, TableChange
    <3>3. ret' = TRUE
      BY <2>1, <2>3 DEF RemoveFinds
    <3>. QED  BY <3>1, <3>2, <3>3 DEF Table!Forget, KnownIn, CountIn
  <2>4. CASE ~RemoveFinds(map, key)
    <3>1. map' = map
      BY <1>0, <2>1, <2>4, AfterRemoveEffect
    <3>2. ret' = FALSE
      BY <2>1, <2>4 DEF RemoveFinds
    <3>. QED  BY <3>1, <3>2 DEF Table!ForgetNothing
  <2>. QED  BY <2>3, <2>4
<1>4. ASSUME NEW key \in Keys, NEW value \in Values, RemoveValue(key, value)
      PROVE  Table!Discard(key, value) \/ Table!DiscardNothing(key, value)
  <2>. DEFINE v == ValuesOf(map, key)
              i == IndexOf(v, value)
  <2>1. map' = AfterRemoveValue(map, key, value) /\ ret' = RemoveValueResult(map, key, value)
    BY <1>4 DEF RemoveValue
  <2>2. /\ SameForOthers(Keys, map, map', key)
        /\ Found(map', key) <=> Found(map, key)
        /\ Found(map, key) => /\ ValuesOf(map', key) = SwapRemove(v, i)
                              /\ RemoveValueResult(map, key, value) <=> i # 0
    BY <1>0, <2>1, PlainRemoveValue
  <2>3. ret' \in BOOLEAN
    BY <2>1 DEF RemoveValueResult
  <2>4. CASE ~Found(map, key)
    <3>1. map' = map
      BY <2>1, <2>4 DEF AfterRemoveValue
    <3>2. count[key][value] = 0 /\ key \notin known
      BY <2>4 DEF CountIn, KnownIn
    <3>. QED  BY <2>3, <3>1, <3>2 DEF Table!DiscardNothing, KnownIn, CountIn
  <2>5. CASE Found(map, key)
    <3>1. v \in Seq(Values) /\ Len(v) \in Nat
      BY <1>a, <2>5
    <3>2. i \in Nat /\ (i # 0 => i \in 1..Len(v) /\ v[i] = value)
                    /\ (i = 0 => \A j \in 1..Len(v) : v[j] # value)
      BY <3>1, IndexOfFinds
    <3>. HIDE DEF i
    <3>3. known2 = known /\ key \in known
      BY <2>2, <2>5, TableChange DEF KnownIn
    <3>4. count2 = [count EXCEPT ![key] = [x \in Values |-> Occurrences(SwapRemove(v, i), x)]]
      BY <2>2, <2>5, TableChange
    <3>5. \A x \in Values : count[key][x] = Occurrences(v, x)
      BY <2>5 DEF CountIn
    <3>6. CASE i = 0
      <4>1. Occurrences(v, value) = 0
        BY <3>1, <3>2, <3>6, OccurrencesType
      <4>2. SwapRemove(v, i) = v
        <5>1. i \notin 1..Len(v)
          BY <3>6
        <5>. QED  BY <3>1, <3>2, <5>1, SwapRemoveProperties
      <4>3. count2 = count
        <5>. HIDE DEF count, count2
        <5>1. [x \in Values |-> Occurrences(SwapRemove(v, i), x)] = count[key]
          BY <1>b, <3>5, <4>2
        <5>. QED  BY <1>b, <3>4, <5>1
      <4>4. ret' = FALSE
        BY <2>1, <2>2, <2>3, <2>5, <3>6 DEF i
      <4>. QED  BY <3>3, <3>5, <4>1, <4>3, <4>4 DEF Table!DiscardNothing, KnownIn, CountIn
    <3>7. CASE i # 0
      <4>1. \A x \in Values : Occurrences(SwapRemove(v, i), x) =
                                Occurrences(v, x) - (IF x = value THEN 1 ELSE 0)
        BY <3>1, <3>2, <3>7, OccurrencesSwapRemove
      <4>2. Occurrences(v, value) > 0
        BY <3>1, <3>2, <3>7, OccurrencesType
      <4>3. count2 = [count EXCEPT ![key][value] = @ - 1]
        <5>. HIDE DEF count, count2
        <5>1. [x \in Values |-> Occurrences(SwapRemove(v, i), x)] =
                [count[key] EXCEPT ![value] = @ - 1]
          BY <1>b, <3>5, <4>1
        <5>. QED  BY <1>b, <3>4, <5>1
      <4>4. ret' = TRUE
        BY <2>1, <2>2, <2>3, <2>5, <3>7 DEF i
      <4>. QED  BY <3>3, <3>5, <4>2, <4>3, <4>4 DEF Table!Discard, KnownIn, CountIn
    <3>. QED  BY <3>6, <3>7
  <2>. QED  BY <2>4, <2>5
<1>. QED  BY <1>1, <1>2, <1>3, <1>4 DEF MapNext, Table!TableNext

\* With keys of which none begins another the map is a table from keys to bags of
\* values: collisions, swap-removals and rows not yet allocated do not show.
THEOREM MapIsTable == ASSUME PrefixFree(Keys) PROVE MapSpec => ImplementsTable
<1>1. MapInit => Table!TableInit
  <2>. SUFFICES ASSUME MapInit PROVE Table!TableInit
    OBVIOUS
  <2>1. \A key \in Keys : ~Found(map, key)
    <3>. SUFFICES ASSUME NEW key \in Keys, Found(map, key) PROVE FALSE
      OBVIOUS
    <3>1. map = EmptyMap /\ RowOf(key) \in 0..(Rows - 1)
      BY KeysAssumption, RowsInRange DEF MapInit
    <3>2. map[RowOf(key)].entries = <<>>
      BY <3>1, EmptyMapType
    <3>3. EmptyMap \in Maps(Keys, Values)
      BY EmptyMapType
    <3>4. Match(map, key) \in 1..Len(map[RowOf(key)].entries)
      BY <3>1, <3>3, KeysAssumption, MatchFinds
    <3>. QED  BY <3>2, <3>4
  <2>. QED  BY <2>1 DEF Table!TableInit, MapInit
<1>2. MapInv /\ [MapNext]_mapVars => [Table!TableNext]_Table!tableVars
  BY TableStep
<1>. QED  BY <1>1, <1>2, MapInvariant, PTL DEF MapSpec, ImplementsTable, Table!TableSpec
===============================================================================
