--------------------------- MODULE HashMapOpsProofs ---------------------------
(***************************************************************************)
(* What the operators of HashMapOps return, for every number of rows,      *)
(* every width of hash and int and every set of keys.                      *)
(***************************************************************************)
EXTENDS HashMapOps, ArraysProofs

LOCAL INSTANCE SequencesExt

-------------------------------------------------------------------------------
(* Hashes and rows *)

LEMMA ModRange ==
  ASSUME NEW a \in Int, NEW b \in Nat \ {0}
  PROVE  a % b \in 0..(b - 1) /\ (a \in 0..(b - 1) => a % b = a)
OBVIOUS

\* hash_from_str computes a hash from every string, of the width of unsigned long.
LEMMA HashInRange ==
  ASSUME NEW key \in Strings
  PROVE  HashFromStr(key) \in 0..(HashSize - 1)
<1>. DEFINE Hashes == 0..(HashSize - 1)
            n == Len(key)
            first == 5381 % HashSize
            After == [i \in 1..n |-> [h \in Hashes |-> (33 * h + key[i]) % HashSize]]
            Step(g) == [i \in 0..n |-> IF i = 0 THEN first ELSE (33 * g[i - 1] + key[i]) % HashSize]
            hash == CHOOSE g : g = Step(g)
<1>1. n \in Nat /\ (\A i \in 1..n : key[i] \in Chars)
  <2>1. ASSUME NEW S, NEW q \in Seq(S) PROVE Len(q) \in Nat /\ \A i \in 1..Len(q) : q[i] \in S
    OBVIOUS
  <2>2. key \in Seq(Chars)
    BY DEF Strings
  <2>. QED  BY <2>1, <2>2, Zenon
<1>2. HashSize \in Nat \ {0}
  BY SizeAssumption
<1>3. first \in Hashes
  BY <1>2, ModRange
<1>4. ASSUME NEW h \in Hashes, NEW c \in Chars PROVE (33 * h + c) % HashSize \in Hashes
  <2>1. h \in Nat /\ c \in Int
    BY <1>2 DEF Chars
  <2>2. 33 * h + c \in Int
    BY <2>1
  <2>. QED  BY <1>2, <2>2, ModRange
<1>. HIDE DEF Hashes, n, first
<1>5. After \in [1..n -> [Hashes -> Hashes]]
  BY <1>1, <1>4
<1>6. PICK h \in [0..n -> Hashes] : h[0] = first /\ \A i \in 1..n : h[i] = After[i][h[i - 1]]
  <2>. HIDE DEF After
  <2>1. LoopStates(n, Hashes, first, After) # {}
    BY <1>1, <1>3, <1>5, LoopRuns, Zenon
  <2>. QED  BY <2>1 DEF LoopStates
<1>7. h = Step(h)
  <2>1. ASSUME NEW i \in 0..n PROVE h[i] = Step(h)[i]
    <3>1. CASE i = 0
      BY <1>6, <3>1
    <3>2. CASE i # 0
      <4>1. i \in 1..n /\ i - 1 \in 0..n
        BY <1>1, <3>2
      <4>. QED  BY <1>6, <3>2, <4>1
    <3>. QED  BY <3>1, <3>2
  <2>. QED  BY <2>1
<1>8. hash = Step(hash)
  <2>. HIDE DEF Step
  <2>. QED  BY <1>7
<1>9. HashFromStr(key) = hash[n]
  BY DEF HashFromStr, n, first
<1>. HIDE DEF hash
<1>10. \A i \in 0..n : hash[i] = IF i = 0 THEN first ELSE (33 * hash[i - 1] + key[i]) % HashSize
  BY <1>8
<1>. DEFINE In == {i \in 0..n : hash[i] \in Hashes}
<1>11. 0 \in In
  BY <1>1, <1>3, <1>10
<1>12. ASSUME NEW i \in 1..n, i - 1 \in In PROVE i \in In
  <2>1. i \in 0..n /\ i # 0
    BY <1>1
  <2>2. hash[i] = (33 * hash[i - 1] + key[i]) % HashSize
    BY <1>10, <2>1
  <2>3. hash[i] \in Hashes
    BY <1>1, <1>4, <1>12, <2>2
  <2>. QED  BY <2>1, <2>3
<1>13. \A i \in 0..n : i \in In
  <2>. HIDE DEF In
  <2>. QED  BY <1>1, <1>11, <1>12, PlacesInduction
<1>14. n \in 0..n
  BY <1>1
<1>. QED  BY <1>9, <1>13, <1>14 DEF Hashes

\* A hash is reduced to a row, also when it is cut to an int first; a hash that fits an
\* int is reduced to the same row both ways.
LEMMA RowsInRange ==
  ASSUME NEW key \in Strings
  PROVE  /\ RowOf(key) \in 0..(Rows - 1)
         /\ RowOfInt(key) \in 0..(Rows - 1)
         /\ FitsInt(key) => RowOfInt(key) = RowOf(key)
<1>. DEFINE hash == HashFromStr(key)
            cut == hash % IntSize
            wide == IF cut < IntSize \div 2 THEN cut ELSE cut + HashSize - IntSize
<1>1. hash \in Nat
  BY HashInRange, SizeAssumption
<1>2. Rows \in Nat \ {0} /\ IntSize \in Nat \ {0} /\ HashSize \in Nat /\ IntSize <= HashSize
  BY RowsAssumption, SizeAssumption
<1>3. cut \in Nat
  BY <1>1, <1>2, ModRange
<1>4. wide \in Nat
  BY <1>2, <1>3
<1>5. RowOf(key) = hash % Rows /\ RowOfInt(key) = wide % Rows
  BY DEF RowOf, RowOfInt
<1>6. ASSUME FitsInt(key) PROVE wide = hash
  <2>1. hash < IntSize \div 2 /\ hash < IntSize
    BY <1>1, <1>2, <1>6 DEF FitsInt
  <2>2. cut = hash
    BY <1>1, <1>2, <2>1, ModRange
  <2>. QED  BY <2>1, <2>2
<1>. HIDE DEF wide, hash
<1>. QED  BY <1>1, <1>2, <1>4, <1>5, <1>6, ModRange

-------------------------------------------------------------------------------
(* The entry a key finds *)

\* The maps from keys of K to values of V.
Maps(K, V) == [0..(Rows - 1) -> [live : BOOLEAN, entries : Seq([key : K, value : Seq(V)])]]

\* A key begins itself.
LEMMA BeginsItself ==
  ASSUME NEW key \in Strings
  PROVE  IsPrefix(key, key)
  BY DEF IsPrefix, Strings

\* The search in a row returns the first entry whose key begins with key, or that
\* there is none.
LEMMA MatchInFinds ==
  ASSUME NEW S, NEW q \in Seq(S), NEW key
  PROVE  /\ MatchIn(q, key) \in Nat
         /\ MatchIn(q, key) # 0 =>
              /\ MatchIn(q, key) \in 1..Len(q)
              /\ IsPrefix(key, q[MatchIn(q, key)].key)
              /\ \A i \in 1..(MatchIn(q, key) - 1) : ~IsPrefix(key, q[i].key)
         /\ MatchIn(q, key) = 0 => \A i \in 1..Len(q) : ~IsPrefix(key, q[i].key)
<1>. DEFINE T == {i \in DOMAIN q : IsPrefix(key, q[i].key)}
            first == MatchIn(q, key)
<1>1. CASE T = {}
  <2>1. first = 0
    BY <1>1 DEF MatchIn, FirstIndex
  <2>. QED  BY <1>1, <2>1
<1>2. CASE T # {}
  <2>1. T \subseteq Nat
    OBVIOUS
  <2>2. PICK i \in T : \A j \in T : ~(j < i)
    BY <1>2, <2>1, LeastElement, Zenon
  <2>3. \A j \in 1..(i - 1) : ~IsPrefix(key, q[j].key)
    BY <2>2
  <2>4. \E k \in DOMAIN q : IsPrefix(key, q[k].key) /\ \A j \in 1..(k - 1) : ~IsPrefix(key, q[j].key)
    BY <2>2, <2>3
  <2>5. first = CHOOSE k \in DOMAIN q :
                  IsPrefix(key, q[k].key) /\ \A j \in 1..(k - 1) : ~IsPrefix(key, q[j].key)
    BY <1>2 DEF MatchIn, FirstIndex
  <2>6. /\ first \in DOMAIN q /\ IsPrefix(key, q[first].key)
        /\ \A j \in 1..(first - 1) : ~IsPrefix(key, q[j].key)
    <3>. HIDE DEF first
    <3>. QED  BY <2>4, <2>5, Zenon
  <2>. HIDE DEF first
  <2>7. first \in 1..Len(q) /\ first \in Nat /\ first # 0
    BY <2>6
  <2>. QED  BY <2>6, <2>7 DEF first
<1>. QED  BY <1>1, <1>2

\* There is only one such entry.
LEMMA MatchInIs ==
  ASSUME NEW S, NEW q \in Seq(S), NEW key,
         NEW i \in 1..Len(q), IsPrefix(key, q[i].key),
         \A j \in 1..(i - 1) : ~IsPrefix(key, q[j].key)
  PROVE  MatchIn(q, key) = i
<1>. DEFINE first == MatchIn(q, key)
<1>1. first \in Nat
  BY MatchInFinds
<1>2. first # 0
  BY MatchInFinds
<1>3. /\ first \in 1..Len(q) /\ IsPrefix(key, q[first].key)
      /\ \A j \in 1..(first - 1) : ~IsPrefix(key, q[j].key)
  BY <1>2, MatchInFinds
<1>. HIDE DEF first
<1>4. ~(first < i) /\ ~(i < first)
  BY <1>1, <1>3
<1>. QED  BY <1>1, <1>4 DEF first

\* Only the keys of a row matter to it.
LEMMA MatchInSameKeys ==
  ASSUME NEW S, NEW q \in Seq(S), NEW p \in Seq(S), Len(p) = Len(q),
         \A i \in 1..Len(q) : p[i].key = q[i].key,
         NEW key
  PROVE  MatchIn(p, key) = MatchIn(q, key)
<1>. DEFINE m == MatchIn(q, key)
<1>1. CASE m = 0
  <2>1. \A i \in 1..Len(p) : ~IsPrefix(key, p[i].key)
    BY <1>1, MatchInFinds
  <2>2. ~(MatchIn(p, key) # 0)
    BY <2>1, MatchInFinds
  <2>. QED  BY <1>1, <2>2
<1>2. CASE m # 0
  <2>1. /\ m \in 1..Len(q) /\ IsPrefix(key, q[m].key)
        /\ \A j \in 1..(m - 1) : ~IsPrefix(key, q[j].key)
    BY <1>2, MatchInFinds
  <2>. HIDE DEF m
  <2>2. IsPrefix(key, p[m].key) /\ \A j \in 1..(m - 1) : ~IsPrefix(key, p[j].key)
    BY <2>1
  <2>3. m \in 1..Len(p)
    BY <2>1
  <2>4. MatchIn(p, key) = m
    BY <2>2, <2>3, MatchInIs
  <2>. QED  BY <2>4 DEF m
<1>. QED  BY <1>1, <1>2

\* An entry at the end of a row is found by the keys that found none.
LEMMA MatchInAppend ==
  ASSUME NEW S, NEW q \in Seq(S), NEW e \in S, NEW key
  PROVE  MatchIn(Append(q, e), key) =
           IF MatchIn(q, key) # 0 THEN MatchIn(q, key)
           ELSE IF IsPrefix(key, e.key) THEN Len(q) + 1 ELSE 0
<1>. DEFINE p == Append(q, e)
            m == MatchIn(q, key)
<1>1. /\ p \in Seq(S) /\ Len(p) = Len(q) + 1 /\ p[Len(q) + 1] = e
      /\ \A i \in 1..Len(q) : p[i] = q[i]
  BY AppendProperties
<1>. HIDE DEF p
<1>2. CASE m # 0
  <2>1. /\ m \in 1..Len(q) /\ IsPrefix(key, q[m].key)
        /\ \A j \in 1..(m - 1) : ~IsPrefix(key, q[j].key)
    BY <1>2, MatchInFinds
  <2>. HIDE DEF m
  <2>2. /\ m \in 1..Len(p) /\ IsPrefix(key, p[m].key)
        /\ \A j \in 1..(m - 1) : ~IsPrefix(key, p[j].key)
    BY <1>1, <2>1
  <2>3. MatchIn(p, key) = m
    BY <1>1, <2>2, MatchInIs
  <2>. QED  BY <1>2, <2>3 DEF m, p
<1>3. CASE m = 0 /\ IsPrefix(key, e.key)
  <2>. DEFINE n == Len(q) + 1
  <2>1. \A i \in 1..Len(q) : ~IsPrefix(key, q[i].key)
    BY <1>3, MatchInFinds
  <2>2. n \in 1..Len(p) /\ IsPrefix(key, p[n].key)
    BY <1>1, <1>3
  <2>3. \A j \in 1..(n - 1) : ~IsPrefix(key, p[j].key)
    BY <1>1, <2>1
  <2>. HIDE DEF n
  <2>4. MatchIn(p, key) = n
    BY <1>1, <2>2, <2>3, MatchInIs
  <2>. QED  BY <1>3, <2>4 DEF n, p
<1>4. CASE m = 0 /\ ~IsPrefix(key, e.key)
  <2>1. \A i \in 1..Len(q) : ~IsPrefix(key, q[i].key)
    BY <1>4, MatchInFinds
  <2>2. \A i \in 1..Len(p) : ~IsPrefix(key, p[i].key)
    BY <1>1, <1>4, <2>1
  <2>3. MatchIn(p, key) = 0
    BY <1>1, <2>2, MatchInFinds
  <2>. QED  BY <1>4, <2>3 DEF p
<1>. QED  BY <1>2, <1>3, <1>4

-------------------------------------------------------------------------------
(* What the operations do to a map *)

\* No map has an entry at first.
LEMMA EmptyMapType ==
  ASSUME NEW K, NEW V
  PROVE  EmptyMap \in Maps(K, V) /\ \A r \in 0..(Rows - 1) : EmptyMap[r].entries = <<>>
  BY DEF EmptyMap, Maps

\* A lookup looks at one row, and finds an entry of it or none.
LEMMA MatchFinds ==
  ASSUME NEW K, K \subseteq Strings, NEW V, NEW m \in Maps(K, V), NEW key \in Strings
  PROVE  /\ RowOf(key) \in 0..(Rows - 1)
         /\ m[RowOf(key)].entries \in Seq([key : K, value : Seq(V)])
         /\ Match(m, key) = MatchIn(m[RowOf(key)].entries, key)
         /\ Match(m, key) \in Nat
         /\ Found(m, key) <=> Match(m, key) # 0
         /\ Found(m, key) =>
              /\ Match(m, key) \in 1..Len(m[RowOf(key)].entries)
              /\ IsPrefix(key, m[RowOf(key)].entries[Match(m, key)].key)
              /\ ValuesOf(m, key) = m[RowOf(key)].entries[Match(m, key)].value
              /\ ValuesOf(m, key) \in Seq(V)
<1>. DEFINE r == RowOf(key)
            q == m[r].entries
            E == [key : K, value : Seq(V)]
<1>1. r \in 0..(Rows - 1)
  BY RowsInRange
<1>2. q \in Seq(E)
  BY <1>1 DEF Maps
<1>3. Match(m, key) = MatchIn(q, key) /\ (Found(m, key) <=> Match(m, key) # 0)
  BY DEF Match, Found
<1>4. ValuesOf(m, key) = q[Match(m, key)].value
  BY DEF ValuesOf
<1>. HIDE DEF r, q
<1>5. MatchIn(q, key) \in Nat
  BY <1>2, MatchInFinds
<1>6. ASSUME Found(m, key)
      PROVE  MatchIn(q, key) \in 1..Len(q) /\ IsPrefix(key, q[MatchIn(q, key)].key)
  BY <1>2, <1>3, <1>6, MatchInFinds
<1>7. ASSUME Found(m, key) PROVE q[MatchIn(q, key)].value \in Seq(V)
  <2>1. q[MatchIn(q, key)] \in E
    <3>. HIDE DEF E
    <3>. QED  BY <1>2, <1>6, <1>7
  <2>. QED  BY <2>1
<1>. QED  BY <1>1, <1>2, <1>3, <1>4, <1>5, <1>6, <1>7 DEF r, q

\* hash_map_set leaves the other rows alone.  In its own it adds the value to the
\* values of the entry found, or a new entry at the end.
Sets(m, new, key, value) ==
  LET r == RowOf(key)
      i == Match(m, key)
  IN  /\ \A q \in 0..(Rows - 1) : q # r => new[q] = m[q]
      /\ new[r].live
      /\ i = 0 => new[r].entries = Append(m[r].entries, NewEntry(key, value))
      /\ i # 0 =>
           /\ Len(new[r].entries) = Len(m[r].entries)
           /\ \A e \in 1..Len(m[r].entries) :
                /\ new[r].entries[e].key = m[r].entries[e].key
                /\ new[r].entries[e].value =
                     IF e = i THEN Append(m[r].entries[e].value, value)
                              ELSE m[r].entries[e].value

LEMMA AfterSetEffect ==
  ASSUME NEW K, K \subseteq Strings, NEW V, NEW m \in Maps(K, V),
         NEW key \in K, NEW value \in V
  PROVE  /\ AfterSet(m, key, value) \in Maps(K, V)
         /\ Sets(m, AfterSet(m, key, value), key, value)
<1>. DEFINE E == [key : K, value : Seq(V)]
            new == AfterSet(m, key, value)
            r == RowOf(key)
            i == Match(m, key)
            q == m[r].entries
            row == WithValue(q, i, key, value)
<1>1. r \in 0..(Rows - 1) /\ q \in Seq(E) /\ i \in Nat /\ (i # 0 => i \in 1..Len(q))
  BY MatchFinds
<1>2. new = [m EXCEPT ![r] = [live |-> TRUE, entries |-> row]]
  BY DEF AfterSet
<1>3. NewEntry(key, value) \in E
  BY DEF NewEntry
<1>. HIDE DEF new, r, i, q
<1>4. ASSUME i # 0
      PROVE  /\ row \in Seq(E) /\ Len(row) = Len(q)
             /\ \A e \in 1..Len(q) :
                  /\ row[e].key = q[e].key
                  /\ row[e].value = IF e = i THEN Append(q[e].value, value) ELSE q[e].value
  <2>. DEFINE x == [q[i] EXCEPT !.value = Append(@, value)]
  <2>1. i \in 1..Len(q) /\ q[i] \in E
    <3>. HIDE DEF E
    <3>. QED  BY <1>1, <1>4
  <2>2. x \in E /\ x.key = q[i].key /\ x.value = Append(q[i].value, value)
    BY <2>1
  <2>3. row = [q EXCEPT ![i] = x]
    BY <1>4 DEF WithValue
  <2>. HIDE DEF x, E
  <2>4. [q EXCEPT ![i] = x] \in Seq(E) /\ Len([q EXCEPT ![i] = x]) = Len(q)
        /\ \A e \in 1..Len(q) : [q EXCEPT ![i] = x][e] = IF e = i THEN x ELSE q[e]
    BY <1>1, <2>1, <2>2, ExceptSeq
  <2>5. \A e \in 1..Len(q) : row[e] = IF e = i THEN x ELSE q[e]
    BY <2>3, <2>4
  <2>6. row \in Seq(E) /\ Len(row) = Len(q)
    BY <2>3, <2>4
  <2>. HIDE DEF row
  <2>7. ASSUME NEW e \in 1..Len(q)
        PROVE  /\ row[e].key = q[e].key
               /\ row[e].value = IF e = i THEN Append(q[e].value, value) ELSE q[e].value
    BY <2>2, <2>5, Zenon
  <2>. QED  BY <2>6, <2>7
<1>5. row \in Seq(E)
  <2>1. CASE i # 0
    BY <1>4, <2>1
  <2>2. CASE i = 0
    <3>. HIDE DEF E
    <3>. QED  BY <1>1, <1>3, <2>2 DEF WithValue
  <2>. QED  BY <2>1, <2>2
<1>6. i = 0 => row = Append(q, NewEntry(key, value))
  BY DEF WithValue
<1>. HIDE DEF row
<1>7. m[r] \in [live : BOOLEAN, entries : Seq(E)]
  BY <1>1 DEF Maps
<1>8. /\ new[r].live = TRUE /\ new[r].entries = row
      /\ new[r] \in [live : BOOLEAN, entries : Seq(E)]
  <2>. HIDE DEF E
  <2>. QED  BY <1>1, <1>2, <1>5, <1>7 DEF Maps
<1>9. new \in Maps(K, V) /\ \A p \in 0..(Rows - 1) : p # r => new[p] = m[p]
  BY <1>1, <1>2, <1>8 DEF Maps
<1>. QED  BY <1>4, <1>6, <1>8, <1>9 DEF new, r, i, q, Sets

\* hash_map_remove_value succeeds in a live row in which the key finds no entry, or
\* one with the value, which it takes out; otherwise nothing happens.
RemovesValue(m, new, key, value) ==
  LET r == RowOf(key)
      i == Match(m, key)
      v == m[r].entries[i].value
  IN  /\ \A q \in 0..(Rows - 1) : q # r => new[q] = m[q]
      /\ new[r].live = m[r].live
      /\ i = 0 => new = m
      /\ Len(new[r].entries) = Len(m[r].entries)
      /\ \A e \in 1..Len(m[r].entries) :
           /\ new[r].entries[e].key = m[r].entries[e].key
           /\ new[r].entries[e].value =
                IF e = i THEN SwapRemove(v, IndexOf(v, value)) ELSE m[r].entries[e].value

LEMMA AfterRemoveValueEffect ==
  ASSUME NEW K, K \subseteq Strings, NEW V, NEW m \in Maps(K, V),
         NEW key \in K, NEW value \in V
  PROVE  /\ AfterRemoveValue(m, key, value) \in Maps(K, V)
         /\ RemovesValue(m, AfterRemoveValue(m, key, value), key, value)
         /\ RemoveValueResult(m, key, value) <=>
              /\ m[RowOf(key)].live
              /\ Match(m, key) # 0 =>
                   IndexOf(m[RowOf(key)].entries[Match(m, key)].value, value) # 0
<1>. DEFINE E == [key : K, value : Seq(V)]
            new == AfterRemoveValue(m, key, value)
            r == RowOf(key)
            i == Match(m, key)
            q == m[r].entries
            v == q[i].value
            w == SwapRemove(v, IndexOf(v, value))
            row == [q EXCEPT ![i].value = w]
<1>1. r \in 0..(Rows - 1) /\ q \in Seq(E) /\ i \in Nat /\ (i # 0 => i \in 1..Len(q))
  BY MatchFinds
<1>2. Found(m, key) <=> i # 0
  BY MatchFinds
<1>3. i # 0 => ValueIndex(m, key, value) = IndexOf(v, value)
  BY DEF ValueIndex, ValuesOf
<1>4. m[r] \in [live : BOOLEAN, entries : Seq(E)]
  BY <1>1 DEF Maps
<1>5. RemoveValueResult(m, key, value) <=> m[r].live /\ (i # 0 => IndexOf(v, value) # 0)
  BY <1>2, <1>3, <1>4 DEF RemoveValueResult
<1>6. i # 0 => new = [m EXCEPT ![r] = [m[r] EXCEPT !.entries = row]]
  <2>1. i # 0 => new = [m EXCEPT ![r].entries[i].value = SwapRemove(@, ValueIndex(m, key, value))]
    BY <1>2 DEF AfterRemoveValue
  <2>. HIDE DEF new, r, i
  <2>. QED  BY <1>3, <2>1
<1>7. i = 0 => new = m
  BY <1>2 DEF AfterRemoveValue
<1>. HIDE DEF new, r, i, q
<1>8. CASE i = 0
  <2>1. \A e \in 1..Len(q) : e # i
    BY <1>8
  <2>. QED  BY <1>1, <1>5, <1>7, <1>8, <2>1 DEF new, r, i, q, RemovesValue
<1>9. CASE i # 0
  <2>. DEFINE x == [q[i] EXCEPT !.value = w]
  <2>1. i \in 1..Len(q) /\ q[i] \in E
    <3>. HIDE DEF E
    <3>. QED  BY <1>1, <1>9
  <2>2. v \in Seq(V)
    BY <2>1
  <2>. HIDE DEF v
  <2>3. IndexOf(v, value) \in Nat
    BY <2>2, IndexOfFinds
  <2>4. w \in Seq(V)
    BY <2>2, <2>3, SwapRemoveProperties
  <2>. HIDE DEF w
  <2>5. x \in E /\ x.key = q[i].key /\ x.value = w
    BY <2>1, <2>4
  <2>6. row = [q EXCEPT ![i] = x]
    BY <2>1
  <2>. HIDE DEF x, E, row
  <2>7. row \in Seq(E) /\ Len(row) = Len(q) /\ \A e \in 1..Len(q) : row[e] = IF e = i THEN x ELSE q[e]
    BY <1>1, <2>1, <2>5, <2>6, ExceptSeq
  <2>8. /\ new[r].live = m[r].live /\ new[r].entries = row
        /\ new[r] \in [live : BOOLEAN, entries : Seq(E)]
    BY <1>1, <1>4, <1>6, <1>9, <2>7 DEF Maps
  <2>9. new \in Maps(K, V) /\ \A p \in 0..(Rows - 1) : p # r => new[p] = m[p]
    BY <1>1, <1>6, <1>9, <2>8 DEF Maps, E
  <2>. QED  BY <1>5, <1>9, <2>5, <2>7, <2>8, <2>9 DEF new, r, i, q, v, w, RemovesValue
<1>. QED  BY <1>8, <1>9

\* hash_map_remove takes the entry found in the row it looks at out of that row.
Removes(m, new, key) ==
  LET r == RowOfInt(key)
      q == m[r].entries
  IN  /\ \A p \in 0..(Rows - 1) : p # r => new[p] = m[p]
      /\ new[r].live = m[r].live
      /\ new[r].entries = SwapRemove(q, MatchIn(q, key))

LEMMA AfterRemoveEffect ==
  ASSUME NEW K, K \subseteq Strings, NEW V, NEW m \in Maps(K, V), NEW key \in K
  PROVE  /\ AfterRemove(m, key) \in Maps(K, V)
         /\ Removes(m, AfterRemove(m, key), key)
         /\ ~RemoveFinds(m, key) => AfterRemove(m, key) = m
<1>. DEFINE E == [key : K, value : Seq(V)]
            new == AfterRemove(m, key)
            r == RowOfInt(key)
            q == m[r].entries
            i == MatchIn(q, key)
<1>1. r \in 0..(Rows - 1)
  BY RowsInRange
<1>2. m[r] \in [live : BOOLEAN, entries : Seq(E)] /\ q \in Seq(E)
  BY <1>1 DEF Maps
<1>3. RemoveFinds(m, key) <=> i # 0
  BY DEF RemoveFinds
<1>4. new = [m EXCEPT ![r] = [m[r] EXCEPT !.entries = SwapRemove(q, i)]]
  BY <1>1 DEF AfterRemove, Maps
<1>. HIDE DEF new, r, q, E
<1>5. i \in Nat
  BY <1>2, MatchInFinds
<1>. HIDE DEF i
<1>6. SwapRemove(q, i) \in Seq(E) /\ (i = 0 => SwapRemove(q, i) = q)
  <2>1. i = 0 => i \notin 1..Len(q)
    OBVIOUS
  <2>. QED  BY <1>2, <1>5, <2>1, SwapRemoveProperties, Zenon
<1>7. m \in [0..(Rows - 1) -> [live : BOOLEAN, entries : Seq(E)]]
  BY DEF Maps, E
<1>8. /\ new[r].live = m[r].live /\ new[r].entries = SwapRemove(q, i)
      /\ new[r] \in [live : BOOLEAN, entries : Seq(E)]
  BY <1>1, <1>2, <1>4, <1>6, <1>7
<1>9. new \in Maps(K, V) /\ \A p \in 0..(Rows - 1) : p # r => new[p] = m[p]
  BY <1>1, <1>4, <1>7, <1>8 DEF Maps, E
<1>10. i = 0 => new = m
  <2>1. i = 0 => [m[r] EXCEPT !.entries = SwapRemove(q, i)] = m[r]
    BY <1>2, <1>6 DEF q
  <2>. QED  BY <1>1, <1>4, <1>7, <2>1
<1>. QED  BY <1>3, <1>8, <1>9, <1>10 DEF new, r, q, i, Removes

-------------------------------------------------------------------------------
(* Every key at its place *)

\* Every entry is in the row of its key, and no other entry has that key.
WellPlaced(m) ==
  \A r \in DOMAIN m : \A i \in DOMAIN m[r].entries :
    /\ RowOf(m[r].entries[i].key) = r
    /\ \A j \in DOMAIN m[r].entries : m[r].entries[i].key = m[r].entries[j].key => i = j

\* A row without entries until it is allocated.
LiveRows(m) == \A r \in DOMAIN m : ~m[r].live => m[r].entries = <<>>

\* Both hold of a map at first.
LEMMA EmptyMapPlaced == WellPlaced(EmptyMap) /\ LiveRows(EmptyMap)
  BY DEF WellPlaced, LiveRows, EmptyMap

\* hash_map_set puts a new entry in the row of its key, where no entry had that key.
LEMMA AfterSetPlaced ==
  ASSUME NEW K, K \subseteq Strings, NEW V, NEW m \in Maps(K, V),
         NEW key \in K, NEW value \in V, WellPlaced(m), LiveRows(m)
  PROVE  WellPlaced(AfterSet(m, key, value)) /\ LiveRows(AfterSet(m, key, value))
<1>. DEFINE E == [key : K, value : Seq(V)]
            new == AfterSet(m, key, value)
            r == RowOf(key)
            i == Match(m, key)
            q == m[r].entries
            p == new[r].entries
            e == NewEntry(key, value)
<1>1. r \in 0..(Rows - 1) /\ q \in Seq(E) /\ i \in Nat /\ i = MatchIn(q, key)
  BY MatchFinds
<1>2. /\ new \in Maps(K, V) /\ \A s \in 0..(Rows - 1) : s # r => new[s] = m[s]
      /\ new[r].live
      /\ i = 0 => p = Append(q, e)
      /\ i # 0 => Len(p) = Len(q) /\ \A j \in 1..Len(q) : p[j].key = q[j].key
  <2>1. new \in Maps(K, V) /\ Sets(m, new, key, value)
    BY AfterSetEffect
  <2>. HIDE DEF new
  <2>. QED  BY <2>1 DEF Sets
<1>3. DOMAIN new = 0..(Rows - 1) /\ DOMAIN m = 0..(Rows - 1)
  BY <1>2 DEF Maps
<1>4. e \in E /\ e.key = key
  BY DEF NewEntry
<1>5. p \in Seq(E)
  BY <1>1, <1>2 DEF Maps
<1>. HIDE DEF new, r, i, p, e, q, E
<1>6. \A j \in 1..Len(q) :
        RowOf(q[j].key) = r /\ \A k \in 1..Len(q) : q[j].key = q[k].key => j = k
  BY <1>1, <1>3 DEF WellPlaced, q
<1>7. ASSUME NEW j \in 1..Len(p)
      PROVE  RowOf(p[j].key) = r /\ \A k \in 1..Len(p) : p[j].key = p[k].key => j = k
  <2>1. CASE i # 0
    BY <1>2, <1>6, <2>1
  <2>2. CASE i = 0
    <3>1. \A k \in 1..Len(q) : ~IsPrefix(key, q[k].key)
      BY <1>1, <2>2, MatchInFinds
    <3>2. \A k \in 1..Len(q) : q[k].key # key
      BY <3>1, BeginsItself
    <3>3. Len(p) = Len(q) + 1 /\ p[Len(q) + 1] = e /\ \A k \in 1..Len(q) : p[k] = q[k]
      BY <1>1, <1>2, <1>4, <2>2, AppendProperties
    <3>4. \A k \in 1..Len(p) : IF k = Len(q) + 1 THEN p[k].key = key
                                                ELSE k \in 1..Len(q) /\ p[k].key = q[k].key
      BY <1>1, <1>4, <3>3
    <3>5. RowOf(key) = r
      BY DEF r
    <3>. QED  BY <1>6, <3>2, <3>4, <3>5
  <2>. QED  BY <2>1, <2>2
<1>8. WellPlaced(new)
  <2>. SUFFICES ASSUME NEW s \in 0..(Rows - 1), NEW j \in DOMAIN new[s].entries
                PROVE  /\ RowOf(new[s].entries[j].key) = s
                       /\ \A k \in DOMAIN new[s].entries :
                            new[s].entries[j].key = new[s].entries[k].key => j = k
    BY <1>3 DEF WellPlaced
  <2>1. CASE s = r
    <3>1. j \in 1..Len(p) /\ DOMAIN new[s].entries = 1..Len(p) /\ new[s].entries = p
      BY <1>5, <2>1 DEF p
    <3>. QED  BY <1>7, <2>1, <3>1
  <2>2. CASE s # r
    BY <1>2, <1>3, <2>2 DEF WellPlaced
  <2>. QED  BY <2>1, <2>2
<1>9. LiveRows(new)
  BY <1>2, <1>3 DEF LiveRows
<1>. QED  BY <1>8, <1>9 DEF new

\* hash_map_remove_value moves no entry.
LEMMA AfterRemoveValuePlaced ==
  ASSUME NEW K, K \subseteq Strings, NEW V, NEW m \in Maps(K, V),
         NEW key \in K, NEW value \in V, WellPlaced(m), LiveRows(m)
  PROVE  /\ WellPlaced(AfterRemoveValue(m, key, value))
         /\ LiveRows(AfterRemoveValue(m, key, value))
<1>. DEFINE new == AfterRemoveValue(m, key, value)
            r == RowOf(key)
<1>1. r \in 0..(Rows - 1)
  BY MatchFinds
<1>2. /\ new \in Maps(K, V) /\ \A s \in 0..(Rows - 1) : s # r => new[s] = m[s]
      /\ new[r].live = m[r].live
      /\ Len(new[r].entries) = Len(m[r].entries)
      /\ \A j \in 1..Len(m[r].entries) : new[r].entries[j].key = m[r].entries[j].key
  <2>1. new \in Maps(K, V) /\ RemovesValue(m, new, key, value)
    BY AfterRemoveValueEffect
  <2>. HIDE DEF new
  <2>. QED  BY <2>1 DEF RemovesValue
<1>3. DOMAIN new = 0..(Rows - 1) /\ DOMAIN m = 0..(Rows - 1)
  BY <1>2 DEF Maps
<1>. HIDE DEF new, r
<1>4. ASSUME NEW s \in 0..(Rows - 1)
      PROVE  /\ DOMAIN new[s].entries = 1..Len(m[s].entries)
             /\ DOMAIN m[s].entries = 1..Len(m[s].entries)
             /\ \A j \in 1..Len(m[s].entries) : new[s].entries[j].key = m[s].entries[j].key
  <2>. DEFINE E == [key : K, value : Seq(V)]
  <2>1. new[s].entries \in Seq(E) /\ m[s].entries \in Seq(E)
    BY <1>2 DEF Maps
  <2>. HIDE DEF E
  <2>. QED  BY <1>2, <2>1
<1>5. WellPlaced(new)
  BY <1>3, <1>4 DEF WellPlaced
<1>6. ASSUME NEW s \in 0..(Rows - 1), ~new[s].live PROVE new[s].entries = <<>>
  <2>. DEFINE E == [key : K, value : Seq(V)]
  <2>1. ~m[s].live
    BY <1>2, <1>6
  <2>2. m[s].entries = <<>>
    BY <1>3, <2>1 DEF LiveRows
  <2>3. Len(new[s].entries) = 0 /\ new[s].entries \in Seq(E)
    BY <1>2, <2>2 DEF Maps
  <2>. HIDE DEF E
  <2>. QED  BY <2>3
<1>. QED  BY <1>3, <1>5, <1>6 DEF LiveRows, new

\* hash_map_remove leaves every other entry in its row.
LEMMA AfterRemovePlaced ==
  ASSUME NEW K, K \subseteq Strings, NEW V, NEW m \in Maps(K, V),
         NEW key \in K, WellPlaced(m), LiveRows(m)
  PROVE  WellPlaced(AfterRemove(m, key)) /\ LiveRows(AfterRemove(m, key))
<1>. DEFINE E == [key : K, value : Seq(V)]
            new == AfterRemove(m, key)
            r == RowOfInt(key)
            q == m[r].entries
            p == new[r].entries
            i == MatchIn(q, key)
<1>1. r \in 0..(Rows - 1)
  BY RowsInRange
<1>2. /\ new \in Maps(K, V) /\ \A s \in 0..(Rows - 1) : s # r => new[s] = m[s]
      /\ new[r].live = m[r].live
      /\ p = SwapRemove(q, i)
  <2>1. new \in Maps(K, V) /\ Removes(m, new, key)
    BY AfterRemoveEffect
  <2>. HIDE DEF new
  <2>. QED  BY <2>1 DEF Removes
<1>3. DOMAIN new = 0..(Rows - 1) /\ DOMAIN m = 0..(Rows - 1)
  BY <1>2 DEF Maps
<1>4. q \in Seq(E) /\ p \in Seq(E)
  BY <1>1, <1>2 DEF Maps
<1>. HIDE DEF new, r, p, q, E
<1>5. i \in Nat
  BY <1>4, MatchInFinds
<1>6. \A j \in 1..Len(q) :
        RowOf(q[j].key) = r /\ \A k \in 1..Len(q) : q[j].key = q[k].key => j = k
  BY <1>1, <1>3, <1>4 DEF WellPlaced, q
<1>. HIDE DEF i
<1>7. ASSUME NEW j \in 1..Len(p)
      PROVE  RowOf(p[j].key) = r /\ \A k \in 1..Len(p) : p[j].key = p[k].key => j = k
  <2>1. CASE i \notin 1..Len(q)
    <3>1. p = q
      BY <1>2, <1>4, <1>5, <2>1, SwapRemoveProperties
    <3>. QED  BY <1>6, <3>1
  <2>2. CASE i \in 1..Len(q)
    <3>1. /\ Len(p) = Len(q) - 1
          /\ \A k \in 1..(Len(q) - 1) : p[k] = IF k = i THEN q[Len(q)] ELSE q[k]
      BY <1>2, <1>4, <1>5, <2>2, SwapRemoveProperties, Zenon
    <3>2. ASSUME NEW k \in 1..Len(p)
          PROVE  \E x \in 1..Len(q) : p[k] = q[x] /\ x = IF k = i THEN Len(q) ELSE k
      BY <1>4, <2>2, <3>1
    <3>3. \A k \in 1..Len(p) : k # Len(q)
      BY <1>4, <3>1
    <3>. QED  BY <1>6, <3>2, <3>3
  <2>. QED  BY <2>1, <2>2
<1>8. WellPlaced(new)
  <2>. SUFFICES ASSUME NEW s \in 0..(Rows - 1), NEW j \in DOMAIN new[s].entries
                PROVE  /\ RowOf(new[s].entries[j].key) = s
                       /\ \A k \in DOMAIN new[s].entries :
                            new[s].entries[j].key = new[s].entries[k].key => j = k
    BY <1>3 DEF WellPlaced
  <2>1. CASE s = r
    <3>1. j \in 1..Len(p) /\ DOMAIN new[s].entries = 1..Len(p) /\ new[s].entries = p
      BY <1>4, <2>1 DEF p
    <3>. QED  BY <1>7, <2>1, <3>1
  <2>2. CASE s # r
    BY <1>2, <1>3, <2>2 DEF WellPlaced
  <2>. QED  BY <2>1, <2>2
<1>9. ASSUME NEW s \in 0..(Rows - 1), ~new[s].live PROVE new[s].entries = <<>>
  <2>1. ~m[s].live
    BY <1>2, <1>9
  <2>2. m[s].entries = <<>>
    BY <1>3, <2>1 DEF LiveRows
  <2>3. CASE s = r
    <3>1. q = <<>> /\ i \notin 1..Len(q)
      BY <2>2, <2>3 DEF q
    <3>2. p = q
      BY <1>2, <3>1 DEF SwapRemove
    <3>. QED  BY <2>3, <3>1, <3>2 DEF p
  <2>4. CASE s # r
    BY <1>2, <2>2, <2>4
  <2>. QED  BY <2>3, <2>4
<1>. QED  BY <1>3, <1>8, <1>9 DEF LiveRows, new

-------------------------------------------------------------------------------
(* Keys of which none begins another *)

\* No key of K begins another one.
PrefixFree(K) == \A a, b \in K : IsPrefix(a, b) => a = b

\* There is an entry of key, and w are its values.
Holds(m, key, w) ==
  \E e \in 1..Len(m[RowOf(key)].entries) :
    m[RowOf(key)].entries[e].key = key /\ m[RowOf(key)].entries[e].value = w

\* Among such keys a lookup finds the key's own entry.
LEMMA PlainFinds ==
  ASSUME NEW K, K \subseteq Strings, PrefixFree(K), NEW V, NEW m \in Maps(K, V),
         WellPlaced(m), NEW key \in K
  PROVE  /\ \A e \in 1..Len(m[RowOf(key)].entries) :
              m[RowOf(key)].entries[e].key = key => Match(m, key) = e
         /\ Found(m, key) => m[RowOf(key)].entries[Match(m, key)].key = key
         /\ \A w : Holds(m, key, w) <=> Found(m, key) /\ ValuesOf(m, key) = w
<1>. DEFINE E == [key : K, value : Seq(V)]
            r == RowOf(key)
            q == m[r].entries
            i == Match(m, key)
<1>1. /\ r \in 0..(Rows - 1) /\ q \in Seq(E) /\ i \in Nat /\ i = MatchIn(q, key)
      /\ Found(m, key) <=> i # 0
      /\ Found(m, key) => i \in 1..Len(q) /\ IsPrefix(key, q[i].key) /\ ValuesOf(m, key) = q[i].value
  BY MatchFinds, ZenonT(30)
<1>2. \A e \in 1..Len(q) : \A f \in 1..Len(q) : q[e].key = q[f].key => e = f
  <2>1. DOMAIN m = 0..(Rows - 1)
    BY DEF Maps
  <2>2. DOMAIN q = 1..Len(q)
    <3>. HIDE DEF E, q
    <3>. QED  BY <1>1
  <2>. QED  BY <1>1, <2>1, <2>2 DEF WellPlaced
<1>. HIDE DEF r, q, i
<1>3. \A e \in 1..Len(q) : q[e] \in E
  <2>. HIDE DEF E
  <2>. QED  BY <1>1
<1>4. \A e \in 1..Len(q) : q[e].key \in K
  BY <1>3
<1>. HIDE DEF E
<1>5. ASSUME NEW e \in 1..Len(q), q[e].key = key PROVE i = e
  <2>1. IsPrefix(key, q[e].key)
    BY <1>5, BeginsItself
  <2>2. i # 0 /\ i \in 1..Len(q) /\ IsPrefix(key, q[i].key)
    BY <1>1, <2>1, MatchInFinds
  <2>3. q[i].key = key
    BY <1>4, <2>2 DEF PrefixFree
  <2>. QED  BY <1>2, <1>5, <2>2, <2>3
<1>6. Found(m, key) => q[i].key = key
  BY <1>1, <1>4 DEF PrefixFree
<1>7. ASSUME NEW w PROVE Holds(m, key, w) <=> Found(m, key) /\ ValuesOf(m, key) = w
  <2>1. Holds(m, key, w) <=> \E e \in 1..Len(q) : q[e].key = key /\ q[e].value = w
    BY DEF Holds, q, r
  <2>2. ASSUME NEW e \in 1..Len(q), q[e].key = key
        PROVE  Found(m, key) /\ ValuesOf(m, key) = q[e].value
    <3>1. i = e /\ e # 0
      BY <1>5, <2>2
    <3>. QED  BY <1>1, <3>1
  <2>. QED  BY <1>1, <1>6, <2>1, <2>2
<1>. QED  BY <1>5, <1>6, <1>7 DEF q, r, i

\* The lookups of every other key of K are the same in new as in m.
SameForOthers(K, m, new, key) ==
  \A k \in K \ {key} :
    /\ Found(new, k) <=> Found(m, k)
    /\ Found(m, k) => ValuesOf(new, k) = ValuesOf(m, k)

\* They are when the same entries are there, wherever they have moved.
LEMMA SameEntries ==
  ASSUME NEW K, K \subseteq Strings, PrefixFree(K), NEW V,
         NEW m \in Maps(K, V), WellPlaced(m), NEW new \in Maps(K, V), WellPlaced(new),
         NEW key \in K,
         \A k \in K \ {key} : \A w : Holds(new, k, w) <=> Holds(m, k, w)
  PROVE  SameForOthers(K, m, new, key)
<1>. SUFFICES ASSUME NEW k \in K \ {key}
              PROVE  /\ Found(new, k) <=> Found(m, k)
                     /\ Found(m, k) => ValuesOf(new, k) = ValuesOf(m, k)
  BY DEF SameForOthers
<1>1. \A w : Found(new, k) /\ ValuesOf(new, k) = w <=> Found(m, k) /\ ValuesOf(m, k) = w
  <2>1. \A w : Holds(m, k, w) <=> Found(m, k) /\ ValuesOf(m, k) = w
    BY PlainFinds
  <2>2. \A w : Holds(new, k, w) <=> Found(new, k) /\ ValuesOf(new, k) = w
    BY PlainFinds
  <2>. QED  BY <2>1, <2>2
<1>. QED  BY <1>1

\* hash_map_set appends the value under its key and nowhere else.
LEMMA PlainSet ==
  ASSUME NEW K, K \subseteq Strings, PrefixFree(K), NEW V, NEW m \in Maps(K, V),
         WellPlaced(m), LiveRows(m), NEW key \in K, NEW value \in V
  PROVE  /\ SameForOthers(K, m, AfterSet(m, key, value), key)
         /\ Found(AfterSet(m, key, value), key)
         /\ Found(m, key) =>
              ValuesOf(AfterSet(m, key, value), key) = Append(ValuesOf(m, key), value)
         /\ ~Found(m, key) => ValuesOf(AfterSet(m, key, value), key) = <<value>>
<1>. DEFINE E == [key : K, value : Seq(V)]
            new == AfterSet(m, key, value)
            r == RowOf(key)
            q == m[r].entries
            p == new[r].entries
            i == Match(m, key)
            e == NewEntry(key, value)
<1>1. new \in Maps(K, V) /\ WellPlaced(new)
  BY AfterSetEffect, AfterSetPlaced
<1>2. Sets(m, new, key, value)
  BY AfterSetEffect
<1>. HIDE DEF new
<1>3. /\ \A s \in 0..(Rows - 1) : s # r => new[s] = m[s]
      /\ i = 0 => p = Append(q, e)
      /\ i # 0 => /\ Len(p) = Len(q)
                  /\ \A j \in 1..Len(q) :
                       /\ p[j].key = q[j].key
                       /\ p[j].value = IF j = i THEN Append(q[j].value, value) ELSE q[j].value
  BY <1>2 DEF Sets
<1>4. /\ r \in 0..(Rows - 1) /\ q \in Seq(E) /\ i \in Nat /\ i = MatchIn(q, key)
      /\ Found(m, key) <=> i # 0
      /\ Found(m, key) => i \in 1..Len(q) /\ ValuesOf(m, key) = q[i].value
  BY MatchFinds, ZenonT(30)
<1>5. Found(m, key) => q[i].key = key
  BY PlainFinds
<1>6. e \in E /\ e.key = key /\ e.value = <<value>>
  BY DEF NewEntry
<1>. HIDE DEF r, q, p, i, e, E
<1>7. i = 0 => /\ Len(p) = Len(q) + 1 /\ p[Len(q) + 1] = e
               /\ \A j \in 1..Len(q) : p[j] = q[j]
  BY <1>3, <1>4, <1>6, AppendProperties
<1>8. Holds(new, key, IF Found(m, key) THEN Append(ValuesOf(m, key), value) ELSE <<value>>)
  <2>1. CASE i # 0
    <3>1. i \in 1..Len(p) /\ p[i].key = key /\ p[i].value = Append(ValuesOf(m, key), value)
      BY <1>3, <1>4, <1>5, <2>1
    <3>. QED  BY <1>4, <2>1, <3>1 DEF Holds, p, r
  <2>2. CASE i = 0
    <3>1. Len(q) \in Nat
      BY <1>4
    <3>2. Len(q) + 1 \in 1..Len(p) /\ p[Len(q) + 1].key = key /\ p[Len(q) + 1].value = <<value>>
      BY <1>6, <1>7, <2>2, <3>1
    <3>. QED  BY <1>4, <2>2, <3>2 DEF Holds, p, r
  <2>. QED  BY <2>1, <2>2
<1>9. ASSUME NEW k \in K \ {key}, NEW w PROVE Holds(new, k, w) <=> Holds(m, k, w)
  <2>0. RowOf(k) \in 0..(Rows - 1)
    BY RowsInRange
  <2>1. CASE RowOf(k) # r
    BY <1>3, <2>0, <2>1 DEF Holds
  <2>2. CASE RowOf(k) = r
    <3>1. /\ Holds(new, k, w) <=> \E j \in 1..Len(p) : p[j].key = k /\ p[j].value = w
          /\ Holds(m, k, w) <=> \E j \in 1..Len(q) : q[j].key = k /\ q[j].value = w
      BY <2>2 DEF Holds, p, q
    <3>2. CASE i # 0
      <4>1. q[i].key # k
        BY <1>4, <1>5, <3>2
      <4>2. \A j \in 1..Len(q) : p[j].key = k /\ p[j].value = w <=> q[j].key = k /\ q[j].value = w
        BY <1>3, <3>2, <4>1
      <4>. QED  BY <1>3, <3>1, <3>2, <4>2
    <3>3. CASE i = 0
      <4>1. Len(q) \in Nat
        BY <1>4
      <4>2. \A j \in 1..Len(p) : j = Len(q) + 1 \/ j \in 1..Len(q)
        BY <1>7, <3>3, <4>1
      <4>3. \A j \in 1..Len(q) : j \in 1..Len(p)
        BY <1>7, <3>3, <4>1
      <4>. QED  BY <1>6, <1>7, <3>1, <3>3, <4>2, <4>3
    <3>. QED  BY <3>2, <3>3
  <2>. QED  BY <2>1, <2>2
<1>10. SameForOthers(K, m, new, key)
  BY <1>1, <1>9, SameEntries
<1>11. /\ Found(new, key)
       /\ ValuesOf(new, key) = IF Found(m, key) THEN Append(ValuesOf(m, key), value) ELSE <<value>>
  BY <1>1, <1>8, PlainFinds
<1>. QED  BY <1>10, <1>11 DEF new

\* hash_map_remove_value takes the value out of the values of its key, if it is there.
LEMMA PlainRemoveValue ==
  ASSUME NEW K, K \subseteq Strings, PrefixFree(K), NEW V, NEW m \in Maps(K, V),
         WellPlaced(m), LiveRows(m), NEW key \in K, NEW value \in V
  PROVE  LET new == AfterRemoveValue(m, key, value)
             v == ValuesOf(m, key)
         IN  /\ SameForOthers(K, m, new, key)
             /\ Found(new, key) <=> Found(m, key)
             /\ Found(m, key) =>
                  /\ ValuesOf(new, key) = SwapRemove(v, IndexOf(v, value))
                  /\ RemoveValueResult(m, key, value) <=> IndexOf(v, value) # 0
<1>. DEFINE E == [key : K, value : Seq(V)]
            new == AfterRemoveValue(m, key, value)
            r == RowOf(key)
            q == m[r].entries
            p == new[r].entries
            i == Match(m, key)
            v == q[i].value
<1>1. new \in Maps(K, V) /\ WellPlaced(new)
  BY AfterRemoveValueEffect, AfterRemoveValuePlaced
<1>2. /\ RemovesValue(m, new, key, value)
      /\ RemoveValueResult(m, key, value) <=> m[r].live /\ (i # 0 => IndexOf(v, value) # 0)
  BY AfterRemoveValueEffect
<1>. HIDE DEF new
<1>3. /\ \A s \in 0..(Rows - 1) : s # r => new[s] = m[s]
      /\ i = 0 => new = m
      /\ Len(p) = Len(q)
      /\ \A j \in 1..Len(q) :
           /\ p[j].key = q[j].key
           /\ p[j].value = IF j = i THEN SwapRemove(v, IndexOf(v, value)) ELSE q[j].value
  BY <1>2 DEF RemovesValue
<1>4. /\ r \in 0..(Rows - 1) /\ q \in Seq(E) /\ i \in Nat
      /\ Found(m, key) <=> i # 0
      /\ Found(m, key) => i \in 1..Len(q) /\ ValuesOf(m, key) = q[i].value
  BY MatchFinds, ZenonT(30)
<1>5. Found(m, key) => q[i].key = key
  BY PlainFinds
<1>6. Found(m, key) => m[r].live
  <2>1. Found(m, key) => q # <<>>
    BY <1>4
  <2>2. DOMAIN m = 0..(Rows - 1)
    BY DEF Maps
  <2>. QED  BY <1>4, <2>1, <2>2, MatchFinds DEF LiveRows, Maps
<1>. HIDE DEF r, q, p, i, E
<1>7. ASSUME NEW k \in K \ {key}, NEW w PROVE Holds(new, k, w) <=> Holds(m, k, w)
  <2>0. RowOf(k) \in 0..(Rows - 1)
    BY RowsInRange
  <2>1. CASE RowOf(k) # r
    BY <1>3, <2>0, <2>1 DEF Holds
  <2>2. CASE RowOf(k) = r
    <3>1. /\ Holds(new, k, w) <=> \E j \in 1..Len(p) : p[j].key = k /\ p[j].value = w
          /\ Holds(m, k, w) <=> \E j \in 1..Len(q) : q[j].key = k /\ q[j].value = w
      BY <2>2 DEF Holds, p, q
    <3>2. i # 0 => q[i].key # k
      BY <1>4, <1>5
    <3>3. \A j \in 1..Len(q) : j = i => i # 0
      BY <1>4
    <3>4. \A j \in 1..Len(q) : p[j].key = k /\ p[j].value = w <=> q[j].key = k /\ q[j].value = w
      BY <1>3, <3>2, <3>3
    <3>. QED  BY <1>3, <3>1, <3>4
  <2>. QED  BY <2>1, <2>2
<1>8. SameForOthers(K, m, new, key)
  BY <1>1, <1>7, SameEntries
<1>9. ASSUME Found(m, key)
      PROVE  Found(new, key) /\ ValuesOf(new, key) = SwapRemove(v, IndexOf(v, value))
  <2>1. Holds(new, key, SwapRemove(v, IndexOf(v, value)))
    BY <1>3, <1>4, <1>5, <1>9 DEF Holds, p, r
  <2>. QED  BY <1>1, <2>1, PlainFinds
<1>10. ~Found(m, key) => ~Found(new, key)
  BY <1>3, <1>4
<1>. QED  BY <1>2, <1>4, <1>6, <1>8, <1>9, <1>10 DEF new, r, q, i

\* hash_map_remove, when it succeeds, takes the entry of its key out of the map.
LEMMA PlainRemove ==
  ASSUME NEW K, K \subseteq Strings, PrefixFree(K), NEW V, NEW m \in Maps(K, V),
         WellPlaced(m), LiveRows(m), NEW key \in K
  PROVE  LET new == AfterRemove(m, key)
         IN  /\ SameForOthers(K, m, new, key)
             /\ RemoveFinds(m, key) => Found(m, key) /\ ~Found(new, key)
             /\ Found(m, key) /\ FitsInt(key) => RemoveFinds(m, key)
<1>. DEFINE E == [key : K, value : Seq(V)]
            new == AfterRemove(m, key)
            r == RowOfInt(key)
            q == m[r].entries
            p == new[r].entries
            i == MatchIn(q, key)
<1>1. new \in Maps(K, V) /\ WellPlaced(new)
  BY AfterRemoveEffect, AfterRemovePlaced
<1>2. Removes(m, new, key) /\ (~RemoveFinds(m, key) => new = m)
  BY AfterRemoveEffect
<1>3. RemoveFinds(m, key) <=> i # 0
  BY DEF RemoveFinds
<1>. HIDE DEF new
<1>4. /\ \A s \in 0..(Rows - 1) : s # r => new[s] = m[s]
      /\ p = SwapRemove(q, i)
  BY <1>2 DEF Removes
<1>5. r \in 0..(Rows - 1)
  BY RowsInRange
<1>6. q \in Seq(E) /\ p \in Seq(E) /\ DOMAIN m = 0..(Rows - 1)
  BY <1>1, <1>5 DEF Maps
<1>7. Found(m, key) /\ FitsInt(key) => RemoveFinds(m, key)
  BY RowsInRange DEF Found, Match, RemoveFinds
<1>. HIDE DEF r, q, p
<1>8. \A j \in 1..Len(q) : q[j] \in E
  <2>. HIDE DEF E
  <2>. QED  BY <1>6
<1>9. \A j \in 1..Len(q) : q[j].key \in K
  BY <1>8
<1>. HIDE DEF E
<1>10. \A j \in 1..Len(q) :
         RowOf(q[j].key) = r /\ \A k \in 1..Len(q) : q[j].key = q[k].key => j = k
  BY <1>5, <1>6 DEF WellPlaced, q
<1>11. i \in Nat /\ (i # 0 => i \in 1..Len(q) /\ IsPrefix(key, q[i].key))
  BY <1>6, MatchInFinds
<1>. HIDE DEF i
<1>12. CASE i = 0
  <2>1. SameForOthers(K, m, new, key)
    BY <1>2, <1>3, <1>12 DEF SameForOthers
  <2>. QED  BY <1>3, <1>7, <1>12, <2>1 DEF new
<1>13. CASE i # 0
  <2>1. q[i].key = key /\ RowOf(key) = r
    BY <1>9, <1>10, <1>11, <1>13 DEF PrefixFree
  <2>2. Holds(m, key, q[i].value)
    BY <1>11, <1>13, <2>1 DEF Holds, q
  <2>3. /\ Len(p) = Len(q) - 1 /\ Len(q) \in Nat
        /\ \A j \in 1..(Len(q) - 1) : p[j] = IF j = i THEN q[Len(q)] ELSE q[j]
    <3>1. i \in 1..Len(q)
      BY <1>11, <1>13
    <3>2. /\ Len(p) = Len(q) - 1
          /\ \A j \in 1..(Len(q) - 1) : p[j] = IF j = i THEN q[Len(q)] ELSE q[j]
      BY <1>4, <1>6, <1>11, <3>1, SwapRemoveProperties, Zenon
    <3>. QED  BY <1>6, <3>2
  <2>4. \A j \in 1..Len(p) : \E x \in 1..Len(q) : x # i /\ p[j] = q[x]
    <3>. SUFFICES ASSUME NEW j \in 1..Len(p) PROVE \E x \in 1..Len(q) : x # i /\ p[j] = q[x]
      OBVIOUS
    <3>1. CASE j = i
      <4>1. Len(q) \in 1..Len(q) /\ Len(q) # i /\ p[j] = q[Len(q)]
        BY <2>3, <3>1
      <4>. QED  BY <4>1
    <3>2. CASE j # i
      <4>1. j \in 1..Len(q) /\ p[j] = q[j]
        BY <2>3, <3>2
      <4>. QED  BY <3>2, <4>1
    <3>. QED  BY <3>1, <3>2
  <2>5. \A x \in 1..Len(q) : x # i => \E j \in 1..Len(p) : p[j] = q[x]
    <3>. SUFFICES ASSUME NEW x \in 1..Len(q), x # i PROVE \E j \in 1..Len(p) : p[j] = q[x]
      OBVIOUS
    <3>1. CASE x = Len(q)
      <4>1. i \in 1..Len(p) /\ p[i] = q[x]
        BY <1>11, <1>13, <2>3, <3>1
      <4>. QED  BY <4>1
    <3>2. CASE x # Len(q)
      <4>1. x \in 1..Len(p) /\ p[x] = q[x]
        BY <2>3, <3>2
      <4>. QED  BY <4>1
    <3>. QED  BY <3>1, <3>2
  <2>6. ASSUME NEW k \in K \ {key}, NEW w PROVE Holds(new, k, w) <=> Holds(m, k, w)
    <3>0. RowOf(k) \in 0..(Rows - 1)
      BY RowsInRange
    <3>1. CASE RowOf(k) # r
      BY <1>4, <3>0, <3>1 DEF Holds
    <3>2. CASE RowOf(k) = r
      <4>1. /\ Holds(new, k, w) <=> \E j \in 1..Len(p) : p[j].key = k /\ p[j].value = w
            /\ Holds(m, k, w) <=> \E j \in 1..Len(q) : q[j].key = k /\ q[j].value = w
        BY <3>2 DEF Holds, p, q
      <4>. QED  BY <2>1, <2>4, <2>5, <4>1
    <3>. QED  BY <3>1, <3>2
  <2>7. SameForOthers(K, m, new, key)
    BY <1>1, <2>6, SameEntries
  <2>8. \A w : ~Holds(new, key, w)
    <3>1. \A w : Holds(new, key, w) => \E j \in 1..Len(p) : p[j].key = key
      BY <2>1 DEF Holds, p
    <3>2. \A j \in 1..Len(p) : p[j].key # key
      BY <1>10, <1>11, <1>13, <2>1, <2>4
    <3>. QED  BY <3>1, <3>2
  <2>9. ~Found(new, key)
    BY <1>1, <2>8, PlainFinds
  <2>10. Found(m, key)
    BY <2>2, PlainFinds
  <2>. QED  BY <1>7, <2>7, <2>9, <2>10 DEF new
<1>. QED  BY <1>12, <1>13
===============================================================================
