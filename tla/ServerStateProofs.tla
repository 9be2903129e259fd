--------------------------- MODULE ServerStateProofs --------------------------
(***************************************************************************)
(* The client list and the hash map of topics tell the same story, for     *)
(* every set of sockets and topics, whatever topics begin others and       *)
(* whatever rows they share.  The argument is a ledger: how often a socket *)
(* occurs in an entry of the map, and how many topics of its metadata lead *)
(* there, change together.                                                 *)
(***************************************************************************)
EXTENDS HashMapOpsProofs, ClientListProofs, ServerState

LOCAL INSTANCE SequencesExt

-------------------------------------------------------------------------------
(* The map as a ledger *)

\* How often x occurs in entry e of row r, 0 where there is no such entry.
Occurs(m, r, e, x) ==
  IF e \in 1..Len(m[r].entries) THEN Occurrences(m[r].entries[e].value, x) ELSE 0

\* It is a number; where it is not 0 there is such an entry and x is in it.
LEMMA OccursType ==
  ASSUME NEW K, NEW V, NEW m \in Maps(K, V), NEW r \in 0..(Rows - 1), NEW e, NEW x
  PROVE  /\ Occurs(m, r, e, x) \in Nat
         /\ Occurs(m, r, e, x) # 0 =>
              /\ e \in 1..Len(m[r].entries)
              /\ \E j \in 1..Len(m[r].entries[e].value) : m[r].entries[e].value[j] = x
<1>. DEFINE E == [key : K, value : Seq(V)]
            q == m[r].entries
<1>1. q \in Seq(E)
  BY DEF Maps
<1>2. ASSUME e \in 1..Len(q) PROVE q[e].value \in Seq(V)
  <2>1. q[e] \in E
    <3>. HIDE DEF E, q
    <3>. QED  BY <1>1, <1>2
  <2>. QED  BY <2>1
<1>3. CASE e \in 1..Len(q)
  <2>. DEFINE v == q[e].value
  <2>1. v \in Seq(V)
    BY <1>2, <1>3
  <2>2. Occurs(m, r, e, x) = Occurrences(v, x)
    BY <1>3 DEF Occurs
  <2>. HIDE DEF v
  <2>3. /\ Occurrences(v, x) \in Nat
        /\ Occurrences(v, x) = 0 <=> \A j \in 1..Len(v) : v[j] # x
    BY <2>1, OccurrencesType
  <2>. QED  BY <1>3, <2>2, <2>3 DEF v
<1>4. CASE e \notin 1..Len(q)
  BY <1>4 DEF Occurs
<1>. QED  BY <1>3, <1>4

\* The ledgers of m and new differ by d for value in entry i of a row, and nowhere else.
Differ(m, new, row, i, value, d) ==
  \A r \in 0..(Rows - 1) : \A e \in Nat \ {0} : \A x :
    Occurs(new, r, e, x) = IF r = row /\ e = i /\ x = value THEN Occurs(m, r, e, x) + d
                                                            ELSE Occurs(m, r, e, x)

\* Every key finds in new what it finds in m.
SameMatches(m, new) == \A k \in Strings : Match(new, k) = Match(m, k)

\* Every key that finds an entry in m finds the same in new.
KeepsFound(m, new) == \A k \in Strings : Found(m, k) => Match(new, k) = Match(m, k)

\* hash_map_set moves no key that finds an entry to another one, finds one for its own
\* key, and enters the value there, once.
LEMMA SetEnters ==
  ASSUME NEW K, K \subseteq Strings, NEW V, NEW m \in Maps(K, V), NEW key \in K, NEW value \in V,
         NEW new, new = AfterSet(m, key, value)
  PROVE  /\ new \in Maps(K, V)
         /\ KeepsFound(m, new)
         /\ Found(new, key)
         /\ Differ(m, new, RowOf(key), Match(new, key), value, 1)
<1>. DEFINE E == [key : K, value : Seq(V)]
            r == RowOf(key)
            q == m[r].entries
            p == new[r].entries
            i == Match(m, key)
            entry == NewEntry(key, value)
<1>1. new \in Maps(K, V) /\ Sets(m, new, key, value)
  BY AfterSetEffect
<1>2. /\ \A s \in 0..(Rows - 1) : s # r => new[s] = m[s]
      /\ i = 0 => p = Append(q, entry)
      /\ i # 0 => /\ Len(p) = Len(q)
                  /\ \A j \in 1..Len(q) :
                       /\ p[j].key = q[j].key
                       /\ p[j].value = IF j = i THEN Append(q[j].value, value) ELSE q[j].value
  BY <1>1 DEF Sets
<1>3. r \in 0..(Rows - 1) /\ q \in Seq(E) /\ i \in Nat /\ i = MatchIn(q, key)
      /\ (i # 0 => i \in 1..Len(q))
  BY MatchFinds
<1>4. entry \in E /\ entry.key = key /\ entry.value = <<value>>
  BY DEF NewEntry
<1>5. p \in Seq(E)
  BY <1>1, <1>3 DEF Maps
<1>6. \A j \in 1..Len(q) : q[j].value \in Seq(V)
  <2>1. \A j \in 1..Len(q) : q[j] \in E
    <3>. HIDE DEF E, q
    <3>. QED  BY <1>3
  <2>. QED  BY <2>1
<1>. HIDE DEF r, q, p, i, entry, E
<1>7. ASSUME NEW k \in Strings, RowOf(k) = r
      PROVE  MatchIn(p, k) = IF MatchIn(q, k) # 0 THEN MatchIn(q, k)
                             ELSE IF i = 0 /\ IsPrefix(k, key) THEN Len(q) + 1 ELSE 0
  <2>1. CASE i = 0
    <3>1. MatchIn(Append(q, entry), k) =
            IF MatchIn(q, k) # 0 THEN MatchIn(q, k)
            ELSE IF IsPrefix(k, entry.key) THEN Len(q) + 1 ELSE 0
      BY <1>3, <1>4, MatchInAppend
    <3>. QED  BY <1>2, <1>4, <2>1, <3>1
  <2>2. CASE i # 0
    <3>1. MatchIn(p, k) = MatchIn(q, k)
      BY <1>2, <1>3, <1>5, <2>2, MatchInSameKeys
    <3>. QED  BY <2>2, <3>1
  <2>. QED  BY <2>1, <2>2
<1>8. ASSUME NEW k \in Strings, Found(m, k) PROVE Match(new, k) = Match(m, k)
  <2>1. Match(new, k) = MatchIn(new[RowOf(k)].entries, k)
        /\ Match(m, k) = MatchIn(m[RowOf(k)].entries, k) /\ Match(m, k) # 0
        /\ RowOf(k) \in 0..(Rows - 1)
    BY <1>8, RowsInRange DEF Match, Found
  <2>2. CASE RowOf(k) = r
    BY <1>7, <2>1, <2>2 DEF p, q
  <2>3. CASE RowOf(k) # r
    BY <1>2, <2>1, <2>3
  <2>. QED  BY <2>2, <2>3
<1>9. Match(new, key) = IF i = 0 THEN Len(q) + 1 ELSE i
  <2>1. Match(new, key) = MatchIn(p, key)
    BY DEF Match, p, r
  <2>2. key \in Strings /\ IsPrefix(key, key) /\ RowOf(key) = r
    BY BeginsItself DEF r
  <2>. QED  BY <1>3, <1>7, <2>1, <2>2
<1>10. Found(new, key)
  BY <1>3, <1>9 DEF Found
<1>11. ASSUME NEW e \in Nat \ {0}, NEW x
       PROVE  Occurs(new, r, e, x) = IF e = Match(new, key) /\ x = value
                                     THEN Occurs(m, r, e, x) + 1 ELSE Occurs(m, r, e, x)
  <2>0. /\ Occurs(new, r, e, x) = IF e \in 1..Len(p) THEN Occurrences(p[e].value, x) ELSE 0
        /\ Occurs(m, r, e, x) = IF e \in 1..Len(q) THEN Occurrences(q[e].value, x) ELSE 0
    BY DEF Occurs, p, q
  <2>1. CASE i # 0
    <3>1. Len(p) = Len(q) /\ Match(new, key) = i /\ i \in 1..Len(q)
      BY <1>2, <1>3, <1>9, <2>1
    <3>2. CASE e = i
      <4>1. Occurrences(Append(q[e].value, value), x) =
              Occurrences(q[e].value, x) + (IF value = x THEN 1 ELSE 0)
        BY <1>6, <3>1, <3>2, OccurrencesAppend
      <4>2. p[e].value = Append(q[e].value, value)
        BY <1>2, <2>1, <3>1, <3>2
      <4>3. Occurrences(q[e].value, x) \in Nat
        BY <1>6, <3>1, <3>2, OccurrencesType
      <4>. QED  BY <2>0, <3>1, <3>2, <4>1, <4>2, <4>3
    <3>3. CASE e # i
      BY <1>2, <2>0, <2>1, <3>1, <3>3
    <3>. QED  BY <3>2, <3>3
  <2>2. CASE i = 0
    <3>1. Len(p) = Len(q) + 1 /\ p[Len(q) + 1] = entry /\ \A j \in 1..Len(q) : p[j] = q[j]
      BY <1>2, <1>3, <1>4, <2>2, AppendProperties
    <3>2. Match(new, key) = Len(q) + 1 /\ Len(q) \in Nat
      BY <1>3, <1>9, <2>2
    <3>3. CASE e = Len(q) + 1
      <4>1. Occurrences(<<value>>, x) = IF value = x THEN 1 ELSE 0
        BY OccurrencesSingle
      <4>2. e \in 1..Len(p) /\ e \notin 1..Len(q) /\ p[e].value = <<value>>
        BY <1>4, <3>1, <3>2, <3>3
      <4>. QED  BY <2>0, <3>2, <3>3, <4>1, <4>2
    <3>4. CASE e # Len(q) + 1
      <4>1. e \in 1..Len(p) <=> e \in 1..Len(q)
        BY <3>1, <3>2, <3>4
      <4>. QED  BY <2>0, <3>1, <3>2, <3>4, <4>1
    <3>. QED  BY <3>3, <3>4
  <2>. QED  BY <2>1, <2>2
<1>12. ASSUME NEW s \in 0..(Rows - 1), s # r, NEW e, NEW x
       PROVE  Occurs(new, s, e, x) = Occurs(m, s, e, x)
  BY <1>2, <1>12 DEF Occurs
<1>13. Differ(m, new, r, Match(new, key), value, 1)
  BY <1>11, <1>12 DEF Differ
<1>. QED  BY <1>1, <1>8, <1>10, <1>13 DEF r, KeepsFound

\* hash_map_remove_value leaves every key at its entry; from the entry of its own key,
\* where the value is, it takes it once.
LEMMA RemoveValueTakes ==
  ASSUME NEW K, K \subseteq Strings, NEW V, NEW m \in Maps(K, V), LiveRows(m),
         NEW key \in K, NEW value \in V, Found(m, key),
         Occurs(m, RowOf(key), Match(m, key), value) # 0,
         NEW new, new = AfterRemoveValue(m, key, value)
  PROVE  /\ new \in Maps(K, V)
         /\ RemoveValueResult(m, key, value)
         /\ SameMatches(m, new)
         /\ Differ(m, new, RowOf(key), Match(m, key), value, -1)
<1>. DEFINE E == [key : K, value : Seq(V)]
            r == RowOf(key)
            q == m[r].entries
            p == new[r].entries
            i == Match(m, key)
            v == q[i].value
            n == IndexOf(v, value)
<1>1. /\ new \in Maps(K, V) /\ RemovesValue(m, new, key, value)
      /\ RemoveValueResult(m, key, value) <=> m[r].live /\ (i # 0 => n # 0)
  BY AfterRemoveValueEffect
<1>2. /\ \A s \in 0..(Rows - 1) : s # r => new[s] = m[s]
      /\ Len(p) = Len(q)
      /\ \A j \in 1..Len(q) :
           /\ p[j].key = q[j].key
           /\ p[j].value = IF j = i THEN SwapRemove(v, n) ELSE q[j].value
  BY <1>1 DEF RemovesValue
<1>3. /\ r \in 0..(Rows - 1) /\ q \in Seq(E) /\ i \in 1..Len(q) /\ i # 0
      /\ v \in Seq(V)
  <2>1. /\ r \in 0..(Rows - 1) /\ q \in Seq(E) /\ i \in 1..Len(q) /\ i # 0
        /\ ValuesOf(m, key) = v /\ ValuesOf(m, key) \in Seq(V)
    BY MatchFinds, ZenonT(30)
  <2>. QED  BY <2>1
<1>4. p \in Seq(E)
  BY <1>1, <1>3 DEF Maps
<1>5. m[r].live
  <2>1. q # <<>>
    BY <1>3
  <2>2. DOMAIN m = 0..(Rows - 1) /\ m[r].live \in BOOLEAN
    BY <1>3 DEF Maps
  <2>. QED  BY <1>3, <2>1, <2>2 DEF LiveRows
<1>. HIDE DEF r, q, p, i, E
<1>6. \E j \in 1..Len(v) : v[j] = value
  <2>1. Occurs(m, r, i, value) # 0
    BY DEF r, i
  <2>. QED  BY <1>3, <2>1, OccursType DEF q
<1>. HIDE DEF v, n
<1>7. n \in 1..Len(v) /\ v[n] = value /\ n # 0
  BY <1>3, <1>6, IndexOfFinds DEF n
<1>8. ASSUME NEW k \in Strings PROVE Match(new, k) = Match(m, k)
  <2>1. Match(new, k) = MatchIn(new[RowOf(k)].entries, k)
        /\ Match(m, k) = MatchIn(m[RowOf(k)].entries, k)
        /\ RowOf(k) \in 0..(Rows - 1)
    BY RowsInRange DEF Match
  <2>2. CASE RowOf(k) = r
    <3>1. MatchIn(p, k) = MatchIn(q, k)
      BY <1>2, <1>3, <1>4, MatchInSameKeys
    <3>. QED  BY <2>1, <2>2, <3>1 DEF p, q
  <2>3. CASE RowOf(k) # r
    BY <1>2, <2>1, <2>3
  <2>. QED  BY <2>2, <2>3
<1>9. ASSUME NEW e \in Nat \ {0}, NEW x
      PROVE  Occurs(new, r, e, x) = IF e = i /\ x = value
                                    THEN Occurs(m, r, e, x) - 1 ELSE Occurs(m, r, e, x)
  <2>0. /\ Occurs(new, r, e, x) = IF e \in 1..Len(q) THEN Occurrences(p[e].value, x) ELSE 0
        /\ Occurs(m, r, e, x) = IF e \in 1..Len(q) THEN Occurrences(q[e].value, x) ELSE 0
    BY <1>2 DEF Occurs, p, q
  <2>1. CASE e = i
    <3>1. Occurrences(SwapRemove(v, n), x) = Occurrences(v, x) - (IF v[n] = x THEN 1 ELSE 0)
      BY <1>3, <1>7, OccurrencesSwapRemove
    <3>2. p[e].value = SwapRemove(v, n) /\ q[e].value = v
      BY <1>2, <1>3, <2>1 DEF v
    <3>3. Occurrences(v, x) \in Nat
      BY <1>3, OccurrencesType
    <3>. QED  BY <1>3, <1>7, <2>0, <2>1, <3>1, <3>2, <3>3
  <2>2. CASE e # i
    BY <1>2, <2>0, <2>2
  <2>. QED  BY <2>1, <2>2
<1>10. ASSUME NEW s \in 0..(Rows - 1), s # r, NEW e, NEW x
       PROVE  Occurs(new, s, e, x) = Occurs(m, s, e, x)
  BY <1>2, <1>10 DEF Occurs
<1>11. Differ(m, new, r, i, value, -1)
  <2>1. ASSUME NEW e \in Nat \ {0}, NEW x PROVE Occurs(m, r, e, x) \in Nat
    BY <1>3, OccursType
  <2>. QED  BY <1>9, <1>10, <2>1 DEF Differ
<1>. QED  BY <1>1, <1>5, <1>7, <1>8, <1>11 DEF r, i, SameMatches

-------------------------------------------------------------------------------
(* Withdrawing a client's topics *)

\* The topics of names from place n + 1 on that lead to entry e of row r.
Left(names, n, r, e) ==
  {j \in 1..Len(names) : j > n /\ RowOf(names[j]) = r /\ Match(topics, names[j]) = e}

\* The map m with which the withdrawal of s goes on: every topic still finds the entry it
\* found at first, and s is in an entry as often as names from n + 1 on lead there.
Withdrawn(m, names, s, n) ==
  /\ m \in Maps(Topics, Sockets) /\ WellPlaced(m) /\ LiveRows(m)
  /\ SameMatches(topics, m)
  /\ \A r \in 0..(Rows - 1) : \A e \in Nat \ {0} : \A x :
       Occurs(m, r, e, x) = IF x = s THEN Cardinality(Left(names, n, r, e))
                                     ELSE Occurs(topics, r, e, x)

\* One step of the loop over names.
WithdrawOne(before, name, s) ==
  IF ~before.ok THEN before
  ELSE [ok  |-> RemoveValueResult(before.map, name, s),
        map |-> AfterRemoveValue(before.map, name, s)]

\* The topics that are left are a finite set, of which the next topic is one.
LEMMA LeftFinite ==
  ASSUME NEW names \in Seq(Topics), NEW n \in 1..Len(names), NEW r, NEW e
  PROVE  /\ IsFiniteSet(Left(names, n, r, e)) /\ IsFiniteSet(Left(names, n - 1, r, e))
         /\ Cardinality(Left(names, n, r, e)) \in Nat
         /\ Cardinality(Left(names, n - 1, r, e)) =
              IF RowOf(names[n]) = r /\ Match(topics, names[n]) = e
              THEN Cardinality(Left(names, n, r, e)) + 1
              ELSE Cardinality(Left(names, n, r, e))
<1>. DEFINE A == Left(names, n, r, e)
            B == Left(names, n - 1, r, e)
<1>1. Len(names) \in Nat /\ n \in Nat
  OBVIOUS
<1>2. IsFiniteSet(1..Len(names))
  BY <1>1, FS_Interval
<1>3. A \subseteq 1..Len(names) /\ B \subseteq 1..Len(names)
  BY DEF Left
<1>4. n \notin A
  BY DEF Left
<1>5. B = IF RowOf(names[n]) = r /\ Match(topics, names[n]) = e THEN A \cup {n} ELSE A
  <2>1. \A j \in 1..Len(names) : j > n - 1 <=> j > n \/ j = n
    OBVIOUS
  <2>. QED  BY <2>1 DEF Left
<1>. HIDE DEF A, B
<1>6. IsFiniteSet(A) /\ IsFiniteSet(B)
  BY <1>2, <1>3, FS_Subset
<1>7. Cardinality(A) \in Nat
  BY <1>6, FS_CardinalityType
<1>8. Cardinality(A \cup {n}) = Cardinality(A) + 1
  BY <1>4, <1>6, FS_AddElement
<1>. QED  BY <1>5, <1>6, <1>7, <1>8 DEF A, B

\* A step of the loop succeeds and takes s out of the entry its topic leads to, once.
LEMMA WithdrawStep ==
  ASSUME NEW names \in Seq(Topics), NEW s \in Sockets, NEW n \in 1..Len(names),
         Found(topics, names[n]), NEW m, Withdrawn(m, names, s, n - 1)
  PROVE  /\ RemoveValueResult(m, names[n], s)
         /\ Withdrawn(AfterRemoveValue(m, names[n], s), names, s, n)
<1>. DEFINE name == names[n]
            new == AfterRemoveValue(m, name, s)
            row == RowOf(name)
            i == Match(topics, name)
<1>0. Topics \subseteq Strings
  BY TopicsAssumption
<1>1. /\ name \in Topics /\ name \in Strings
      /\ row \in 0..(Rows - 1) /\ i # 0
  BY <1>0, RowsInRange DEF Found
<1>2. /\ m \in Maps(Topics, Sockets) /\ WellPlaced(m) /\ LiveRows(m)
      /\ \A k \in Strings : Match(m, k) = Match(topics, k)
      /\ \A r \in 0..(Rows - 1) : \A e \in Nat \ {0} : \A x :
           Occurs(m, r, e, x) = IF x = s THEN Cardinality(Left(names, n - 1, r, e))
                                         ELSE Occurs(topics, r, e, x)
  BY DEF Withdrawn, SameMatches
<1>3. \A r, e : /\ Cardinality(Left(names, n, r, e)) \in Nat
                /\ Cardinality(Left(names, n - 1, r, e)) =
                     IF row = r /\ i = e THEN Cardinality(Left(names, n, r, e)) + 1
                                         ELSE Cardinality(Left(names, n, r, e))
  BY LeftFinite
<1>. HIDE DEF name, row, i
<1>4. Match(m, name) = i /\ Found(m, name)
  BY <1>1, <1>2 DEF Found, i
<1>5. i \in Nat \ {0}
  <2>1. Match(m, name) \in Nat
    BY <1>0, <1>1, <1>2, MatchFinds
  <2>. QED  BY <1>1, <1>4, <2>1
<1>6. Occurs(m, row, i, s) # 0
  BY <1>1, <1>2, <1>3, <1>5
<1>7. /\ new \in Maps(Topics, Sockets)
      /\ RemoveValueResult(m, name, s)
      /\ SameMatches(m, new)
      /\ Differ(m, new, row, i, s, -1)
  <2>1. Occurs(m, RowOf(name), Match(m, name), s) # 0
    BY <1>4, <1>6 DEF row
  <2>. HIDE DEF new
  <2>2. new = AfterRemoveValue(m, name, s)
    BY DEF new
  <2>3. /\ new \in Maps(Topics, Sockets)
        /\ RemoveValueResult(m, name, s)
        /\ SameMatches(m, new)
        /\ Differ(m, new, RowOf(name), Match(m, name), s, -1)
    <3>1. m \in Maps(Topics, Sockets) /\ LiveRows(m) /\ name \in Topics
      BY <1>1, <1>2
    <3>. QED  BY <1>0, <1>4, <2>1, <2>2, <3>1, RemoveValueTakes
  <2>. QED  BY <1>4, <2>3 DEF row
<1>8. WellPlaced(new) /\ LiveRows(new)
  BY <1>0, <1>1, <1>2, AfterRemoveValuePlaced
<1>. HIDE DEF new
<1>9. ASSUME NEW r \in 0..(Rows - 1), NEW e \in Nat \ {0}, NEW x
      PROVE  Occurs(new, r, e, x) = IF x = s THEN Cardinality(Left(names, n, r, e))
                                             ELSE Occurs(topics, r, e, x)
  <2>1. Occurs(new, r, e, x) = IF r = row /\ e = i /\ x = s THEN Occurs(m, r, e, x) + (-1)
                                                            ELSE Occurs(m, r, e, x)
    BY <1>7 DEF Differ
  <2>. QED  BY <1>2, <1>3, <2>1
<1>10. SameMatches(topics, new)
  BY <1>2, <1>7 DEF SameMatches
<1>11. Withdrawn(new, names, s, n)
  BY <1>7, <1>8, <1>9, <1>10 DEF Withdrawn
<1>. QED  BY <1>7, <1>11 DEF new, name

\* The loop over names runs to its end.
LEMMA WithdrawLoops ==
  ASSUME NEW names \in Seq(Topics), NEW s \in Sockets, topics \in Maps(Topics, Sockets)
  PROVE  \E after : /\ after[0] = [ok |-> TRUE, map |-> topics]
                    /\ \A n \in 1..Len(names) : after[n] = WithdrawOne(after[n - 1], names[n], s)
                    /\ Withdraw(names, s) = after[Len(names)]
<1>. DEFINE len == Len(names)
            S == [ok : BOOLEAN, map : Maps(Topics, Sockets)]
            first == [ok |-> TRUE, map |-> topics]
            F == [i \in 1..len |-> [b \in S |-> WithdrawOne(b, names[i], s)]]
            Step(g) == [n \in 0..len |->
                          IF n = 0 THEN first
                          ELSE LET before == g[n - 1] IN
                                 IF ~before.ok THEN before
                                 ELSE [ok  |-> RemoveValueResult(before.map, names[n], s),
                                       map |-> AfterRemoveValue(before.map, names[n], s)]]
            after == CHOOSE g : g = Step(g)
<1>1. len \in Nat /\ \A i \in 1..len : names[i] \in Topics
  OBVIOUS
<1>2. first \in S
  OBVIOUS
<1>3. ASSUME NEW i \in 1..len, NEW b \in S PROVE WithdrawOne(b, names[i], s) \in S
  <2>1. b.map \in Maps(Topics, Sockets) /\ names[i] \in Topics /\ Topics \subseteq Strings
    BY <1>1, TopicsAssumption
  <2>2. AfterRemoveValue(b.map, names[i], s) \in Maps(Topics, Sockets)
    BY <2>1, AfterRemoveValueEffect
  <2>3. RemoveValueResult(b.map, names[i], s) \in BOOLEAN
    BY DEF RemoveValueResult
  <2>. QED  BY <2>2, <2>3 DEF WithdrawOne
<1>. HIDE DEF len, S, first
<1>4. F \in [1..len -> [S -> S]]
  BY <1>3
<1>5. PICK h \in [0..len -> S] : h[0] = first /\ \A i \in 1..len : h[i] = F[i][h[i - 1]]
  <2>. HIDE DEF F
  <2>1. LoopStates(len, S, first, F) # {}
    BY <1>1, <1>2, <1>4, LoopRuns, Zenon
  <2>. QED  BY <2>1 DEF LoopStates
<1>6. h = Step(h)
  <2>1. ASSUME NEW n \in 0..len PROVE h[n] = Step(h)[n]
    <3>1. CASE n = 0
      BY <1>5, <3>1
    <3>2. CASE n # 0
      <4>1. n \in 1..len /\ n - 1 \in 0..len
        BY <1>1, <3>2
      <4>2. h[n] = WithdrawOne(h[n - 1], names[n], s)
        BY <1>5, <4>1
      <4>. QED  BY <3>2, <4>2 DEF WithdrawOne
    <3>. QED  BY <3>1, <3>2
  <2>. QED  BY <2>1
<1>7. after = Step(after)
  <2>. HIDE DEF Step
  <2>. QED  BY <1>6
<1>8. Withdraw(names, s) = after[len]
  BY DEF Withdraw, len, first
<1>. HIDE DEF after
<1>9. after[0] = first
  BY <1>1, <1>7
<1>10. ASSUME NEW n \in 1..len PROVE after[n] = WithdrawOne(after[n - 1], names[n], s)
  <2>1. n \in 0..len /\ n # 0
    BY <1>1
  <2>. QED  BY <1>7, <2>1 DEF WithdrawOne
<1>. QED  BY <1>8, <1>9, <1>10 DEF len, first

\* When every topic finds an entry, and s is in each as often as topics lead there, the
\* loop takes s out of all of them, succeeds, and touches no other socket.
LEMMA WithdrawClears ==
  ASSUME NEW names \in Seq(Topics), NEW s \in Sockets,
         \A n \in 1..Len(names) : Found(topics, names[n]),
         Withdrawn(topics, names, s, 0)
  PROVE  /\ Withdraw(names, s).ok = TRUE
         /\ Withdrawn(Withdraw(names, s).map, names, s, Len(names))
<1>1. topics \in Maps(Topics, Sockets)
  BY DEF Withdrawn
<1>2. PICK after : /\ after[0] = [ok |-> TRUE, map |-> topics]
                   /\ \A n \in 1..Len(names) : after[n] = WithdrawOne(after[n - 1], names[n], s)
                   /\ Withdraw(names, s) = after[Len(names)]
  BY <1>1, WithdrawLoops
<1>. DEFINE len == Len(names)
            Good == {n \in 0..len : after[n].ok = TRUE /\ Withdrawn(after[n].map, names, s, n)}
<1>3. len \in Nat
  OBVIOUS
<1>4. 0 \in Good
  BY <1>2, <1>3
<1>5. ASSUME NEW n \in 1..len, n - 1 \in Good PROVE n \in Good
  <2>. DEFINE m == after[n - 1].map
  <2>1. after[n - 1].ok = TRUE /\ Withdrawn(m, names, s, n - 1)
    BY <1>5
  <2>2. after[n] = [ok |-> RemoveValueResult(m, names[n], s), map |-> AfterRemoveValue(m, names[n], s)]
    BY <1>2, <2>1 DEF WithdrawOne
  <2>. HIDE DEF m
  <2>3. RemoveValueResult(m, names[n], s) /\ Withdrawn(AfterRemoveValue(m, names[n], s), names, s, n)
    BY <2>1, WithdrawStep
  <2>4. RemoveValueResult(m, names[n], s) = TRUE
    BY <2>3 DEF RemoveValueResult
  <2>5. n \in 0..len
    BY <1>3
  <2>. QED  BY <2>2, <2>3, <2>4, <2>5
<1>6. \A n \in 0..len : n \in Good
  <2>. HIDE DEF Good, len
  <2>. QED  BY <1>3, <1>4, <1>5, PlacesInduction
<1>7. len \in Good
  BY <1>3, <1>6
<1>. QED  BY <1>2, <1>7

-------------------------------------------------------------------------------
(* The books *)

\* The places of names of the topics that lead to entry e of row r of m.
Leads(names, m, r, e) ==
  {j \in 1..Len(names) : RowOf(names[j]) = r /\ Match(m, names[j]) = e}

\* No socket is listed twice.
Distinct(f) == \A i, j \in 1..Len(f) : f[i] = f[j] => i = j

\* Every topic of the metadata finds an entry.
AllFound(md, m) ==
  \A i \in 1..Len(md) : \A j \in 1..Len(md[i].topics) : Found(m, md[i].topics[j])

\* No topic of a client begins one that the client had before.
LaterIsNew(md) ==
  \A i \in 1..Len(md) : \A j \in 1..Len(md[i].topics) : \A l \in 1..(j - 1) :
    ~IsPrefix(md[i].topics[j], md[i].topics[l])

\* Every entry owes each client what its topics that lead there are worth, and owes
\* nothing to a socket that is not listed.
Balanced(f, md, m) ==
  \A r \in 0..(Rows - 1) : \A e \in Nat \ {0} :
    /\ \A i \in 1..Len(f) : Occurs(m, r, e, f[i]) = Cardinality(Leads(md[i].topics, m, r, e))
    /\ \A x : (\A i \in 1..Len(f) : f[i] # x) => Occurs(m, r, e, x) = 0

\* The client list f with its metadata md, and the map m.
Books(f, md, m) ==
  /\ f \in Seq(Sockets) /\ md \in Seq(Metadata) /\ Len(md) = Len(f)
  /\ m \in Maps(Topics, Sockets) /\ WellPlaced(m) /\ LiveRows(m)
  /\ Distinct(f) /\ AllFound(md, m) /\ LaterIsNew(md) /\ Balanced(f, md, m)

\* The topics of a client are topics, and strings.
LEMMA NamesType ==
  ASSUME NEW md \in Seq(Metadata), NEW i \in 1..Len(md)
  PROVE  /\ md[i] \in Metadata
         /\ md[i].topics \in Seq(Topics) /\ Len(md[i].topics) \in Nat
         /\ \A j \in 1..Len(md[i].topics) : md[i].topics[j] \in Topics /\ md[i].topics[j] \in Strings
<1>1. md[i] \in Metadata
  OBVIOUS
<1>2. md[i].topics \in Seq(Topics)
  BY <1>1 DEF Metadata
<1>3. ASSUME NEW names \in Seq(Topics)
      PROVE  Len(names) \in Nat /\ \A j \in 1..Len(names) : names[j] \in Topics
  OBVIOUS
<1>. QED  BY <1>1, <1>2, <1>3, TopicsAssumption

\* A new client without topics owes nothing and is owed nothing.
LEMMA BooksAfterAdd ==
  ASSUME NEW f, NEW md, NEW m, Books(f, md, m), NEW s \in Sockets, \A i \in 1..Len(f) : f[i] # s
  PROVE  Books(Append(f, s), Append(md, NewMetadata(s)), m)
<1>. DEFINE g == Append(f, s)
            nd == Append(md, NewMetadata(s))
            n == Len(f) + 1
<1>1. /\ f \in Seq(Sockets) /\ md \in Seq(Metadata) /\ Len(md) = Len(f) /\ Len(f) \in Nat
      /\ m \in Maps(Topics, Sockets) /\ WellPlaced(m) /\ LiveRows(m)
  BY DEF Books
<1>2. NewMetadata(s) \in Metadata /\ Len(NewMetadata(s).topics) = 0
  BY DEF NewMetadata, Metadata
<1>3. /\ g \in Seq(Sockets) /\ Len(g) = n /\ g[n] = s /\ \A i \in 1..Len(f) : g[i] = f[i]
  BY <1>1, AppendProperties
<1>4. /\ nd \in Seq(Metadata) /\ Len(nd) = n /\ nd[n] = NewMetadata(s)
      /\ \A i \in 1..Len(f) : nd[i] = md[i]
  BY <1>1, <1>2, AppendProperties
<1>. HIDE DEF g, nd
<1>5. \A i \in 1..n : i = n \/ i \in 1..Len(f)
  BY <1>1
<1>6. Distinct(g)
  BY <1>3, <1>5 DEF Distinct, Books
<1>7. AllFound(nd, m)
  BY <1>1, <1>2, <1>4, <1>5 DEF AllFound, Books
<1>8. LaterIsNew(nd)
  BY <1>1, <1>2, <1>4, <1>5 DEF LaterIsNew, Books
<1>9. Balanced(g, nd, m)
  <2>. SUFFICES ASSUME NEW r \in 0..(Rows - 1), NEW e \in Nat \ {0}
                PROVE  /\ \A i \in 1..n :
                            Occurs(m, r, e, g[i]) = Cardinality(Leads(nd[i].topics, m, r, e))
                       /\ \A x : (\A i \in 1..n : g[i] # x) => Occurs(m, r, e, x) = 0
    BY <1>3 DEF Balanced
  <2>1. /\ \A i \in 1..Len(f) : Occurs(m, r, e, f[i]) = Cardinality(Leads(md[i].topics, m, r, e))
        /\ \A x : (\A i \in 1..Len(f) : f[i] # x) => Occurs(m, r, e, x) = 0
    BY DEF Books, Balanced
  <2>2. Leads(nd[n].topics, m, r, e) = {}
    BY <1>2, <1>4 DEF Leads
  <2>3. Cardinality(Leads(nd[n].topics, m, r, e)) = 0
    BY <2>2, FS_EmptySet
  <2>4. Occurs(m, r, e, g[n]) = 0
    BY <1>3, <2>1
  <2>5. ASSUME NEW i \in 1..n
        PROVE  Occurs(m, r, e, g[i]) = Cardinality(Leads(nd[i].topics, m, r, e))
    BY <1>3, <1>4, <1>5, <2>1, <2>3, <2>4
  <2>6. ASSUME NEW x, \A i \in 1..n : g[i] # x PROVE Occurs(m, r, e, x) = 0
    <3>1. \A i \in 1..Len(f) : f[i] # x
      BY <1>1, <1>3, <2>6
    <3>. QED  BY <2>1, <3>1
  <2>. QED  BY <2>5, <2>6
<1>. QED  BY <1>1, <1>3, <1>4, <1>6, <1>7, <1>8, <1>9 DEF Books, g, nd

\* Places that lead to an entry are finitely many.
LEMMA LeadsFinite ==
  ASSUME NEW names, Len(names) \in Nat, NEW m, NEW r, NEW e
  PROVE  IsFiniteSet(Leads(names, m, r, e)) /\ Cardinality(Leads(names, m, r, e)) \in Nat
<1>1. IsFiniteSet(1..Len(names))
  BY FS_Interval
<1>2. Leads(names, m, r, e) \subseteq 1..Len(names)
  BY DEF Leads
<1>3. IsFiniteSet(Leads(names, m, r, e))
  BY <1>1, <1>2, FS_Subset
<1>. QED  BY <1>3, FS_CardinalityType

\* A topic that none of the client's topics begins with is entered on both sides.
LEMMA BooksAfterTopic ==
  ASSUME NEW f, NEW md, NEW m, Books(f, md, m), NEW k \in 1..Len(f), NEW topic \in Topics,
         \A j \in 1..Len(md[k].topics) : ~IsPrefix(topic, md[k].topics[j])
  PROVE  Books(f, [md EXCEPT ![k].topics = Append(@, topic)], AfterSet(m, topic, f[k]))
<1>. DEFINE nd == [md EXCEPT ![k].topics = Append(@, topic)]
            new == AfterSet(m, topic, f[k])
            names == md[k].topics
            names2 == Append(names, topic)
            n == Len(names) + 1
            row == RowOf(topic)
            entry == Match(new, topic)
<1>1. /\ f \in Seq(Sockets) /\ md \in Seq(Metadata) /\ Len(md) = Len(f) /\ Len(f) \in Nat
      /\ m \in Maps(Topics, Sockets) /\ WellPlaced(m) /\ LiveRows(m)
      /\ Distinct(f) /\ AllFound(md, m) /\ LaterIsNew(md) /\ Balanced(f, md, m)
  BY DEF Books
<1>2. f[k] \in Sockets /\ k \in 1..Len(md) /\ Topics \subseteq Strings
  BY <1>1, TopicsAssumption
<1>3. /\ md[k] \in Metadata /\ names \in Seq(Topics) /\ Len(names) \in Nat
  BY <1>1, <1>2, NamesType
<1>4. /\ new \in Maps(Topics, Sockets) /\ KeepsFound(m, new) /\ Found(new, topic)
      /\ Differ(m, new, row, entry, f[k], 1)
  BY <1>1, <1>2, SetEnters
<1>5. WellPlaced(new) /\ LiveRows(new)
  BY <1>1, <1>2, AfterSetPlaced
<1>6. /\ names2 \in Seq(Topics) /\ Len(names2) = n /\ names2[n] = topic
      /\ \A j \in 1..Len(names) : names2[j] = names[j]
  BY <1>3, AppendProperties
<1>. HIDE DEF new, names2
<1>7. /\ nd \in Seq(Metadata) /\ Len(nd) = Len(md)
      /\ \A i \in 1..Len(md) : nd[i].topics = IF i = k THEN names2 ELSE md[i].topics
  <2>. DEFINE x == [md[k] EXCEPT !.topics = names2]
  <2>1. x \in Metadata /\ x.topics = names2
    BY <1>3, <1>6 DEF Metadata
  <2>2. nd = [md EXCEPT ![k] = x]
    BY DEF names2
  <2>. HIDE DEF x, nd
  <2>3. [md EXCEPT ![k] = x] \in Seq(Metadata) /\ Len([md EXCEPT ![k] = x]) = Len(md)
        /\ \A i \in 1..Len(md) : [md EXCEPT ![k] = x][i] = IF i = k THEN x ELSE md[i]
    BY <1>1, <1>2, <2>1, ExceptSeq
  <2>4. \A i \in 1..Len(md) : nd[i] = IF i = k THEN x ELSE md[i]
    BY <2>2, <2>3
  <2>5. nd \in Seq(Metadata) /\ Len(nd) = Len(md)
    BY <2>2, <2>3
  <2>. QED  BY <2>1, <2>4, <2>5
<1>. HIDE DEF nd, names
<1>8. \A j \in 1..n : j = n \/ j \in 1..Len(names)
  BY <1>3
<1>9. \A i \in 1..Len(md) : \A j \in 1..Len(md[i].topics) :
        Match(new, md[i].topics[j]) = Match(m, md[i].topics[j]) /\ Found(new, md[i].topics[j])
  <2>. SUFFICES ASSUME NEW i \in 1..Len(md), NEW j \in 1..Len(md[i].topics)
                PROVE  Match(new, md[i].topics[j]) = Match(m, md[i].topics[j])
                       /\ Found(new, md[i].topics[j])
    OBVIOUS
  <2>1. md[i].topics[j] \in Strings
    BY <1>1, NamesType
  <2>2. Found(m, md[i].topics[j])
    BY <1>1 DEF AllFound
  <2>. QED  BY <1>4, <2>1, <2>2 DEF KeepsFound, Found
<1>10. AllFound(nd, new)
  <2>. SUFFICES ASSUME NEW i \in 1..Len(md), NEW j \in 1..Len(nd[i].topics)
                PROVE  Found(new, nd[i].topics[j])
    BY <1>7 DEF AllFound
  <2>1. CASE i = k
    BY <1>2, <1>4, <1>6, <1>7, <1>8, <1>9, <2>1 DEF names
  <2>2. CASE i # k
    BY <1>7, <1>9, <2>2
  <2>. QED  BY <2>1, <2>2
<1>11. LaterIsNew(nd)
  <2>. SUFFICES ASSUME NEW i \in 1..Len(md), NEW j \in 1..Len(nd[i].topics), NEW l \in 1..(j - 1)
                PROVE  ~IsPrefix(nd[i].topics[j], nd[i].topics[l])
    BY <1>7 DEF LaterIsNew
  <2>1. CASE i = k
    <3>1. nd[i].topics = names2 /\ l \in 1..Len(names)
      BY <1>3, <1>6, <1>7, <2>1
    <3>2. CASE j = n
      BY <1>6, <3>1, <3>2 DEF names
    <3>3. CASE j \in 1..Len(names)
      <4>1. ~IsPrefix(names[j], names[l])
        BY <1>1, <1>2, <3>3 DEF LaterIsNew, names
      <4>. QED  BY <1>6, <3>1, <3>3, <4>1
    <3>. QED  BY <1>6, <1>8, <3>1, <3>2, <3>3
  <2>2. CASE i # k
    BY <1>1, <1>7, <2>2 DEF LaterIsNew
  <2>. QED  BY <2>1, <2>2
<1>12. Balanced(f, nd, new)
  <2>. SUFFICES ASSUME NEW r \in 0..(Rows - 1), NEW e \in Nat \ {0}
                PROVE  /\ \A i \in 1..Len(f) :
                            Occurs(new, r, e, f[i]) = Cardinality(Leads(nd[i].topics, new, r, e))
                       /\ \A x : (\A i \in 1..Len(f) : f[i] # x) => Occurs(new, r, e, x) = 0
    BY DEF Balanced
  <2>1. /\ \A i \in 1..Len(f) : Occurs(m, r, e, f[i]) = Cardinality(Leads(md[i].topics, m, r, e))
        /\ \A x : (\A i \in 1..Len(f) : f[i] # x) => Occurs(m, r, e, x) = 0
    BY <1>1 DEF Balanced
  <2>2. \A x : Occurs(new, r, e, x) = IF r = row /\ e = entry /\ x = f[k]
                                      THEN Occurs(m, r, e, x) + 1 ELSE Occurs(m, r, e, x)
    BY <1>4 DEF Differ
  <2>3. ASSUME NEW i \in 1..Len(md) PROVE Leads(md[i].topics, new, r, e) = Leads(md[i].topics, m, r, e)
    BY <1>9 DEF Leads
  <2>4. ASSUME NEW i \in 1..Len(f), i # k
        PROVE  Occurs(new, r, e, f[i]) = Cardinality(Leads(nd[i].topics, new, r, e))
    <3>1. f[i] # f[k]
      BY <1>1, <2>4 DEF Distinct
    <3>2. nd[i].topics = md[i].topics
      BY <1>1, <1>7, <2>4
    <3>. QED  BY <1>1, <2>1, <2>2, <2>3, <3>1, <3>2
  <2>5. Occurs(new, r, e, f[k]) = Cardinality(Leads(nd[k].topics, new, r, e))
    <3>. DEFINE A == Leads(names, m, r, e)
                B == Leads(names2, new, r, e)
    <3>1. n \notin A /\ IsFiniteSet(A) /\ Cardinality(A) \in Nat
      <4>1. n \notin A
        BY <1>3 DEF Leads
      <4>2. IsFiniteSet(A) /\ Cardinality(A) \in Nat
        BY <1>3, LeadsFinite, Zenon
      <4>. QED  BY <4>1, <4>2
    <3>2. B = IF row = r /\ entry = e THEN A \cup {n} ELSE A
      <4>1. A = Leads(names, new, r, e)
        BY <1>2, <2>3 DEF names
      <4>. QED  BY <1>6, <1>8, <4>1 DEF Leads
    <3>3. nd[k].topics = names2
      BY <1>2, <1>7
    <3>4. Occurs(m, r, e, f[k]) = Cardinality(A)
      BY <2>1 DEF names
    <3>. HIDE DEF A, B
    <3>5. Cardinality(A \cup {n}) = Cardinality(A) + 1
      BY <3>1, FS_AddElement
    <3>. QED  BY <2>2, <3>2, <3>3, <3>4, <3>5 DEF B
  <2>6. ASSUME NEW x, \A i \in 1..Len(f) : f[i] # x PROVE Occurs(new, r, e, x) = 0
    BY <2>1, <2>2, <2>6
  <2>. QED  BY <2>4, <2>5, <2>6
<1>. QED  BY <1>1, <1>4, <1>5, <1>7, <1>10, <1>11, <1>12 DEF Books, nd, new

\* Once a client is withdrawn from the map it can be taken off the list.
LEMMA BooksAfterRemove ==
  ASSUME NEW f, NEW md, Books(f, md, topics), NEW k \in 1..Len(f), NEW m,
         Withdrawn(m, md[k].topics, f[k], Len(md[k].topics))
  PROVE  Books(SwapRemove(f, k), SwapRemove(md, k), m)
<1>. DEFINE names == md[k].topics
            s == f[k]
            g == SwapRemove(f, k)
            nd == SwapRemove(md, k)
            len == Len(f) - 1
            old(i) == IF i = k THEN Len(f) ELSE i
<1>1. /\ f \in Seq(Sockets) /\ md \in Seq(Metadata) /\ Len(md) = Len(f) /\ Len(f) \in Nat
      /\ Distinct(f) /\ AllFound(md, topics) /\ LaterIsNew(md) /\ Balanced(f, md, topics)
  BY DEF Books
<1>2. k \in Nat /\ k \in 1..Len(md)
  BY <1>1
<1>3. /\ g \in Seq(Sockets) /\ Len(g) = len
      /\ \A i \in 1..len : g[i] = f[old(i)]
  <2>1. /\ g \in Seq(Sockets) /\ Len(g) = Len(f) - 1
        /\ \A i \in 1..(Len(f) - 1) : g[i] = IF i = k THEN f[Len(f)] ELSE f[i]
    BY <1>1, <1>2, SwapRemoveTakes, Zenon
  <2>. HIDE DEF g
  <2>. QED  BY <2>1
<1>4. /\ nd \in Seq(Metadata) /\ Len(nd) = len
      /\ \A i \in 1..len : nd[i] = md[old(i)]
  <2>1. /\ nd \in Seq(Metadata) /\ Len(nd) = Len(md) - 1
        /\ \A i \in 1..(Len(md) - 1) : nd[i] = IF i = k THEN md[Len(md)] ELSE md[i]
    BY <1>1, <1>2, SwapRemoveTakes, Zenon
  <2>. HIDE DEF nd
  <2>. QED  BY <1>1, <2>1
<1>5. \A i \in 1..len : old(i) \in 1..Len(f) /\ old(i) # k
  BY <1>1
<1>6. \A i, j \in 1..len : old(i) = old(j) => i = j
  BY <1>1
<1>7. \A x \in 1..Len(f) : x # k => \E i \in 1..len : old(i) = x
  <2>. SUFFICES ASSUME NEW x \in 1..Len(f), x # k PROVE \E i \in 1..len : old(i) = x
    OBVIOUS
  <2>1. CASE x = Len(f)
    <3>1. k \in 1..len /\ old(k) = x
      BY <1>1, <2>1
    <3>. QED  BY <3>1
  <2>2. CASE x # Len(f)
    <3>1. x \in 1..len /\ old(x) = x
      BY <1>1, <2>2
    <3>. QED  BY <3>1
  <2>. QED  BY <2>1, <2>2
<1>. HIDE DEF g, nd, old, len
<1>8. /\ m \in Maps(Topics, Sockets) /\ WellPlaced(m) /\ LiveRows(m)
      /\ \A t \in Strings : Match(m, t) = Match(topics, t)
      /\ \A r \in 0..(Rows - 1) : \A e \in Nat \ {0} : \A x :
           Occurs(m, r, e, x) = IF x = s THEN Cardinality(Left(names, Len(names), r, e))
                                         ELSE Occurs(topics, r, e, x)
  BY DEF Withdrawn, SameMatches
<1>9. Distinct(g)
  <2>. SUFFICES ASSUME NEW i \in 1..len, NEW j \in 1..len, g[i] = g[j]
                PROVE  i = j
    BY <1>3 DEF Distinct
  <2>1. f[old(i)] = f[old(j)] /\ old(i) \in 1..Len(f) /\ old(j) \in 1..Len(f)
    BY <1>3, <1>5
  <2>2. old(i) = old(j)
    BY <1>1, <2>1 DEF Distinct
  <2>. QED  BY <1>6, <2>2
<1>10. \A i \in 1..Len(md) : \A j \in 1..Len(md[i].topics) :
         Match(m, md[i].topics[j]) = Match(topics, md[i].topics[j])
  BY <1>1, <1>8, NamesType
<1>11. AllFound(nd, m)
  BY <1>1, <1>4, <1>5, <1>10 DEF AllFound, Found
<1>12. LaterIsNew(nd)
  BY <1>1, <1>4, <1>5 DEF LaterIsNew
<1>13. Balanced(g, nd, m)
  <2>. SUFFICES ASSUME NEW r \in 0..(Rows - 1), NEW e \in Nat \ {0}
                PROVE  /\ \A i \in 1..len :
                            Occurs(m, r, e, g[i]) = Cardinality(Leads(nd[i].topics, m, r, e))
                       /\ \A x : (\A i \in 1..len : g[i] # x) => Occurs(m, r, e, x) = 0
    BY <1>3 DEF Balanced
  <2>1. /\ \A i \in 1..Len(f) : Occurs(topics, r, e, f[i]) = Cardinality(Leads(md[i].topics, topics, r, e))
        /\ \A x : (\A i \in 1..Len(f) : f[i] # x) => Occurs(topics, r, e, x) = 0
    BY <1>1 DEF Balanced
  <2>2. \A x : Occurs(m, r, e, x) = IF x = s THEN Cardinality(Left(names, Len(names), r, e))
                                             ELSE Occurs(topics, r, e, x)
    BY <1>8
  <2>3. ASSUME NEW i \in 1..Len(md) PROVE Leads(md[i].topics, m, r, e) = Leads(md[i].topics, topics, r, e)
    BY <1>10 DEF Leads
  <2>4. ASSUME NEW i \in 1..len
        PROVE  Occurs(m, r, e, g[i]) = Cardinality(Leads(nd[i].topics, m, r, e))
    <3>1. old(i) \in 1..Len(f) /\ old(i) # k /\ g[i] = f[old(i)] /\ nd[i] = md[old(i)]
      BY <1>3, <1>4, <1>5
    <3>2. f[old(i)] # s
      BY <1>1, <3>1 DEF Distinct
    <3>. QED  BY <1>1, <2>1, <2>2, <2>3, <3>1, <3>2
  <2>5. ASSUME NEW x, \A i \in 1..len : g[i] # x PROVE Occurs(m, r, e, x) = 0
    <3>1. CASE x = s
      <4>1. Len(names) \in Nat
        BY <1>1, <1>2, NamesType
      <4>2. Left(names, Len(names), r, e) = {}
        BY <4>1 DEF Left
      <4>. QED  BY <2>2, <3>1, <4>2, FS_EmptySet
    <3>2. CASE x # s
      <4>1. \A i \in 1..Len(f) : f[i] # x
        BY <1>3, <1>7, <2>5, <3>2
      <4>. QED  BY <2>1, <2>2, <3>2, <4>1
    <3>. QED  BY <3>1, <3>2
  <2>. QED  BY <2>4, <2>5
<1>. QED  BY <1>3, <1>4, <1>8, <1>9, <1>11, <1>12, <1>13 DEF Books, g, nd

-------------------------------------------------------------------------------
(* The steps *)

\* What every step of the server state keeps.
StateInv == ListInv /\ Books(fds, metadata, topics)

\* The parts of it that the steps below read.
LEMMA StateParts ==
  ASSUME StateInv
  PROVE  /\ fds \in Seq(Sockets) /\ metadata \in Seq(Metadata) /\ Len(metadata) = Len(fds)
         /\ Len(fds) \in Nat /\ DOMAIN fds = 1..Len(fds) /\ DOMAIN metadata = 1..Len(fds)
         /\ topics \in Maps(Topics, Sockets) /\ WellPlaced(topics) /\ LiveRows(topics)
         /\ Distinct(fds) /\ AllFound(metadata, topics) /\ LaterIsNew(metadata)
         /\ Balanced(fds, metadata, topics)
BY DEF StateInv, Books

LEMMA InitState == Init => StateInv
<1>. SUFFICES ASSUME Init PROVE StateInv
  OBVIOUS
<1>1. /\ fds = <<Listener>> /\ metadata = <<NewMetadata(Listener)>> /\ topics = EmptyMap
      /\ fdsCap = InitialCap /\ metadataCap = InitialCap /\ status = "running" /\ result = TRUE
  BY DEF Init
<1>2. /\ NewMetadata(Listener) \in Metadata /\ NewMetadata(Listener).owner = Listener
      /\ Len(NewMetadata(Listener).topics) = 0
  BY ListenerAssumption DEF NewMetadata, Metadata
<1>3. /\ fds \in Seq(Sockets) /\ Len(fds) = 1 /\ fds[1] = Listener
      /\ metadata \in Seq(Metadata) /\ Len(metadata) = 1 /\ metadata[1] = NewMetadata(Listener)
  BY <1>1, <1>2, ListenerAssumption
<1>4. ListInv
  <2>1. ListTypeOK
    BY <1>1, <1>3, CapAssumption DEF ListTypeOK
  <2>2. InStep
    BY <1>2, <1>3 DEF InStep
  <2>3. RoomInv
    BY <1>1, <1>3, CapAssumption DEF RoomInv
  <2>. QED  BY <2>1, <2>2, <2>3 DEF ListInv
<1>5. topics \in Maps(Topics, Sockets) /\ \A r \in 0..(Rows - 1) : topics[r].entries = <<>>
  BY <1>1, EmptyMapType
<1>6. WellPlaced(topics) /\ LiveRows(topics)
  BY <1>1, EmptyMapPlaced
<1>7. Distinct(fds) /\ AllFound(metadata, topics) /\ LaterIsNew(metadata)
  BY <1>2, <1>3 DEF Distinct, AllFound, LaterIsNew
<1>8. Balanced(fds, metadata, topics)
  <2>. SUFFICES ASSUME NEW r \in 0..(Rows - 1), NEW e \in Nat \ {0}
                PROVE  /\ \A i \in 1..Len(fds) : Occurs(topics, r, e, fds[i])
                                                 = Cardinality(Leads(metadata[i].topics, topics, r, e))
                       /\ \A x : Occurs(topics, r, e, x) = 0
    BY DEF Balanced
  <2>1. \A x : Occurs(topics, r, e, x) = 0
    <3>1. Len(topics[r].entries) = 0
      BY <1>5
    <3>. QED  BY <3>1 DEF Occurs
  <2>2. ASSUME NEW i \in 1..Len(fds) PROVE Cardinality(Leads(metadata[i].topics, topics, r, e)) = 0
    <3>1. Leads(metadata[i].topics, topics, r, e) = {}
      BY <1>2, <1>3 DEF Leads
    <3>. QED  BY <3>1, FS_EmptySet
  <2>. QED  BY <2>1, <2>2
<1>. QED  BY <1>3, <1>4, <1>5, <1>6, <1>7, <1>8 DEF StateInv, Books

\* A socket that is listed has an index, and metadata at it.
LEMMA ListedHasIndex ==
  ASSUME StateInv, NEW s, s \in Listed
  PROVE  /\ GetIdx(s) \in 1..Len(fds) /\ fds[GetIdx(s)] = s /\ GetIdx(s) # 0
         /\ TopicsOf(s) = metadata[GetIdx(s)].topics
         /\ TopicsOf(s) \in Seq(Topics) /\ Len(TopicsOf(s)) \in Nat
<1>1. /\ fds \in Seq(Sockets) /\ metadata \in Seq(Metadata) /\ Len(metadata) = Len(fds)
  BY StateParts
<1>2. /\ GetIdx(s) # 0 => GetIdx(s) \in 1..Len(fds) /\ fds[GetIdx(s)] = s
      /\ GetIdx(s) = 0 => s \notin Listed
  BY <1>1, GetIdxFinds
<1>3. GetIdx(s) \in 1..Len(metadata)
  BY <1>1, <1>2
<1>4. metadata[GetIdx(s)].topics \in Seq(Topics) /\ Len(metadata[GetIdx(s)].topics) \in Nat
  BY <1>1, <1>3, NamesType
<1>. QED  BY <1>2, <1>4 DEF TopicsOf

LEMMA AddClientKeeps ==
  ASSUME StateInv, NEW s \in Sockets, AddClient(s)
  PROVE  StateInv'
<1>1. ListAppend(s) /\ s \notin Listed /\ topics' = topics
  BY DEF AddClient, ListAdd
<1>2. ListInv'
  BY <1>1, AppendKeeps DEF StateInv
<1>3. fds' = Append(fds, s) /\ metadata' = Append(metadata, NewMetadata(s))
  BY <1>1 DEF ListAppend
<1>4. \A i \in 1..Len(fds) : fds[i] # s
  BY <1>1, StateParts DEF Listed
<1>5. Books(fds, metadata, topics)
  BY DEF StateInv
<1>6. Books(Append(fds, s), Append(metadata, NewMetadata(s)), topics)
  BY <1>4, <1>5, BooksAfterAdd
<1>. QED  BY <1>1, <1>2, <1>3, <1>6 DEF StateInv

LEMMA AddTopicKeeps ==
  ASSUME StateInv, NEW s \in Sockets, NEW topic \in Topics, AddTopic(s, topic)
  PROVE  StateInv'
<1>. DEFINE k == GetIdx(s)
<1>1. s \in Listed /\ UNCHANGED <<fds, fdsCap, metadataCap, status>> /\ result' = TRUE
  BY DEF AddTopic
<1>2. /\ k \in 1..Len(fds) /\ fds[k] = s
      /\ TopicsOf(s) = metadata[k].topics
      /\ DOMAIN TopicsOf(s) = 1..Len(TopicsOf(s))
  BY <1>1, ListedHasIndex
<1>3. CASE UNCHANGED <<metadata, topics>>
  <2>1. ListInv'
    BY <1>1, <1>3 DEF StateInv, ListInv, ListTypeOK, InStep, RoomInv
  <2>2. Books(fds', metadata', topics')
    BY <1>1, <1>3 DEF StateInv
  <2>. QED  BY <2>1, <2>2 DEF StateInv
<1>4. CASE ~UNCHANGED <<metadata, topics>>
  <2>1. /\ ~AlreadySubscribed(s, topic)
        /\ metadata' = [metadata EXCEPT ![k].topics = Append(@, topic)]
        /\ topics' = AfterSet(topics, topic, s)
    BY <1>4 DEF AddTopic
  <2>. HIDE DEF k
  <2>2. \A j \in 1..Len(metadata[k].topics) : ~IsPrefix(topic, metadata[k].topics[j])
    BY <1>2, <2>1 DEF AlreadySubscribed
  <2>3. Books(fds, metadata, topics)
    BY DEF StateInv
  <2>4. Books(fds, [metadata EXCEPT ![k].topics = Append(@, topic)], AfterSet(topics, topic, fds[k]))
    BY <1>2, <2>2, <2>3, BooksAfterTopic
  <2>5. Books(fds', metadata', topics')
    BY <1>1, <1>2, <2>1, <2>4
  <2>6. /\ metadata' \in Seq(Metadata) /\ Len(metadata') = Len(fds) /\ Len(metadata) = Len(fds)
    BY <1>1, <2>5, StateParts DEF Books
  <2>7. \A i \in 1..Len(fds) : metadata'[i].owner = metadata[i].owner
    <3>1. DOMAIN metadata = 1..Len(fds) /\ metadata \in Seq(Metadata)
      BY StateParts
    <3>. SUFFICES ASSUME NEW i \in 1..Len(fds) PROVE metadata'[i].owner = metadata[i].owner
      OBVIOUS
    <3>2. metadata[i] \in Metadata
      BY <3>1
    <3>. QED  BY <2>1, <3>1, <3>2 DEF Metadata
  <2>8. ListTypeOK'
    BY <1>1, <2>6 DEF StateInv, ListInv, ListTypeOK
  <2>9. InStep'
    <3>1. DOMAIN fds = 1..Len(fds)
      BY StateParts
    <3>. QED  BY <1>1, <2>6, <2>7, <3>1 DEF StateInv, ListInv, InStep
  <2>10. RoomInv'
    BY <1>1, <2>6 DEF StateInv, ListInv, RoomInv
  <2>. QED  BY <2>5, <2>8, <2>9, <2>10 DEF StateInv, ListInv
<1>. QED  BY <1>3, <1>4

\* The withdrawal of a listed client's topics succeeds, and the client is taken off.
LEMMA RemovalWorks ==
  ASSUME StateInv, NEW s \in Sockets, s \in Listed, RemoveClient(s)
  PROVE  /\ ListRemove(s) /\ s \notin Listed'
         /\ Books(fds', metadata', topics')
<1>. DEFINE k == GetIdx(s)
            names == TopicsOf(s)
            out == Withdraw(names, s)
<1>1. /\ k \in 1..Len(fds) /\ fds[k] = s /\ k # 0
      /\ names = metadata[k].topics /\ names \in Seq(Topics) /\ Len(names) \in Nat
  BY ListedHasIndex
<1>2. topics' = out.map /\ (out.ok \/ ~out.ok) /\ (out.ok => ListRemove(s))
  BY DEF RemoveClient
<1>3. /\ fds \in Seq(Sockets) /\ Len(fds) \in Nat /\ Len(metadata) = Len(fds)
      /\ topics \in Maps(Topics, Sockets) /\ WellPlaced(topics) /\ LiveRows(topics)
      /\ Distinct(fds) /\ AllFound(metadata, topics) /\ Balanced(fds, metadata, topics)
  BY StateParts
<1>4. \A n \in 1..Len(names) : Found(topics, names[n])
  BY <1>1, <1>3 DEF AllFound
<1>. HIDE DEF k, names
<1>5. Withdrawn(topics, names, s, 0)
  <2>1. SameMatches(topics, topics)
    BY DEF SameMatches
  <2>2. ASSUME NEW r \in 0..(Rows - 1), NEW e \in Nat \ {0}, NEW x, x = s
        PROVE  Occurs(topics, r, e, x) = Cardinality(Left(names, 0, r, e))
    <3>1. Left(names, 0, r, e) = Leads(names, topics, r, e)
      BY <1>1 DEF Left, Leads
    <3>2. Occurs(topics, r, e, fds[k]) = Cardinality(Leads(metadata[k].topics, topics, r, e))
      BY <1>1, <1>3 DEF Balanced
    <3>. QED  BY <1>1, <2>2, <3>1, <3>2
  <2>. QED  BY <1>3, <2>1, <2>2 DEF Withdrawn
<1>6. out.ok = TRUE /\ Withdrawn(out.map, names, s, Len(names))
  BY <1>1, <1>4, <1>5, WithdrawClears
<1>7. ListRemove(s)
  BY <1>2, <1>6
<1>8. /\ fds' = SwapRemove(fds, k) /\ metadata' = SwapRemove(metadata, k)
  BY <1>1, <1>7 DEF ListRemove, k
<1>9. Books(fds, metadata, topics)
  BY DEF StateInv
<1>10. Withdrawn(topics', metadata[k].topics, fds[k], Len(metadata[k].topics))
  BY <1>1, <1>2, <1>6
<1>. HIDE DEF out
<1>11. Books(SwapRemove(fds, k), SwapRemove(metadata, k), topics')
  BY <1>1, <1>9, <1>10, BooksAfterRemove
<1>12. s \notin Listed'
  <2>1. k \in Nat
    BY <1>1, <1>3
  <2>2. /\ fds' \in Seq(Sockets) /\ Len(fds') = Len(fds) - 1
        /\ \A j \in 1..(Len(fds) - 1) : fds'[j] = IF j = k THEN fds[Len(fds)] ELSE fds[j]
    BY <1>1, <1>3, <1>8, <2>1, SwapRemoveTakes, ZenonT(30)
  <2>3. ASSUME NEW j \in 1..(Len(fds) - 1) PROVE fds'[j] # s
    <3>1. CASE j = k
      <4>1. Len(fds) \in 1..Len(fds) /\ Len(fds) # k /\ fds'[j] = fds[Len(fds)]
        BY <1>3, <2>2, <3>1
      <4>. QED  BY <1>1, <1>3, <4>1 DEF Distinct
    <3>2. CASE j # k
      <4>1. j \in 1..Len(fds) /\ fds'[j] = fds[j]
        BY <1>3, <2>2, <3>2
      <4>. QED  BY <1>1, <1>3, <3>2, <4>1 DEF Distinct
    <3>. QED  BY <3>1, <3>2
  <2>4. Listed' = {fds'[j] : j \in 1..(Len(fds) - 1)}
    BY <2>2 DEF Listed
  <2>. QED  BY <2>3, <2>4
<1>. QED  BY <1>7, <1>8, <1>11, <1>12

LEMMA RemoveClientKeeps ==
  ASSUME StateInv, NEW s \in Sockets, RemoveClient(s)
  PROVE  StateInv'
<1>1. CASE s \in Listed
  <2>1. ListRemove(s) /\ Books(fds', metadata', topics')
    BY <1>1, RemovalWorks
  <2>2. ListInv'
    BY <2>1, RemoveKeeps DEF StateInv
  <2>. QED  BY <2>1, <2>2 DEF StateInv
<1>2. CASE s \notin Listed
  <2>1. result' = FALSE /\ UNCHANGED <<fds, metadata, fdsCap, metadataCap, status, topics>>
    BY <1>2 DEF RemoveClient
  <2>2. ListInv'
    BY <2>1 DEF StateInv, ListInv, ListTypeOK, InStep, RoomInv
  <2>. QED  BY <2>1, <2>2 DEF StateInv
<1>. QED  BY <1>1, <1>2

LEMMA StateInvariant == Spec => []StateInv
<1>1. StateInv /\ [Next]_vars => StateInv'
  <2>. SUFFICES ASSUME StateInv, [Next]_vars PROVE StateInv'
    OBVIOUS
  <2>0. Clients \subseteq Sockets
    BY DEF Clients
  <2>1. CASE UNCHANGED vars
    BY <2>1 DEF vars, listVars, StateInv, ListInv, ListTypeOK, InStep, RoomInv
  <2>2. ASSUME NEW s \in Clients, AddClient(s) PROVE StateInv'
    BY <2>0, <2>2, AddClientKeeps
  <2>3. ASSUME NEW s \in Clients, RemoveClient(s) PROVE StateInv'
    BY <2>0, <2>3, RemoveClientKeeps
  <2>4. ASSUME NEW s \in Clients, NEW topic \in Topics, AddTopic(s, topic) PROVE StateInv'
    BY <2>0, <2>4, AddTopicKeeps
  <2>5. ASSUME NEW s \in Clients, NEW topic \in Topics, AddTopicGone(s, topic) PROVE StateInv'
    BY <2>5 DEF AddTopicGone, StateInv, ListInv, ListTypeOK, InStep, RoomInv
  <2>. QED  BY <2>1, <2>2, <2>3, <2>4, <2>5 DEF Next
<1>. QED  BY InitState, <1>1, PTL DEF Spec

-------------------------------------------------------------------------------
(* The theorems *)

\* The types of the server's state, for all sockets, topics and sizes of the map.
THEOREM StateTypeCorrect == Spec => []StateTypeOK
<1>1. StateInv => StateTypeOK
  BY DEF StateInv, ListInv, Books, Maps, StateTypeOK
<1>. QED  BY StateInvariant, <1>1, PTL

\* What an invariant says of the map at a place of the client list.
LEMMA LeadingToLeads ==
  ASSUME StateInv, NEW i \in 1..Len(fds), NEW r, NEW e
  PROVE  LeadingTo(i, r, e) = Leads(metadata[i].topics, topics, r, e)
<1>1. metadata[i].topics \in Seq(Topics)
  BY StateParts, NamesType
<1>. QED  BY <1>1 DEF LeadingTo, Leads

\* The values of an entry are a sequence of sockets.
LEMMA EntryType ==
  ASSUME NEW K, NEW V, NEW m \in Maps(K, V), NEW r \in DOMAIN m, NEW e \in DOMAIN m[r].entries
  PROVE  /\ r \in 0..(Rows - 1) /\ e \in Nat \ {0} /\ e \in 1..Len(m[r].entries)
         /\ m[r].entries[e].key \in K /\ m[r].entries[e].value \in Seq(V)
<1>. DEFINE E == [key : K, value : Seq(V)]
            q == m[r].entries
<1>1. r \in 0..(Rows - 1) /\ q \in Seq(E)
  BY DEF Maps
<1>2. q[e] \in E /\ e \in 1..Len(q) /\ e \in Nat \ {0}
  <2>. HIDE DEF E, q
  <2>1. q \in Seq(E) /\ e \in DOMAIN q
    BY <1>1 DEF q
  <2>. QED  BY <2>1
<1>. QED  BY <1>1, <1>2

\* Entries and subscriptions stay balanced: through any sequence of adds, subscriptions
\* and removals, with any prefixes and collisions, nothing is left behind in the map.
THEOREM BooksStayBalanced == Spec => []BooksBalance
<1>1. StateInv => BooksBalance
  <2>. SUFFICES ASSUME StateInv, NEW r \in DOMAIN topics, NEW e \in DOMAIN topics[r].entries
                PROVE  LET sockets == topics[r].entries[e].value IN
                         /\ \A i \in DOMAIN fds :
                              Occurrences(sockets, fds[i]) = Cardinality(LeadingTo(i, r, e))
                         /\ \A j \in DOMAIN sockets : sockets[j] \in Listed
    BY DEF BooksBalance
  <2>. DEFINE sockets == topics[r].entries[e].value
  <2>1. topics \in Maps(Topics, Sockets) /\ DOMAIN fds = 1..Len(fds) /\ Balanced(fds, metadata, topics)
    BY StateParts
  <2>2. /\ r \in 0..(Rows - 1) /\ e \in Nat \ {0} /\ e \in 1..Len(topics[r].entries)
        /\ sockets \in Seq(Sockets)
    BY <2>1, EntryType
  <2>3. \A x : Occurs(topics, r, e, x) = Occurrences(sockets, x)
    BY <2>2 DEF Occurs
  <2>4. /\ \A i \in 1..Len(fds) : Occurs(topics, r, e, fds[i])
                                  = Cardinality(Leads(metadata[i].topics, topics, r, e))
        /\ \A x : (\A i \in 1..Len(fds) : fds[i] # x) => Occurs(topics, r, e, x) = 0
    BY <2>1, <2>2 DEF Balanced
  <2>. HIDE DEF sockets
  <2>5. \A i \in DOMAIN fds : Occurrences(sockets, fds[i]) = Cardinality(LeadingTo(i, r, e))
    BY <2>1, <2>3, <2>4, LeadingToLeads
  <2>6. ASSUME NEW j \in DOMAIN sockets PROVE sockets[j] \in Listed
    <3>1. Occurrences(sockets, sockets[j]) # 0
      BY <2>2, OccurrencesType
    <3>2. \E i \in 1..Len(fds) : fds[i] = sockets[j]
      BY <2>3, <2>4, <3>1
    <3>. QED  BY <2>1, <3>2 DEF Listed
  <2>. QED  BY <2>5, <2>6 DEF sockets
<1>. QED  BY StateInvariant, <1>1, PTL

\* A topic in the metadata of a client always finds an entry in the map.
THEOREM TopicsStayFound == Spec => []TopicsAreFound
<1>1. StateInv => TopicsAreFound
  <2>. SUFFICES ASSUME StateInv, NEW i \in DOMAIN metadata, NEW j \in DOMAIN metadata[i].topics
                PROVE  Found(topics, metadata[i].topics[j])
    BY DEF TopicsAreFound
  <2>1. i \in 1..Len(metadata) /\ metadata \in Seq(Metadata) /\ AllFound(metadata, topics)
    BY StateParts
  <2>2. j \in 1..Len(metadata[i].topics)
    BY <2>1, NamesType
  <2>. QED  BY <2>1, <2>2 DEF AllFound
<1>. QED  BY StateInvariant, <1>1, PTL

\* Wherever hash_map_set puts a topic, hash_map_get looks for it, and there is no
\* second entry it could find instead.
THEOREM TopicsHaveOneEntry == Spec => []OneEntryPerTopic
<1>1. StateInv => OneEntryPerTopic
  <2>1. StateInv => WellPlaced(topics)
    BY StateParts
  <2>. QED  BY <2>1 DEF WellPlaced, OneEntryPerTopic
<1>. QED  BY StateInvariant, <1>1, PTL

\* A listed client can always be removed: no topic of its metadata fails to be taken
\* out of the map, so process_poll_events never ends the server for it.
THEOREM RemovalsSucceed == Spec => RemovalSucceeds
<1>. DEFINE Removal == \A s \in Clients :
                         RemoveClient(s) /\ s \in Listed
                           => result' /\ s \notin {fds'[i] : i \in DOMAIN fds'}
<1>1. StateInv => Removal
  <2>. SUFFICES ASSUME StateInv, NEW s \in Clients, RemoveClient(s), s \in Listed
                PROVE  result' /\ s \notin {fds'[i] : i \in DOMAIN fds'}
    OBVIOUS
  <2>1. s \in Sockets
    BY DEF Clients
  <2>2. ListRemove(s) /\ s \notin Listed'
    BY <2>1, RemovalWorks
  <2>3. result' = TRUE
    BY <2>2 DEF ListRemove
  <2>. QED  BY <2>2, <2>3 DEF Listed
<1>2. StateInv /\ [Next]_vars => [Removal]_vars
  <2>. HIDE DEF Removal
  <2>. QED  BY <1>1
<1>. HIDE DEF Removal
<1>3. Spec => [][Removal]_vars
  BY StateInvariant, <1>2, PTL DEF Spec
<1>. QED  BY <1>3 DEF RemovalSucceeds, Removal

\* A plain topic finds an entry of its own only.
LEMMA PlainEntry ==
  ASSUME StateInv, NEW topic \in Topics, Plain(topic), Found(topics, topic)
  PROVE  /\ RowOf(topic) \in 0..(Rows - 1) /\ Match(topics, topic) \in Nat \ {0}
         /\ Match(topics, topic) \in 1..Len(topics[RowOf(topic)].entries)
         /\ topics[RowOf(topic)].entries[Match(topics, topic)].key = topic
         /\ Receivers(topic) = topics[RowOf(topic)].entries[Match(topics, topic)].value
         /\ Receivers(topic) \in Seq(Sockets)
<1>. DEFINE r == RowOf(topic)
            e == Match(topics, topic)
<1>1. topic \in Strings /\ Topics \subseteq Strings /\ topics \in Maps(Topics, Sockets)
  BY TopicsAssumption, StateParts
<1>2. /\ r \in 0..(Rows - 1) /\ e \in Nat \ {0} /\ e \in 1..Len(topics[r].entries)
      /\ IsPrefix(topic, topics[r].entries[e].key)
      /\ ValuesOf(topics, topic) = topics[r].entries[e].value
      /\ ValuesOf(topics, topic) \in Seq(Sockets)
  BY <1>1, MatchFinds, ZenonT(30)
<1>3. r \in DOMAIN topics /\ e \in DOMAIN topics[r].entries
  <2>1. topics[r].entries \in Seq([key : Topics, value : Seq(Sockets)])
    BY <1>1, MatchFinds
  <2>. QED  BY <1>1, <1>2, <2>1 DEF Maps
<1>4. topics[r].entries[e].key \in Topics
  BY <1>1, <1>3, EntryType
<1>5. topics[r].entries[e].key = topic
  BY <1>2, <1>4 DEF Plain
<1>. QED  BY <1>2, <1>5 DEF Receivers

\* The topics of a client that lead to the entry of a plain topic are that topic.
LEMMA PlainLeads ==
  ASSUME StateInv, NEW topic \in Topics, Plain(topic), Found(topics, topic),
         NEW i \in 1..Len(fds),
         NEW j \in Leads(metadata[i].topics, topics, RowOf(topic), Match(topics, topic))
  PROVE  j \in 1..Len(metadata[i].topics) /\ metadata[i].topics[j] = topic
<1>. DEFINE r == RowOf(topic)
            e == Match(topics, topic)
            name == metadata[i].topics[j]
<1>1. /\ topics \in Maps(Topics, Sockets) /\ AllFound(metadata, topics)
      /\ metadata \in Seq(Metadata) /\ Len(metadata) = Len(fds) /\ Topics \subseteq Strings
  BY StateParts, TopicsAssumption
<1>2. j \in 1..Len(metadata[i].topics) /\ RowOf(name) = r /\ Match(topics, name) = e
  BY DEF Leads
<1>3. name \in Topics /\ name \in Strings
  BY <1>1, <1>2, NamesType
<1>4. Found(topics, name)
  BY <1>1, <1>2 DEF AllFound
<1>5. IsPrefix(name, topics[r].entries[e].key)
  <2>. HIDE DEF name, r, e
  <2>1. IsPrefix(name, topics[RowOf(name)].entries[Match(topics, name)].key)
    BY <1>1, <1>3, <1>4, MatchFinds
  <2>. QED  BY <1>2, <2>1
<1>6. topics[r].entries[e].key = topic
  BY PlainEntry
<1>. QED  BY <1>2, <1>3, <1>5, <1>6 DEF Plain

\* A message on a topic that neither begins another nor is begun by one goes to exactly
\* the subscribers of that topic, each once.
THEOREM DeliveryIsExact == Spec => []ExactDelivery
<1>1. StateInv => ExactDelivery
  <2>. SUFFICES ASSUME StateInv, NEW topic \in Topics, Plain(topic)
                PROVE  /\ \A i \in DOMAIN fds :
                            (\E j \in DOMAIN metadata[i].topics : metadata[i].topics[j] = topic)
                              <=> fds[i] \in ToSet(Receivers(topic))
                       /\ IsInjective(Receivers(topic))
    BY DEF ExactDelivery
  <2>. DEFINE r == RowOf(topic)
              e == Match(topics, topic)
              v == Receivers(topic)
  <2>1. /\ topics \in Maps(Topics, Sockets) /\ AllFound(metadata, topics)
        /\ metadata \in Seq(Metadata) /\ Len(metadata) = Len(fds) /\ Len(fds) \in Nat
        /\ DOMAIN fds = 1..Len(fds) /\ LaterIsNew(metadata)
        /\ Balanced(fds, metadata, topics) /\ topic \in Strings
    BY StateParts, TopicsAssumption
  <2>2. \A i \in 1..Len(fds) : /\ DOMAIN metadata[i].topics = 1..Len(metadata[i].topics)
                               /\ Len(metadata[i].topics) \in Nat
    BY <2>1, NamesType
  <2>3. CASE ~Found(topics, topic)
    <3>1. v = <<>>
      BY <2>3 DEF Receivers
    <3>2. ToSet(v) = {} /\ IsInjective(v)
      BY <3>1 DEF ToSet, IsInjective
    <3>3. ASSUME NEW i \in DOMAIN fds, NEW j \in DOMAIN metadata[i].topics
          PROVE  metadata[i].topics[j] # topic
      BY <2>1, <2>2, <2>3 DEF AllFound
    <3>. QED  BY <3>2, <3>3
  <2>4. CASE Found(topics, topic)
    <3>1. /\ r \in 0..(Rows - 1) /\ e \in Nat \ {0} /\ e \in 1..Len(topics[r].entries)
          /\ v = topics[r].entries[e].value /\ v \in Seq(Sockets)
      BY <2>4, PlainEntry
    <3>2. \A x : Occurs(topics, r, e, x) = Occurrences(v, x)
      BY <3>1 DEF Occurs
    <3>. HIDE DEF r, e, v
    <3>3. \A i \in 1..Len(fds) : Occurrences(v, fds[i]) = Cardinality(Leads(metadata[i].topics, topics, r, e))
      BY <2>1, <3>1, <3>2 DEF Balanced
    <3>4. \A x : (\A i \in 1..Len(fds) : fds[i] # x) => Occurrences(v, x) = 0
      BY <2>1, <3>1, <3>2 DEF Balanced
    <3>5. ASSUME NEW i \in 1..Len(fds)
          PROVE  Leads(metadata[i].topics, topics, r, e)
                   = {j \in 1..Len(metadata[i].topics) : metadata[i].topics[j] = topic}
      <4>1. ASSUME NEW j \in Leads(metadata[i].topics, topics, r, e)
            PROVE  j \in 1..Len(metadata[i].topics) /\ metadata[i].topics[j] = topic
        BY <2>4, PlainLeads DEF r, e
      <4>2. ASSUME NEW j \in 1..Len(metadata[i].topics), metadata[i].topics[j] = topic
            PROVE  j \in Leads(metadata[i].topics, topics, r, e)
        BY <4>2 DEF Leads, r, e
      <4>. QED  BY <4>1, <4>2
    <3>6. ASSUME NEW i \in DOMAIN fds
          PROVE  (\E j \in DOMAIN metadata[i].topics : metadata[i].topics[j] = topic)
                   <=> fds[i] \in ToSet(v)
      <4>. DEFINE L == Leads(metadata[i].topics, topics, r, e)
      <4>1. i \in 1..Len(fds)
        BY <2>1
      <4>2. IsFiniteSet(L) /\ Cardinality(L) \in Nat /\ Occurrences(v, fds[i]) = Cardinality(L)
        BY <2>2, <3>3, <4>1, LeadsFinite
      <4>3. L # {} <=> \E j \in DOMAIN metadata[i].topics : metadata[i].topics[j] = topic
        BY <2>2, <3>5, <4>1
      <4>. HIDE DEF L
      <4>4. L # {} <=> Occurrences(v, fds[i]) # 0
        BY <4>2, FS_EmptySet
      <4>5. Occurrences(v, fds[i]) # 0 <=> \E j \in 1..Len(v) : v[j] = fds[i]
        BY <3>1, OccurrencesType
      <4>6. fds[i] \in ToSet(v) <=> \E j \in 1..Len(v) : v[j] = fds[i]
        BY <3>1 DEF ToSet
      <4>. QED  BY <4>3, <4>4, <4>5, <4>6
    <3>7. ASSUME NEW x PROVE Occurrences(v, x) <= 1
      <4>1. CASE \A i \in 1..Len(fds) : fds[i] # x
        BY <3>4, <4>1
      <4>2. CASE \E i \in 1..Len(fds) : fds[i] = x
        <5>1. PICK i \in 1..Len(fds) : fds[i] = x
          BY <4>2
        <5>. DEFINE L == Leads(metadata[i].topics, topics, r, e)
        <5>2. Occurrences(v, x) = Cardinality(L)
          BY <3>3, <5>1
        <5>3. ASSUME NEW a \in L, NEW b \in L, b < a PROVE FALSE
          <6>1. /\ a \in 1..Len(metadata[i].topics) /\ b \in 1..Len(metadata[i].topics)
                /\ metadata[i].topics[a] = topic /\ metadata[i].topics[b] = topic
            BY <3>5
          <6>2. i \in 1..Len(metadata) /\ b \in 1..(a - 1)
            BY <2>1, <5>3, <6>1
          <6>3. ~IsPrefix(topic, topic)
            BY <2>1, <6>1, <6>2 DEF LaterIsNew
          <6>. QED  BY <2>1, <6>3, BeginsItself
        <5>4. L \subseteq Nat
          BY <3>5
        <5>. HIDE DEF L
        <5>5. \A a, b \in L : a = b
          BY <5>3, <5>4
        <5>6. L = {} \/ \E a : L = {a}
          BY <5>5
        <5>7. Cardinality(L) = 0 \/ Cardinality(L) = 1
          BY <5>6, FS_EmptySet, FS_Singleton
        <5>. QED  BY <5>2, <5>7
      <4>. QED  BY <4>1, <4>2
    <3>8. IsInjective(v)
      <4>1. ASSUME NEW a \in DOMAIN v, NEW b \in DOMAIN v, v[a] = v[b] PROVE a = b
        <5>1. Occurrences(v, v[a]) <= 1
          BY <3>7
        <5>. QED  BY <3>1, <4>1, <5>1, OccursAtOnePlace
      <4>. QED  BY <4>1 DEF IsInjective
    <3>. QED  BY <3>6, <3>8 DEF v
  <2>. QED  BY <2>3, <2>4
<1>. QED  BY StateInvariant, <1>1, PTL
===============================================================================
