----------------------------- MODULE ArraysProofs -----------------------------
(***************************************************************************)
(* What the operators of Arrays return, for every sequence.  The other     *)
(* proofs cite these lemmas and never look into a search loop, a           *)
(* swap-removal or a count themselves.                                     *)
(***************************************************************************)
EXTENDS Arrays, SequenceTheorems, FiniteSetTheorems, WellFoundedInduction, TLAPS

-------------------------------------------------------------------------------
(* Search loops, removals, inserts *)

\* A non-empty set of numbers has a least element.
LEMMA LeastElement ==
  ASSUME NEW T, T \subseteq Nat, T # {}
  PROVE  \E i \in T : \A j \in T : ~(j < i)
<1>1. PICK i \in T : \A j \in T : ~(<<j, i>> \in OpToRel(<, Nat))
  BY NatLessThanWellFounded, WFMin, Zenon
<1>. QED  BY <1>1 DEF OpToRel

\* Induction over the places of a sequence: a set of places that has the first one,
\* and with each place the next, has them all.
LEMMA PlacesInduction ==
  ASSUME NEW n \in Nat, NEW T,
         0 \in T,
         \A i \in 1..n : i - 1 \in T => i \in T
  PROVE  \A i \in 0..n : i \in T
<1>. DEFINE Bad == {i \in 0..n : i \notin T}
<1>. SUFFICES ASSUME Bad # {} PROVE FALSE
  OBVIOUS
<1>1. Bad \subseteq Nat
  OBVIOUS
<1>2. PICK i \in Bad : \A j \in Bad : ~(j < i)
  <2>. HIDE DEF Bad
  <2>. QED  BY <1>1, LeastElement, Zenon
<1>3. i \in 1..n /\ i \notin T
  OBVIOUS
<1>4. i - 1 \in 0..n /\ i - 1 < i
  BY <1>3
<1>5. i - 1 \in T
  BY <1>2, <1>4
<1>. QED  BY <1>3, <1>5

\* The states of a loop over n places that starts in s0; F[i] is its body at place i.
LoopStates(n, S, s0, F) ==
  {f \in [0..n -> S] : f[0] = s0 /\ \A i \in 1..n : f[i] = F[i][f[i - 1]]}

\* A loop whose body keeps to the states S computes a state at every place.
LEMMA LoopRuns ==
  ASSUME NEW n \in Nat, NEW S, NEW s0 \in S, NEW F \in [1..n -> [S -> S]]
  PROVE  LoopStates(n, S, s0, F) # {}
<1>. USE DEF LoopStates
<1>. DEFINE Upto(m) == LoopStates(m, S, s0, F)
            T == {m \in 0..n : Upto(m) # {}}
<1>1. 0 \in T
  <2>1. [i \in {0} |-> s0] \in Upto(0)
    OBVIOUS
  <2>. QED  BY <2>1
<1>2. ASSUME NEW m \in 1..n, m - 1 \in T PROVE m \in T
  <2>. DEFINE k == m - 1
  <2>1. k \in 0..n /\ Upto(k) # {}
    BY <1>2
  <2>2. PICK f \in [0..k -> S] : f[0] = s0 /\ \A i \in 1..k : f[i] = F[i][f[i - 1]]
    BY <2>1
  <2>. DEFINE g == [i \in 0..m |-> IF i = m THEN F[m][f[k]] ELSE f[i]]
  <2>3. f[k] \in S /\ F[m][f[k]] \in S
    BY <2>1, <2>2
  <2>4. g \in [0..m -> S]
    <3>1. \A i \in 0..m : i # m => i \in 0..k
      OBVIOUS
    <3>2. \A i \in 0..m : (IF i = m THEN F[m][f[k]] ELSE f[i]) \in S
      BY <2>2, <2>3, <3>1
    <3>. QED  BY <3>2
  <2>5. g[0] = s0
    BY <2>2
  <2>6. ASSUME NEW i \in 1..m PROVE g[i] = F[i][g[i - 1]]
    <3>1. CASE i = m
      BY <3>1
    <3>2. CASE i # m
      <4>1. i \in 1..k /\ i - 1 \in 0..m /\ i - 1 # m /\ i \in 0..m
        BY <3>2
      <4>. QED  BY <2>2, <4>1
    <3>. QED  BY <3>1, <3>2
  <2>7. g \in Upto(m)
    BY <2>4, <2>5, <2>6
  <2>. QED  BY <2>7
<1>3. n \in T
  <2>1. 0..n \subseteq T
    <3>. HIDE DEF T
    <3>1. \A i \in 0..n : i \in T
      BY <1>1, <1>2, PlacesInduction
    <3>. QED  BY <3>1
  <2>. QED  BY <2>1
<1>. QED  BY <1>3

\* A search loop returns an index of the item, or that there is none.
LEMMA IndexOfFinds ==
  ASSUME NEW S, NEW q \in Seq(S), NEW s
  PROVE  /\ IndexOf(q, s) \in Nat
         /\ IndexOf(q, s) # 0 => IndexOf(q, s) \in 1..Len(q) /\ q[IndexOf(q, s)] = s
         /\ IndexOf(q, s) = 0 => \A i \in 1..Len(q) : q[i] # s
<1>. DEFINE T == {i \in DOMAIN q : q[i] = s}
            first == IndexOf(q, s)
<1>1. CASE T = {}
  <2>1. first = 0
    BY <1>1 DEF IndexOf, FirstIndex
  <2>. QED  BY <1>1, <2>1
<1>2. CASE T # {}
  <2>1. T \subseteq Nat
    OBVIOUS
  <2>2. PICK i \in T : \A j \in T : ~(j < i)
    BY <1>2, <2>1, LeastElement, Zenon
  <2>3. \A j \in 1..(i - 1) : q[j] # s
    BY <2>2
  <2>4. \E k \in DOMAIN q : q[k] = s /\ \A j \in 1..(k - 1) : ~(q[j] = s)
    BY <2>2, <2>3
  <2>5. first = CHOOSE k \in DOMAIN q : q[k] = s /\ \A j \in 1..(k - 1) : ~(q[j] = s)
    BY <1>2 DEF IndexOf, FirstIndex
  <2>6. first \in DOMAIN q /\ q[first] = s
    BY <2>4, <2>5
  <2>. QED  BY <2>6
<1>. QED  BY <1>1, <1>2

\* A swap-removal keeps the type; the last item is at the index, the others stay.
LEMMA SwapRemoveProperties ==
  ASSUME NEW S, NEW q \in Seq(S), NEW i \in Nat
  PROVE  /\ SwapRemove(q, i) \in Seq(S)
         /\ i \in 1..Len(q) =>
              /\ Len(SwapRemove(q, i)) = Len(q) - 1
              /\ \A j \in 1..(Len(q) - 1) : SwapRemove(q, i)[j] = IF j = i THEN q[Len(q)] ELSE q[j]
         /\ i \notin 1..Len(q) => SwapRemove(q, i) = q
<1>1. CASE i \in 1..Len(q)
  <2>. DEFINE r == [q EXCEPT ![i] = q[Len(q)]]
  <2>1. q[Len(q)] \in S
    BY <1>1
  <2>2. /\ r \in Seq(S) /\ Len(r) = Len(q)
        /\ \A j \in 1..Len(q) : r[j] = IF j = i THEN q[Len(q)] ELSE q[j]
    BY <1>1, <2>1, ExceptSeq
  <2>3. SwapRemove(q, i) = SubSeq(r, 1, Len(q) - 1)
    BY <1>1, <2>2 DEF SwapRemove
  <2>. HIDE DEF r
  <2>4. ASSUME NEW n \in Nat, n = Len(q) - 1
        PROVE  /\ SubSeq(r, 1, n) \in Seq(S)
               /\ Len(SubSeq(r, 1, n)) = n
               /\ \A j \in 1..n : SubSeq(r, 1, n)[j] = r[j]
    BY <2>2, <2>4
  <2>5. Len(q) - 1 \in Nat
    BY <1>1
  <2>. QED  BY <1>1, <2>2, <2>3, <2>4, <2>5
<1>2. CASE i \notin 1..Len(q)
  BY <1>2 DEF SwapRemove
<1>. QED  BY <1>1, <1>2

\* What remains of an array after one of its elements is taken out.
LEMMA SwapRemoveTakes ==
  ASSUME NEW S, NEW q \in Seq(S), NEW i \in 1..Len(q)
  PROVE  /\ SwapRemove(q, i) \in Seq(S) /\ Len(SwapRemove(q, i)) = Len(q) - 1
         /\ \A j \in 1..(Len(q) - 1) : SwapRemove(q, i)[j] = IF j = i THEN q[Len(q)] ELSE q[j]
<1>1. i \in Nat
  OBVIOUS
<1>. QED  BY <1>1, SwapRemoveProperties, Zenon

\* An insert never makes an array fuller than its capacity, nor shrinks it.
LEMMA CapAfterInsertRoom ==
  ASSUME NEW cap \in Nat \ {0}, NEW len \in Nat, len <= cap
  PROVE  /\ CapAfterInsert(cap, len) \in Nat \ {0}
         /\ len + 1 <= CapAfterInsert(cap, len)
         /\ cap <= CapAfterInsert(cap, len)
         /\ len = cap => cap < CapAfterInsert(cap, len)
         /\ len # cap => CapAfterInsert(cap, len) = cap
  BY DEF CapAfterInsert

-------------------------------------------------------------------------------
(* Counting *)

\* The places of a sequence at which x stands.
Places(q, x) == {i \in DOMAIN q : q[i] = x}

\* They are a finite set; x occurs if and only if there is such a place.
LEMMA OccurrencesType ==
  ASSUME NEW S, NEW q \in Seq(S), NEW x
  PROVE  /\ IsFiniteSet(Places(q, x))
         /\ Occurrences(q, x) = Cardinality(Places(q, x))
         /\ Occurrences(q, x) \in Nat
         /\ Occurrences(q, x) <= Len(q)
         /\ Occurrences(q, x) = 0 <=> \A i \in 1..Len(q) : q[i] # x
<1>1. Places(q, x) \in SUBSET (1..Len(q)) /\ Len(q) \in Nat
  BY DEF Places
<1>2. IsFiniteSet(1..Len(q)) /\ Cardinality(1..Len(q)) = Len(q)
  <2>1. ASSUME NEW n \in Nat PROVE IsFiniteSet(1..n) /\ Cardinality(1..n) = n
    <3>1. 1 \in Int /\ n \in Int
      OBVIOUS
    <3>2. IsFiniteSet(1..n) /\ Cardinality(1..n) = IF 1 > n THEN 0 ELSE n - 1 + 1
      BY <3>1, FS_Interval, Zenon
    <3>. QED  BY <3>2
  <2>. QED  BY <1>1, <2>1
<1>3. IsFiniteSet(Places(q, x)) /\ Cardinality(Places(q, x)) <= Len(q)
  BY <1>1, <1>2, FS_Subset
<1>4. Occurrences(q, x) = Cardinality(Places(q, x))
  BY DEF Occurrences, Places
<1>5. Cardinality(Places(q, x)) \in Nat
  BY <1>3, FS_CardinalityType
<1>6. Cardinality(Places(q, x)) = 0 <=> Places(q, x) = {}
  BY <1>3, FS_EmptySet
<1>7. Places(q, x) = {} <=> \A i \in 1..Len(q) : q[i] # x
  BY DEF Places
<1>. QED  BY <1>3, <1>4, <1>5, <1>6, <1>7

LEMMA OccurrencesAppend ==
  ASSUME NEW S, NEW q \in Seq(S), NEW v \in S, NEW x
  PROVE  Occurrences(Append(q, v), x) = Occurrences(q, x) + (IF v = x THEN 1 ELSE 0)
<1>. DEFINE r == Append(q, v)
            n == Len(q) + 1
<1>1. /\ r \in Seq(S) /\ Len(r) = n /\ r[n] = v
      /\ \A i \in 1..Len(q) : r[i] = q[i]
  BY AppendProperties
<1>2. Occurrences(r, x) = Cardinality(Places(r, x))
  BY <1>1, OccurrencesType
<1>3. /\ IsFiniteSet(Places(q, x)) /\ Occurrences(q, x) = Cardinality(Places(q, x))
      /\ Occurrences(q, x) \in Nat
  BY OccurrencesType
<1>4. n \notin Places(q, x)
  BY DEF Places
<1>. HIDE DEF r
<1>5. Places(r, x) = IF v = x THEN Places(q, x) \cup {n} ELSE Places(q, x)
  BY <1>1 DEF Places
<1>. HIDE DEF n
<1>6. Cardinality(Places(q, x) \cup {n}) = Cardinality(Places(q, x)) + 1
  BY <1>3, <1>4, FS_AddElement
<1>. QED  BY <1>2, <1>3, <1>5, <1>6 DEF r

LEMMA OccurrencesSingle ==
  ASSUME NEW S, NEW v \in S, NEW x
  PROVE  Occurrences(<<v>>, x) = IF v = x THEN 1 ELSE 0
<1>1. ASSUME NEW q \in Seq(S), Len(q) = 0
      PROVE  Occurrences(Append(q, v), x) = IF v = x THEN 1 ELSE 0
  <2>0. \A i \in 1..Len(q) : q[i] # x
    BY <1>1
  <2>1. Occurrences(q, x) = 0
    BY <2>0, OccurrencesType
  <2>2. Occurrences(Append(q, v), x) = Occurrences(q, x) + (IF v = x THEN 1 ELSE 0)
    BY OccurrencesAppend
  <2>. QED  BY <2>1, <2>2
<1>2. <<>> \in Seq(S) /\ Len(<<>>) = 0
  OBVIOUS
<1>3. Append(<<>>, v) = <<v>>
  OBVIOUS
<1>4. Occurrences(Append(<<>>, v), x) = IF v = x THEN 1 ELSE 0
  BY <1>1, <1>2, Zenon
<1>. QED  BY <1>3, <1>4

LEMMA OccurrencesSwapRemove ==
  ASSUME NEW S, NEW q \in Seq(S), NEW i \in 1..Len(q), NEW x
  PROVE  Occurrences(SwapRemove(q, i), x) = Occurrences(q, x) - (IF q[i] = x THEN 1 ELSE 0)
<1>. DEFINE r == SwapRemove(q, i)
            n == Len(q)
            A == Places(q, x) \ {i}
            B == Places(r, x)
            f == [j \in A |-> IF j = n THEN i ELSE j]
<1>1. /\ r \in Seq(S) /\ Len(r) = n - 1 /\ n \in Nat
      /\ \A j \in 1..(n - 1) : r[j] = IF j = i THEN q[n] ELSE q[j]
  <2>1. i \in Nat /\ i \in 1..Len(q) /\ n \in Nat
    OBVIOUS
  <2>. QED  BY <2>1, SwapRemoveProperties, Zenon
<1>2. Occurrences(r, x) = Cardinality(B)
  BY <1>1, OccurrencesType
<1>3. /\ IsFiniteSet(Places(q, x)) /\ Occurrences(q, x) = Cardinality(Places(q, x))
      /\ Occurrences(q, x) \in Nat
  BY OccurrencesType
<1>4. /\ IsFiniteSet(A)
      /\ Cardinality(A) = Cardinality(Places(q, x)) - (IF q[i] = x THEN 1 ELSE 0)
  <2>1. i \in Places(q, x) <=> q[i] = x
    BY DEF Places
  <2>2. /\ IsFiniteSet(A)
        /\ Cardinality(A) = IF i \in Places(q, x) THEN Cardinality(Places(q, x)) - 1
                                                ELSE Cardinality(Places(q, x))
    BY <1>3, FS_RemoveElement
  <2>. QED  BY <1>3, <2>1, <2>2
<1>. HIDE DEF r
<1>5. A = {j \in 1..n : q[j] = x /\ j # i} /\ B = {j \in 1..(n - 1) : r[j] = x}
  BY <1>1 DEF Places
<1>6. f \in Bijection(A, B)
  <2>1. f \in [A -> B]
    BY <1>1, <1>5
  <2>2. \A a, b \in A : f[a] = f[b] => a = b
    BY <1>1, <1>5
  <2>3. \A t \in B : \E s \in A : f[s] = t
    <3>. SUFFICES ASSUME NEW t \in B PROVE \E s \in A : f[s] = t
      OBVIOUS
    <3>1. CASE t = i
      <4>1. n \in A /\ f[n] = t
        BY <1>1, <1>5, <3>1
      <4>. QED  BY <4>1
    <3>2. CASE t # i
      <4>1. t \in A /\ f[t] = t
        BY <1>1, <1>5, <3>2
      <4>. QED  BY <4>1
    <3>. QED  BY <3>1, <3>2
  <2>. QED  BY <2>1, <2>2, <2>3 DEF Bijection, Injection, Surjection, IsInjective
<1>7. Cardinality(B) = Cardinality(A)
  <2>1. ExistsBijection(A, B)
    BY <1>6 DEF ExistsBijection
  <2>. HIDE DEF A, B
  <2>. QED  BY <1>4, <2>1, FS_Bijection
<1>. QED  BY <1>2, <1>3, <1>4, <1>7 DEF r

\* A value that occurs at most once stands at no two places.
LEMMA OccursAtOnePlace ==
  ASSUME NEW S, NEW q \in Seq(S), NEW x, Occurrences(q, x) <= 1,
         NEW i \in DOMAIN q, NEW j \in DOMAIN q, q[i] = x, q[j] = x
  PROVE  i = j
<1>1. IsFiniteSet(Places(q, x)) /\ Cardinality(Places(q, x)) \in Nat /\ Cardinality(Places(q, x)) <= 1
  BY OccurrencesType
<1>2. i \in Places(q, x) /\ j \in Places(q, x)
  BY DEF Places
<1>. HIDE DEF Places
<1>3. Cardinality(Places(q, x)) # 0
  BY <1>1, <1>2, FS_EmptySet
<1>4. Cardinality(Places(q, x)) = 1
  BY <1>1, <1>3
<1>5. \E y : Places(q, x) = {y}
  BY <1>1, <1>4, FS_Singleton
<1>. QED  BY <1>2, <1>5
===============================================================================
