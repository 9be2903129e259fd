---------------------------- MODULE MessagesProofs ----------------------------
(***************************************************************************)
(* Proofs about Messages for every width of a byte, of a length field and  *)
(* of the buffer, every set of messages that fit their length fields and   *)
(* every number of them sent: what is written is read again, and a reader  *)
(* whose reads end where messages end loses, doubles and alters nothing.   *)
(***************************************************************************)
EXTENDS Messages, ArraysProofs

-------------------------------------------------------------------------------
(* Length fields *)

LEMMA DivMod ==
  ASSUME NEW a \in Nat, NEW b \in Nat \ {0}
  PROVE  /\ a % b \in 0..(b - 1)
         /\ a \div b \in Nat
         /\ a = (a % b) + b * (a \div b)
         /\ a < b => a \div b = 0
OBVIOUS

\* Shifting by one byte after the other.
LEMMA ShiftedIs ==
  ASSUME NEW n \in Nat
  PROVE  /\ Shifted(n) \in [0..LenBytes -> Nat]
         /\ Shifted(n)[0] = n
         /\ \A i \in 1..LenBytes : Shifted(n)[i] = Shifted(n)[i - 1] \div Base
<1>. DEFINE L == LenBytes
            After == [i \in 1..L |-> [a \in Nat |-> a \div Base]]
            Step(g) == [i \in 0..L |-> IF i = 0 THEN n ELSE g[i - 1] \div Base]
            shift == CHOOSE g : g = Step(g)
<1>1. L \in Nat /\ Base \in Nat \ {0}
  BY SizesAssumption
<1>2. \A a \in Nat : a \div Base \in Nat
  BY <1>1, DivMod
<1>3. After \in [1..L -> [Nat -> Nat]]
  BY <1>2
<1>. HIDE DEF L
<1>4. PICK h \in [0..L -> Nat] : h[0] = n /\ \A i \in 1..L : h[i] = After[i][h[i - 1]]
  <2>. HIDE DEF After
  <2>1. LoopStates(L, Nat, n, After) # {}
    BY <1>1, <1>3, LoopRuns, Zenon
  <2>. QED  BY <2>1 DEF LoopStates
<1>5. h = Step(h)
  <2>1. ASSUME NEW i \in 0..L PROVE h[i] = Step(h)[i]
    <3>1. CASE i = 0
      BY <1>4, <3>1
    <3>2. CASE i # 0
      <4>1. i \in 1..L /\ i - 1 \in 0..L
        BY <1>1, <3>2
      <4>. QED  BY <1>4, <3>2, <4>1
    <3>. QED  BY <3>1, <3>2
  <2>. QED  BY <2>1
<1>6. shift = Step(shift)
  <2>. HIDE DEF Step
  <2>. QED  BY <1>5
<1>7. Shifted(n) = shift
  BY DEF Shifted, L
<1>. HIDE DEF shift
<1>8. \A i \in 0..L : shift[i] = IF i = 0 THEN n ELSE shift[i - 1] \div Base
  BY <1>6
<1>9. shift[0] = n /\ \A i \in 1..L : shift[i] = shift[i - 1] \div Base
  BY <1>1, <1>8
<1>. DEFINE T == {i \in 0..L : shift[i] \in Nat}
<1>10. 0 \in T /\ \A i \in 1..L : i - 1 \in T => i \in T
  <2>1. 0 \in T
    BY <1>1, <1>9
  <2>2. ASSUME NEW i \in 1..L, i - 1 \in T PROVE i \in T
    <3>1. i \in 0..L /\ shift[i - 1] \in Nat
      BY <1>1, <2>2
    <3>2. shift[i] \in Nat
      BY <1>2, <1>9, <3>1, Zenon
    <3>. QED  BY <3>1, <3>2
  <2>. QED  BY <2>1, <2>2
<1>11. \A i \in 0..L : i \in T
  <2>. HIDE DEF T
  <2>. QED  BY <1>1, <1>10, PlacesInduction
<1>12. shift = [i \in 0..L |-> shift[i]]
  BY <1>6
<1>13. shift \in [0..L -> Nat]
  BY <1>11, <1>12
<1>. QED  BY <1>7, <1>9, <1>13 DEF L

Fields == [1..LenBytes -> Byte]

\* The value of a field is a sum from its highest byte down.
LEMMA LengthOfIs ==
  ASSUME NEW field \in Fields
  PROVE  \E sum \in [0..LenBytes -> Nat] :
           /\ sum[0] = 0
           /\ \A i \in 1..LenBytes : sum[i] = field[LenBytes + 1 - i] + Base * sum[i - 1]
           /\ LengthOf(field) = sum[LenBytes]
<1>. DEFINE L == LenBytes
            After == [i \in 1..L |-> [a \in Nat |-> field[L + 1 - i] + Base * a]]
            Step(g) == [i \in 0..L |-> IF i = 0 THEN 0 ELSE field[L + 1 - i] + Base * g[i - 1]]
            total == CHOOSE g : g = Step(g)
<1>1. L \in Nat /\ Base \in Nat \ {0}
  BY SizesAssumption
<1>2. \A i \in 1..L : field[L + 1 - i] \in Nat
  <2>1. \A i \in 1..L : L + 1 - i \in 1..L
    BY <1>1
  <2>. QED  BY <1>1, <2>1 DEF Fields, Byte
<1>3. \A i \in 1..L : \A a \in Nat : field[L + 1 - i] + Base * a \in Nat
  <2>1. \A b, a \in Nat : b + Base * a \in Nat
    BY <1>1
  <2>. QED  BY <1>2, <2>1
<1>4. After \in [1..L -> [Nat -> Nat]]
  BY <1>3
<1>. HIDE DEF L
<1>5. PICK h \in [0..L -> Nat] : h[0] = 0 /\ \A i \in 1..L : h[i] = After[i][h[i - 1]]
  <2>. HIDE DEF After
  <2>1. LoopStates(L, Nat, 0, After) # {}
    BY <1>1, <1>4, LoopRuns, Zenon
  <2>. QED  BY <2>1 DEF LoopStates
<1>6. h = Step(h)
  <2>1. ASSUME NEW i \in 0..L PROVE h[i] = Step(h)[i]
    <3>1. CASE i = 0
      BY <1>5, <3>1
    <3>2. CASE i # 0
      <4>1. i \in 1..L /\ i - 1 \in 0..L
        BY <1>1, <3>2
      <4>. QED  BY <1>5, <3>2, <4>1
    <3>. QED  BY <3>1, <3>2
  <2>. QED  BY <2>1
<1>7. total = Step(total)
  <2>. HIDE DEF Step
  <2>. QED  BY <1>6
<1>8. LengthOf(field) = total[L]
  BY DEF LengthOf, L
<1>. HIDE DEF total
<1>9. \A i \in 0..L : total[i] = IF i = 0 THEN 0 ELSE field[L + 1 - i] + Base * total[i - 1]
  BY <1>7
<1>10. total[0] = 0 /\ \A i \in 1..L : total[i] = field[L + 1 - i] + Base * total[i - 1]
  BY <1>1, <1>9
<1>. DEFINE T == {i \in 0..L : total[i] \in Nat}
<1>11. 0 \in T /\ \A i \in 1..L : i - 1 \in T => i \in T
  <2>1. 0 \in T
    BY <1>1, <1>10
  <2>2. ASSUME NEW i \in 1..L, i - 1 \in T PROVE i \in T
    <3>1. i \in 0..L /\ total[i - 1] \in Nat
      BY <1>1, <2>2
    <3>2. field[L + 1 - i] + Base * total[i - 1] \in Nat
      BY <1>3, <3>1, Zenon
    <3>3. total[i] = field[L + 1 - i] + Base * total[i - 1]
      BY <1>10, Zenon
    <3>. QED  BY <3>1, <3>2, <3>3, Zenon
  <2>. QED  BY <2>1, <2>2
<1>12. \A i \in 0..L : i \in T
  <2>. HIDE DEF T
  <2>. QED  BY <1>1, <1>11, PlacesInduction
<1>13. total = [i \in 0..L |-> total[i]]
  BY <1>7
<1>14. total \in [0..L -> Nat]
  BY <1>12, <1>13
<1>. QED  BY <1>8, <1>10, <1>14 DEF L

\* What convert_64bit_to_n_utf8 writes, convert_n_utf8_to_64bit reads, and no
\* allocation of that size need fail.
LEMMA LengthIsReadBack ==
  ASSUME NEW n \in Nat, Fits(n)
  PROVE  /\ LengthField(n) \in Fields
         /\ LengthOf(LengthField(n)) = n
         /\ ~Huge(LengthField(n))
<1>. DEFINE L == LenBytes
            field == LengthField(n)
<1>1. L \in Nat \ {0} /\ Base \in Nat \ {0, 1}
  BY SizesAssumption
<1>2. PICK shift \in [0..L -> Nat] :
        /\ shift = Shifted(n) /\ shift[0] = n
        /\ \A i \in 1..L : shift[i] = shift[i - 1] \div Base
  BY ShiftedIs
<1>3. \A i \in 1..L : i - 1 \in 0..L /\ shift[i - 1] \in Nat
  BY <1>1, <1>2
<1>4. field = [i \in 1..L |-> shift[i - 1] % Base]
  BY <1>2 DEF LengthField
<1>5. field \in Fields
  <2>1. \A i \in 1..L : shift[i - 1] % Base \in Byte
    BY <1>1, <1>3, DivMod DEF Byte
  <2>. QED  BY <1>4, <2>1 DEF Fields
<1>6. shift[L - 1] < Base \div 2 /\ L \in 1..L
  BY <1>1, <1>2 DEF Fits
<1>7. shift[L - 1] < Base /\ shift[L - 1] % Base = shift[L - 1]
  <2>1. ASSUME NEW a \in Nat, NEW b \in Nat \ {0}, a < b \div 2
        PROVE  a < b /\ a % b = a
    BY <2>1
  <2>2. Base \in Nat \ {0}
    BY <1>1
  <2>. QED  BY <1>3, <1>6, <2>1, <2>2, Zenon
<1>8. shift[L] = 0
  BY <1>1, <1>2, <1>3, <1>6, <1>7, DivMod
<1>9. ~Huge(field)
  <2>1. field[L] = shift[L - 1]
    BY <1>4, <1>6, <1>7
  <2>. QED  BY <1>1, <1>3, <1>6, <2>1 DEF Huge
<1>10. PICK sum \in [0..L -> Nat] :
         /\ sum[0] = 0
         /\ \A i \in 1..L : sum[i] = field[L + 1 - i] + Base * sum[i - 1]
         /\ LengthOf(field) = sum[L]
  <2>. HIDE DEF field
  <2>. QED  BY <1>5, LengthOfIs
<1>. HIDE DEF L, field
<1>. DEFINE T == {i \in 0..L : sum[i] = shift[L - i]}
<1>11. 0 \in T
  BY <1>1, <1>8, <1>10
<1>12. ASSUME NEW i \in 1..L, i - 1 \in T PROVE i \in T
  <2>. DEFINE k == L + 1 - i
  <2>1. k \in 1..L /\ k - 1 = L - i /\ L - (i - 1) = k /\ i \in 0..L
    BY <1>1
  <2>2. sum[i - 1] = shift[k - 1] \div Base
    BY <1>2, <1>12, <2>1
  <2>3. field[k] = shift[k - 1] % Base
    BY <1>4, <2>1
  <2>4. sum[i] = (shift[k - 1] % Base) + Base * (shift[k - 1] \div Base)
    BY <1>10, <2>2, <2>3
  <2>5. sum[i] = shift[k - 1]
    BY <1>1, <1>3, <2>1, <2>4, DivMod
  <2>. QED  BY <2>1, <2>5
<1>13. \A i \in 0..L : i \in T
  <2>. HIDE DEF T
  <2>. QED  BY <1>1, <1>11, <1>12, PlacesInduction
<1>14. sum[L] = shift[0]
  BY <1>1, <1>13
<1>. QED  BY <1>2, <1>5, <1>9, <1>10, <1>14 DEF L, field

-------------------------------------------------------------------------------
(* One message, written and read *)

Joined(w, u, v, S) ==
  /\ w \in Seq(S)
  /\ Len(w) = Len(u) + Len(v)
  /\ \A i \in 1..Len(u) : w[i] = u[i]
  /\ \A i \in 1..Len(v) : w[Len(u) + i] = v[i]

LEMMA JoinIs ==
  ASSUME NEW S, NEW u \in Seq(S), NEW v \in Seq(S)
  PROVE  Joined(u \o v, u, v, S)
<1>1. /\ u \o v \in Seq(S) /\ Len(u \o v) = Len(u) + Len(v)
      /\ \A i \in 1..(Len(u) + Len(v)) : (u \o v)[i] = IF i <= Len(u) THEN u[i] ELSE v[i - Len(u)]
  BY ConcatProperties
<1>2. Len(u) \in Nat /\ Len(v) \in Nat
  OBVIOUS
<1>. QED  BY <1>1, <1>2 DEF Joined

InOrder(w, a, b, c, d, e) ==
  /\ Len(w) = Len(a) + Len(b) + Len(c) + Len(d) + Len(e)
  /\ \A i \in 1..Len(a) : w[i] = a[i]
  /\ \A i \in 1..Len(b) : w[Len(a) + i] = b[i]
  /\ \A i \in 1..Len(c) : w[Len(a) + Len(b) + i] = c[i]
  /\ \A i \in 1..Len(d) : w[Len(a) + Len(b) + Len(c) + i] = d[i]
  /\ \A i \in 1..Len(e) : w[Len(a) + Len(b) + Len(c) + Len(d) + i] = e[i]

LEMMA FiveParts ==
  ASSUME NEW S, NEW a \in Seq(S), NEW b \in Seq(S), NEW c \in Seq(S), NEW d \in Seq(S), NEW e \in Seq(S)
  PROVE  a \o b \o c \o d \o e \in Seq(S) /\ InOrder(a \o b \o c \o d \o e, a, b, c, d, e)
<1>. DEFINE ab == a \o b
            abc == ab \o c
            abcd == abc \o d
            w == abcd \o e
<1>0. /\ Len(a) \in Nat /\ Len(b) \in Nat /\ Len(c) \in Nat /\ Len(d) \in Nat /\ Len(e) \in Nat
  OBVIOUS
<1>1. Joined(ab, a, b, S)
  BY JoinIs, Zenon
<1>. HIDE DEF ab
<1>2. Joined(abc, ab, c, S)
  <2>1. ab \in Seq(S)
    BY <1>1 DEF Joined
  <2>. QED  BY <2>1, JoinIs, Zenon
<1>. HIDE DEF abc
<1>3. Joined(abcd, abc, d, S)
  <2>1. abc \in Seq(S)
    BY <1>2 DEF Joined
  <2>. QED  BY <2>1, JoinIs, Zenon
<1>. HIDE DEF abcd
<1>4. Joined(w, abcd, e, S)
  <2>1. abcd \in Seq(S)
    BY <1>3 DEF Joined
  <2>. QED  BY <2>1, JoinIs, Zenon
<1>. HIDE DEF w
<1>. USE DEF Joined
<1>5. /\ Len(ab) = Len(a) + Len(b) /\ Len(ab) \in Nat
      /\ Len(abc) = Len(a) + Len(b) + Len(c) /\ Len(abc) \in Nat
      /\ Len(abcd) = Len(a) + Len(b) + Len(c) + Len(d) /\ Len(abcd) \in Nat
      /\ Len(w) = Len(a) + Len(b) + Len(c) + Len(d) + Len(e)
  BY <1>0, <1>1, <1>2, <1>3, <1>4
<1>6. /\ \A i \in 1..Len(ab) : w[i] = ab[i]
      /\ \A i \in 1..Len(abc) : w[i] = abc[i]
  BY <1>0, <1>2, <1>3, <1>4, <1>5
<1>7. \A i \in 1..Len(a) : w[i] = a[i]
  BY <1>0, <1>1, <1>5, <1>6
<1>8. \A i \in 1..Len(b) : w[Len(a) + i] = b[i]
  BY <1>0, <1>1, <1>5, <1>6
<1>9. \A i \in 1..Len(c) : w[Len(a) + Len(b) + i] = c[i]
  BY <1>0, <1>2, <1>5, <1>6
<1>10. \A i \in 1..Len(d) : w[Len(a) + Len(b) + Len(c) + i] = d[i]
  BY <1>0, <1>3, <1>4, <1>5
<1>11. \A i \in 1..Len(e) : w[Len(a) + Len(b) + Len(c) + Len(d) + i] = e[i]
  BY <1>4, <1>5
<1>. QED  BY <1>4, <1>5, <1>7, <1>8, <1>9, <1>10, <1>11 DEF InOrder, w, abcd, abc, ab

\* A message is a type and two sequences of bytes, whose lengths fit.
LEMMA SendableIs ==
  ASSUME NEW m \in Sendable
  PROVE  /\ m \in Message
         /\ m.type \in Byte /\ m.topic \in Seq(Byte) /\ m.body \in Seq(Byte)
         /\ Len(m.topic) \in Nat /\ Len(m.body) \in Nat /\ Size(m) \in Nat
         /\ LengthField(Len(m.topic)) \in Fields /\ LengthOf(LengthField(Len(m.topic))) = Len(m.topic)
         /\ LengthField(Len(m.body)) \in Fields /\ LengthOf(LengthField(Len(m.body))) = Len(m.body)
         /\ ~Huge(LengthField(Len(m.topic))) /\ ~Huge(LengthField(Len(m.body)))
<1>1. m \in Message /\ Fits(Len(m.topic)) /\ Fits(Len(m.body))
  BY SendableAssumption
<1>2. m.type \in Byte /\ m.topic \in Seq(Byte) /\ m.body \in Seq(Byte)
  BY <1>1 DEF Message
<1>3. Len(m.topic) \in Nat /\ Len(m.body) \in Nat
  BY <1>2
<1>4. Size(m) \in Nat
  <2>1. \A l, t, b \in Nat : 1 + 2 * l + t + b \in Nat
    OBVIOUS
  <2>2. LenBytes \in Nat
    BY SizesAssumption
  <2>. QED  BY <1>3, <2>1, <2>2, Zenon DEF Size
<1>. QED  BY <1>1, <1>2, <1>3, <1>4, LengthIsReadBack

FieldIs(w, from, part) == \A i \in 1..Len(part) : w[from + i] = part[i]

\* The parts of a message stand one behind the other.
LEMMA EncodeIs ==
  ASSUME NEW m \in Sendable
  PROVE  /\ Encode(m) \in Seq(Byte)
         /\ Len(Encode(m)) = Size(m)
         /\ Encode(m)[1] = m.type
         /\ \A i \in 1..LenBytes : Encode(m)[1 + i] = LengthField(Len(m.topic))[i]
         /\ FieldIs(Encode(m), 1 + LenBytes, m.topic)
         /\ \A i \in 1..LenBytes :
              Encode(m)[1 + LenBytes + Len(m.topic) + i] = LengthField(Len(m.body))[i]
         /\ FieldIs(Encode(m), 1 + 2 * LenBytes + Len(m.topic), m.body)
<1>. DEFINE a == <<m.type>>
            b == LengthField(Len(m.topic))
            c == m.topic
            d == LengthField(Len(m.body))
            e == m.body
            w == Encode(m)
<1>1. LenBytes \in Nat
  BY SizesAssumption
<1>2. /\ a \in Seq(Byte) /\ Len(a) = 1 /\ a[1] = m.type
      /\ c \in Seq(Byte) /\ e \in Seq(Byte) /\ Len(c) \in Nat /\ Len(e) \in Nat
  BY SendableIs
<1>3. /\ b \in Seq(Byte) /\ Len(b) = LenBytes
      /\ d \in Seq(Byte) /\ Len(d) = LenBytes
  <2>1. ASSUME NEW f \in Fields PROVE f \in Seq(Byte) /\ Len(f) = LenBytes
    BY <1>1 DEF Fields
  <2>. QED  BY <2>1, SendableIs
<1>4. w = a \o b \o c \o d \o e
  BY DEF Encode
<1>. HIDE DEF a, b, c, d, e, w
<1>5. w \in Seq(Byte) /\ InOrder(w, a, b, c, d, e)
  BY <1>2, <1>3, <1>4, FiveParts, Zenon
<1>. USE DEF InOrder
<1>6. Len(w) = Size(m)
  <2>1. Size(m) = 1 + 2 * LenBytes + Len(c) + Len(e)
    BY DEF Size, c, e
  <2>. QED  BY <1>1, <1>2, <1>3, <1>5, <2>1
<1>7. w[1] = m.type
  BY <1>2, <1>5
<1>8. \A i \in 1..LenBytes : w[1 + i] = b[i]
  BY <1>2, <1>3, <1>5
<1>9. FieldIs(w, 1 + LenBytes, c)
  BY <1>2, <1>3, <1>5 DEF FieldIs
<1>10. \A i \in 1..LenBytes : w[1 + LenBytes + Len(c) + i] = d[i]
  BY <1>2, <1>3, <1>5
<1>11. FieldIs(w, 1 + 2 * LenBytes + Len(c), e)
  <2>1. 1 + 2 * LenBytes + Len(c) = Len(a) + Len(b) + Len(c) + Len(d)
    BY <1>1, <1>2, <1>3
  <2>. QED  BY <1>5, <2>1 DEF FieldIs
<1>. QED  BY <1>5, <1>6, <1>7, <1>8, <1>9, <1>10, <1>11 DEF b, c, d, e, w

\* The bytes of the current read that are left.
LEMMA RestIs ==
  ASSUME buf \in Seq(Byte), start \in 0..Len(buf)
  PROVE  /\ rest \in Seq(Byte)
         /\ Len(rest) \in Nat
         /\ Len(rest) = Len(buf) - start
         /\ \A k \in 1..Len(rest) : rest[k] = buf[start + k] /\ rest[k] \in Byte
         /\ rest = <<>> <=> Len(rest) = 0
<1>. DEFINE r == SubSeq(buf, start + 1, Len(buf))
<1>1. Len(buf) \in Nat /\ start \in Nat /\ start <= Len(buf)
  OBVIOUS
<1>2. \A i \in (start + 1)..Len(buf) : buf[i] \in Byte
  <2>1. \A i \in (start + 1)..Len(buf) : i \in 1..Len(buf)
    BY <1>1
  <2>. QED  BY <2>1
<1>3. /\ r \in Seq(Byte)
      /\ Len(r) = IF start + 1 <= Len(buf) THEN Len(buf) - (start + 1) + 1 ELSE 0
      /\ \A i \in 1..(Len(buf) - (start + 1) + 1) : r[i] = buf[(start + 1) + i - 1]
  <2>1. start + 1 \in Int /\ Len(buf) \in Int
    BY <1>1
  <2>. QED  BY <1>2, <2>1, SubSeqProperties
<1>. HIDE DEF r
<1>4. Len(r) = Len(buf) - start /\ Len(r) \in Nat
  BY <1>1, <1>3
<1>5. \A k \in 1..Len(r) : r[k] = buf[start + k] /\ r[k] \in Byte
  BY <1>1, <1>2, <1>3, <1>4
<1>6. r = <<>> <=> Len(r) = 0
  BY <1>3
<1>. QED  BY <1>3, <1>4, <1>5, <1>6 DEF r, rest

PartOfRest(v, k, l) ==
  /\ v \in [1..l -> Byte]
  /\ v \in Seq(Byte)
  /\ \A i \in 1..l : k + i - 1 <= Len(rest) => v[i] = rest[k + i - 1]

\* A part of them, and of what is behind them, is a sequence of bytes.
LEMMA SliceIs ==
  ASSUME buf \in Seq(Byte), start \in 0..Len(buf),
         NEW k \in Nat \ {0}, NEW n \in Nat, NEW l \in Nat, l = n - k + 1
  PROVE  PartOfRest(Slice(k, n), k, l)
<1>1. Slice(k, n) = [i \in 1..l |-> IF k + i - 1 <= Len(rest) THEN rest[k + i - 1] ELSE 0]
  BY DEF Slice
<1>2. 0 \in Byte
  BY SizesAssumption DEF Byte
<1>3. \A i \in 1..l : (IF k + i - 1 <= Len(rest) THEN rest[k + i - 1] ELSE 0) \in Byte
  <2>1. \A i \in 1..l : k + i - 1 <= Len(rest) => k + i - 1 \in 1..Len(rest)
    BY RestIs
  <2>. QED  BY <1>2, <2>1, RestIs
<1>4. Slice(k, n) \in [1..l -> Byte]
  BY <1>1, <1>3
<1>5. Slice(k, n) \in Seq(Byte)
  BY <1>4
<1>. QED  BY <1>1, <1>4, <1>5 DEF PartOfRest

\* Whatever the bytes are, what is read of them is a message.
LEMMA ReadTypes ==
  ASSUME buf \in Seq(Byte), start \in 0..Len(buf), rest # <<>>
  PROVE  /\ TopicField \in Fields /\ TopicLen \in Nat /\ TopicEnd \in Nat
         /\ BodyField \in Fields /\ BodyLen \in Nat /\ MessageEnd \in Nat
         /\ ReadMessage \in Message
<1>0. LenBytes \in Nat
  BY SizesAssumption
<1>1. ASSUME NEW field \in Fields PROVE LengthOf(field) \in Nat
  <2>1. PICK sum \in [0..LenBytes -> Nat] : LengthOf(field) = sum[LenBytes]
    BY LengthOfIs
  <2>. QED  BY <1>0, <2>1
<1>2. TopicField \in Fields
  <2>1. LenBytes = (1 + LenBytes) - 2 + 1 /\ 1 + LenBytes \in Nat
    BY <1>0
  <2>. QED  BY <1>0, <2>1, SliceIs DEF TopicField, Fields, PartOfRest
<1>3. TopicLen \in Nat /\ TopicEnd \in Nat
  BY <1>0, <1>1, <1>2 DEF TopicLen, TopicEnd
<1>4. BodyField \in Fields
  <2>1. /\ LenBytes = (TopicEnd + LenBytes) - (TopicEnd + 1) + 1
        /\ TopicEnd + LenBytes \in Nat /\ TopicEnd + 1 \in Nat \ {0}
    BY <1>0, <1>3
  <2>. QED  BY <1>0, <2>1, SliceIs DEF BodyField, Fields, PartOfRest
<1>5. BodyLen \in Nat /\ MessageEnd \in Nat
  BY <1>0, <1>1, <1>3, <1>4 DEF BodyLen, MessageEnd
<1>6. Slice(2 + LenBytes, TopicEnd) \in Seq(Byte)
  <2>1. TopicLen = TopicEnd - (2 + LenBytes) + 1 /\ 2 + LenBytes \in Nat \ {0}
    BY <1>0, <1>3 DEF TopicEnd
  <2>. QED  BY <1>3, <2>1, SliceIs DEF PartOfRest
<1>7. Slice(TopicEnd + LenBytes + 1, MessageEnd) \in Seq(Byte)
  <2>1. /\ BodyLen = MessageEnd - (TopicEnd + LenBytes + 1) + 1
        /\ TopicEnd + LenBytes + 1 \in Nat \ {0}
    BY <1>0, <1>3, <1>5 DEF MessageEnd
  <2>. QED  BY <1>5, <2>1, SliceIs DEF PartOfRest
<1>8. rest[1] \in Byte
  BY RestIs
<1>. QED  BY <1>2, <1>3, <1>4, <1>5, <1>6, <1>7, <1>8 DEF ReadMessage, Message

LEMMA SameFunction ==
  ASSUME NEW l \in Nat, NEW S, NEW f \in [1..l -> S], NEW g \in [1..l -> S],
         \A i \in 1..l : f[i] = g[i]
  PROVE  f = g
OBVIOUS

Begins(w, v) == Len(v) <= Len(w) /\ \A k \in 1..Len(v) : w[k] = v[k]

\* Bytes that begin with a message are read as that message.
THEOREM MessageIsReadBack ==
  ASSUME buf \in Seq(Byte), start \in 0..Len(buf),
         NEW m \in Sendable, Begins(rest, Encode(m))
  PROVE  /\ rest # <<>> /\ ~ReadsNothing /\ ~FreesUnset
         /\ MessageEnd = Size(m)
         /\ ReadMessage = m
<1>. DEFINE L == LenBytes
            t == Len(m.topic)
            b == Len(m.body)
            w == Encode(m)
            n == Len(rest)
<1>1. L \in Nat \ {0} /\ t \in Nat /\ b \in Nat /\ n \in Nat
  BY SizesAssumption, SendableIs, RestIs
<1>2. Size(m) = 1 + 2 * L + t + b
  BY DEF Size
<1>3. /\ Len(w) = 1 + 2 * L + t + b
      /\ w[1] = m.type
      /\ \A i \in 1..L : w[1 + i] = LengthField(t)[i]
      /\ \A i \in 1..t : w[1 + L + i] = m.topic[i]
      /\ \A i \in 1..L : w[1 + L + t + i] = LengthField(b)[i]
      /\ \A i \in 1..b : w[1 + 2 * L + t + i] = m.body[i]
  BY <1>2, EncodeIs DEF FieldIs
<1>4. 1 + 2 * L + t + b <= n /\ \A k \in 1..(1 + 2 * L + t + b) : rest[k] = w[k]
  BY <1>3 DEF Begins
<1>6. /\ LengthField(t) \in Fields /\ LengthOf(LengthField(t)) = t /\ ~Huge(LengthField(t))
      /\ LengthField(b) \in Fields /\ LengthOf(LengthField(b)) = b /\ ~Huge(LengthField(b))
      /\ m.topic \in Seq(Byte) /\ m.body \in Seq(Byte) /\ m \in Message
  BY SendableIs
<1>. HIDE DEF L, t, b, w, n
<1>5. rest # <<>>
  <2>1. n # 0
    BY <1>1, <1>4
  <2>2. rest = <<>> <=> n = 0
    BY RestIs DEF n
  <2>. QED  BY <2>1, <2>2
<1>7. TopicField = LengthField(t)
  <2>1. PartOfRest(TopicField, 2, L)
    <3>1. L = (1 + L) - 2 + 1 /\ 1 + L \in Nat /\ 2 \in Nat \ {0} /\ L \in Nat
      BY <1>1
    <3>2. TopicField = Slice(2, 1 + L)
      BY DEF TopicField, L
    <3>. QED  BY <3>1, <3>2, SliceIs, Zenon
  <2>2. ASSUME NEW i \in 1..L PROVE TopicField[i] = LengthField(t)[i]
    <3>1. 2 + i - 1 = 1 + i /\ 1 + i \in 1..(1 + 2 * L + t + b) /\ 1 + i <= n
      BY <1>1, <1>4
    <3>. QED  BY <1>3, <1>4, <2>1, <3>1 DEF PartOfRest, n
  <2>3. LengthField(t) \in [1..L -> Byte] /\ TopicField \in [1..L -> Byte] /\ L \in Nat
    BY <1>1, <1>6, <2>1 DEF Fields, L, PartOfRest
  <2>. QED  BY <2>2, <2>3, SameFunction, Zenon
<1>8. TopicLen = t /\ TopicEnd = 1 + L + t
  BY <1>6, <1>7 DEF TopicLen, TopicEnd, L
<1>9. BodyField = LengthField(b)
  <2>1. PartOfRest(BodyField, 2 + L + t, L)
    <3>1. /\ L = (1 + 2 * L + t) - (2 + L + t) + 1
          /\ 1 + 2 * L + t \in Nat /\ 2 + L + t \in Nat \ {0} /\ L \in Nat
          /\ TopicEnd + 1 = 2 + L + t /\ TopicEnd + L = 1 + 2 * L + t
      BY <1>1, <1>8
    <3>2. BodyField = Slice(2 + L + t, 1 + 2 * L + t)
      BY <3>1 DEF BodyField, L
    <3>. QED  BY <3>1, <3>2, SliceIs, Zenon
  <2>2. ASSUME NEW i \in 1..L PROVE BodyField[i] = LengthField(b)[i]
    <3>1. /\ (2 + L + t) + i - 1 = 1 + L + t + i
          /\ 1 + L + t + i \in 1..(1 + 2 * L + t + b) /\ 1 + L + t + i <= n
      BY <1>1, <1>4
    <3>. QED  BY <1>3, <1>4, <2>1, <3>1 DEF PartOfRest, n
  <2>3. LengthField(b) \in [1..L -> Byte] /\ BodyField \in [1..L -> Byte] /\ L \in Nat
    BY <1>1, <1>6, <2>1 DEF Fields, L, PartOfRest
  <2>. QED  BY <2>2, <2>3, SameFunction, Zenon
<1>10. BodyLen = b /\ MessageEnd = 1 + 2 * L + t + b
  <2>1. BodyLen = b
    BY <1>6, <1>9 DEF BodyLen
  <2>2. MessageEnd = (1 + L + t) + L + b
    BY <1>8, <2>1 DEF MessageEnd, L
  <2>. QED  BY <1>1, <2>1, <2>2
<1>11. ~ReadsNothing
  <2>1. ~(n < 1 + L)
    BY <1>1, <1>4
  <2>2. ASSUME n = TopicEnd + L PROVE b = 0
    BY <1>1, <1>4, <1>8, <2>2
  <2>. QED  BY <1>10, <2>1, <2>2 DEF ReadsNothing, n, L
<1>12. ~FreesUnset
  <2>1. ~(n = 1 + L) /\ ~(n < TopicEnd + L)
    BY <1>1, <1>4, <1>8
  <2>2. ~Huge(TopicField) /\ ~Huge(BodyField)
    BY <1>6, <1>7, <1>9
  <2>. QED  BY <2>1, <2>2 DEF FreesUnset, n, L
<1>13. Slice(2 + LenBytes, TopicEnd) = m.topic
  <2>1. PartOfRest(Slice(2 + L, 1 + L + t), 2 + L, t)
    <3>1. t = (1 + L + t) - (2 + L) + 1 /\ 1 + L + t \in Nat /\ 2 + L \in Nat \ {0} /\ t \in Nat
      BY <1>1
    <3>. QED  BY <3>1, SliceIs, Zenon
  <2>2. ASSUME NEW i \in 1..t PROVE Slice(2 + L, 1 + L + t)[i] = m.topic[i]
    <3>1. /\ (2 + L) + i - 1 = 1 + L + i
          /\ 1 + L + i \in 1..(1 + 2 * L + t + b) /\ 1 + L + i <= n
      BY <1>1, <1>4
    <3>. QED  BY <1>3, <1>4, <2>1, <3>1 DEF PartOfRest, n
  <2>3. /\ m.topic \in [1..t -> Byte] /\ t \in Nat
        /\ Slice(2 + L, 1 + L + t) \in [1..t -> Byte]
    BY <1>1, <1>6, <2>1 DEF t, PartOfRest
  <2>4. Slice(2 + L, 1 + L + t) = m.topic
    BY <2>2, <2>3, SameFunction, Zenon
  <2>. QED  BY <1>8, <2>4 DEF L
<1>14. Slice(TopicEnd + LenBytes + 1, MessageEnd) = m.body
  <2>. DEFINE k == 2 + 2 * L + t
              e == 1 + 2 * L + t + b
  <2>0. /\ b = e - k + 1 /\ e \in Nat /\ k \in Nat \ {0} /\ b \in Nat
        /\ TopicEnd + L + 1 = k
    BY <1>1, <1>8
  <2>1. PartOfRest(Slice(k, e), k, b)
    BY <2>0, SliceIs, Zenon
  <2>2. ASSUME NEW i \in 1..b PROVE Slice(k, e)[i] = m.body[i]
    <3>1. /\ k + i - 1 = 1 + 2 * L + t + i
          /\ 1 + 2 * L + t + i \in 1..(1 + 2 * L + t + b) /\ 1 + 2 * L + t + i <= n
      BY <1>1, <1>4
    <3>. QED  BY <1>3, <1>4, <2>1, <3>1 DEF PartOfRest, n
  <2>3. /\ m.body \in [1..b -> Byte] /\ b \in Nat
        /\ Slice(k, e) \in [1..b -> Byte]
    <3>. HIDE DEF k, e
    <3>1. m.body \in [1..b -> Byte]
      BY <1>6 DEF b
    <3>. QED  BY <1>1, <2>1, <3>1 DEF PartOfRest
  <2>. HIDE DEF k, e
  <2>4. Slice(k, e) = m.body
    BY <2>2, <2>3, SameFunction, Zenon
  <2>5. MessageEnd = e
    BY <1>10 DEF e
  <2>. QED  BY <2>0, <2>4, <2>5 DEF L
<1>15. rest[1] = m.type
  <2>1. 1 \in 1..(1 + 2 * L + t + b)
    BY <1>1
  <2>. QED  BY <1>3, <1>4, <2>1
<1>16. ReadMessage = m
  <2>1. m = [type |-> m.type, topic |-> m.topic, body |-> m.body]
    BY <1>6 DEF Message
  <2>. QED  BY <1>13, <1>14, <1>15, <2>1 DEF ReadMessage
<1>. QED  BY <1>2, <1>5, <1>10, <1>11, <1>12, <1>16

-------------------------------------------------------------------------------
(* Many messages, one behind the other *)

Total(ms) == BytesOf(ms)[Len(ms)]

\* The bytes of the first j messages, for every j.
LEMMA BytesOfIs ==
  ASSUME NEW ms \in Seq(Sendable)
  PROVE  /\ BytesOf(ms) \in [0..Len(ms) -> Nat]
         /\ BytesOf(ms)[0] = 0
         /\ \A j \in 1..Len(ms) : BytesOf(ms)[j] = BytesOf(ms)[j - 1] + Size(ms[j])
<1>. DEFINE n == Len(ms)
            After == [j \in 1..n |-> [a \in Nat |-> a + Size(ms[j])]]
            Step(g) == [j \in 0..n |-> IF j = 0 THEN 0 ELSE g[j - 1] + Size(ms[j])]
            sum == CHOOSE g : g = Step(g)
<1>1. n \in Nat /\ \A j \in 1..n : ms[j] \in Sendable
  OBVIOUS
<1>2. \A j \in 1..n : Size(ms[j]) \in Nat
  BY <1>1, SendableIs, Zenon
<1>. HIDE DEF n
<1>3. After \in [1..n -> [Nat -> Nat]]
  BY <1>2
<1>4. PICK h \in [0..n -> Nat] : h[0] = 0 /\ \A j \in 1..n : h[j] = After[j][h[j - 1]]
  <2>. HIDE DEF After
  <2>1. LoopStates(n, Nat, 0, After) # {}
    BY <1>1, <1>3, LoopRuns, Zenon
  <2>. QED  BY <2>1 DEF LoopStates
<1>5. h = Step(h)
  <2>1. ASSUME NEW j \in 0..n PROVE h[j] = Step(h)[j]
    <3>1. CASE j = 0
      BY <1>4, <3>1
    <3>2. CASE j # 0
      <4>1. j \in 1..n /\ j - 1 \in 0..n
        BY <1>1, <3>2
      <4>. QED  BY <1>4, <3>2, <4>1
    <3>. QED  BY <3>1, <3>2
  <2>. QED  BY <2>1
<1>6. sum = Step(sum)
  <2>. HIDE DEF Step
  <2>. QED  BY <1>5
<1>7. BytesOf(ms) = sum
  BY DEF BytesOf, n
<1>. HIDE DEF sum
<1>8. \A j \in 0..n : sum[j] = IF j = 0 THEN 0 ELSE sum[j - 1] + Size(ms[j])
  BY <1>6
<1>9. sum[0] = 0 /\ \A j \in 1..n : sum[j] = sum[j - 1] + Size(ms[j])
  BY <1>1, <1>8
<1>. DEFINE T == {j \in 0..n : sum[j] \in Nat}
<1>10. 0 \in T /\ \A j \in 1..n : j - 1 \in T => j \in T
  <2>1. 0 \in T
    BY <1>1, <1>9
  <2>2. ASSUME NEW j \in 1..n, j - 1 \in T PROVE j \in T
    <3>1. j \in 0..n /\ sum[j - 1] \in Nat /\ Size(ms[j]) \in Nat
      BY <1>1, <1>2, <2>2
    <3>2. sum[j] = sum[j - 1] + Size(ms[j])
      BY <1>9
    <3>. QED  BY <3>1, <3>2
  <2>. QED  BY <2>1, <2>2
<1>11. \A j \in 0..n : j \in T
  <2>. HIDE DEF T
  <2>. QED  BY <1>1, <1>10, PlacesInduction
<1>12. sum = [j \in 0..n |-> sum[j]]
  BY <1>6
<1>13. sum \in [0..n -> Nat]
  BY <1>11, <1>12
<1>. QED  BY <1>7, <1>9, <1>13 DEF n

\* Later messages end later.
LEMMA BytesOfGrow ==
  ASSUME NEW ms \in Seq(Sendable), NEW i \in 0..Len(ms), NEW j \in 0..Len(ms), i <= j
  PROVE  BytesOf(ms)[i] <= BytesOf(ms)[j]
<1>. DEFINE B == BytesOf(ms)
            n == Len(ms)
            T == {k \in 0..n : i <= k => B[i] <= B[k]}
<1>1. /\ n \in Nat
      /\ B \in [0..n -> Nat]
      /\ \A k \in 1..n : B[k] = B[k - 1] + Size(ms[k])
  BY BytesOfIs
<1>2. \A k \in 1..n : Size(ms[k]) \in Nat
  <2>1. \A k \in 1..n : ms[k] \in Sendable
    OBVIOUS
  <2>. QED  BY <2>1, SendableIs, Zenon
<1>. HIDE DEF B, n
<1>3. i \in 0..n /\ j \in 0..n
  BY DEF n
<1>4. 0 \in T
  BY <1>1, <1>3
<1>5. ASSUME NEW k \in 1..n, k - 1 \in T PROVE k \in T
  <2>1. k \in 0..n /\ k - 1 \in 0..n /\ B[k] \in Nat /\ B[k - 1] \in Nat /\ B[i] \in Nat
    BY <1>1, <1>3
  <2>2. B[k - 1] <= B[k]
    BY <1>1, <1>2, <2>1
  <2>3. CASE i = k
    BY <2>1, <2>3
  <2>4. CASE i # k
    BY <1>3, <1>5, <2>1, <2>2, <2>4
  <2>. QED  BY <2>3, <2>4
<1>6. \A k \in 0..n : k \in T
  <2>. HIDE DEF T
  <2>. QED  BY <1>1, <1>4, <1>5, PlacesInduction
<1>. QED  BY <1>3, <1>6 DEF B

\* Another message leaves those before it where they are.
LEMMA BytesOfAppend ==
  ASSUME NEW ms \in Seq(Sendable), NEW m \in Sendable
  PROVE  /\ \A j \in 0..Len(ms) : BytesOf(Append(ms, m))[j] = BytesOf(ms)[j]
         /\ Total(Append(ms, m)) = Total(ms) + Size(m)
<1>. DEFINE B == BytesOf(ms)
            n == Len(ms)
            more == Append(ms, m)
            C == BytesOf(more)
            T == {k \in 0..n : C[k] = B[k]}
<1>1. /\ n \in Nat /\ more \in Seq(Sendable) /\ Len(more) = n + 1 /\ more[n + 1] = m
      /\ \A k \in 1..n : more[k] = ms[k]
  OBVIOUS
<1>2. B[0] = 0 /\ \A k \in 1..n : B[k] = B[k - 1] + Size(ms[k])
  BY BytesOfIs
<1>. HIDE DEF more
<1>3. C[0] = 0 /\ \A k \in 1..(n + 1) : C[k] = C[k - 1] + Size(more[k])
  <2>1. C[0] = 0 /\ \A k \in 1..Len(more) : C[k] = C[k - 1] + Size(more[k])
    BY <1>1, BytesOfIs, Zenon
  <2>. QED  BY <1>1, <2>1
<1>. HIDE DEF B, n, C
<1>4. 0 \in T
  BY <1>1, <1>2, <1>3
<1>5. ASSUME NEW k \in 1..n, k - 1 \in T PROVE k \in T
  <2>1. k \in 0..n /\ k \in 1..(n + 1) /\ C[k - 1] = B[k - 1]
    BY <1>1, <1>5
  <2>2. C[k] = B[k]
    BY <1>1, <1>2, <1>3, <2>1
  <2>. QED  BY <2>1, <2>2
<1>6. \A k \in 0..n : k \in T
  <2>. HIDE DEF T
  <2>. QED  BY <1>1, <1>4, <1>5, PlacesInduction
<1>7. \A k \in 0..n : C[k] = B[k]
  BY <1>6
<1>8. C[n + 1] = B[n] + Size(m)
  <2>1. n + 1 \in 1..(n + 1) /\ (n + 1) - 1 = n /\ n \in 0..n
    BY <1>1
  <2>. QED  BY <1>1, <1>3, <1>7, <2>1
<1>. QED  BY <1>1, <1>7, <1>8 DEF B, C, n, more, Total

\* Bytes that stand at place from of the messages ms, written one behind the other.
Carries(ms, bytes, from) ==
  \A j \in 1..Len(ms) : \A k \in 1..Size(ms[j]) : \A i \in 1..Len(bytes) :
    from + i = BytesOf(ms)[j - 1] + k => bytes[i] = Encode(ms[j])[k]

LEMMA PartsOfSeq ==
  ASSUME NEW S, NEW w \in Seq(S), NEW p \in 0..Len(w)
  PROVE  /\ SubSeq(w, 1, p) \in Seq(S) /\ Len(SubSeq(w, 1, p)) = p
         /\ \A i \in 1..p : SubSeq(w, 1, p)[i] = w[i]
         /\ SubSeq(w, p + 1, Len(w)) \in Seq(S) /\ Len(SubSeq(w, p + 1, Len(w))) = Len(w) - p
         /\ \A i \in 1..(Len(w) - p) : SubSeq(w, p + 1, Len(w))[i] = w[p + i]
OBVIOUS

LEMMA CarriesParts ==
  ASSUME NEW ms \in Seq(Sendable), NEW bytes \in Seq(Byte), NEW from \in Nat, NEW p \in 0..Len(bytes),
         Carries(ms, bytes, from)
  PROVE  /\ Carries(ms, SubSeq(bytes, 1, p), from)
         /\ Carries(ms, SubSeq(bytes, p + 1, Len(bytes)), from + p)
<1>. DEFINE u == SubSeq(bytes, 1, p)
            v == SubSeq(bytes, p + 1, Len(bytes))
<1>1. /\ u \in Seq(Byte) /\ Len(u) = p /\ \A i \in 1..p : u[i] = bytes[i]
      /\ v \in Seq(Byte) /\ Len(v) = Len(bytes) - p /\ \A i \in 1..(Len(bytes) - p) : v[i] = bytes[p + i]
  BY PartsOfSeq
<1>2. p \in Nat /\ Len(bytes) \in Nat /\ p <= Len(bytes)
  OBVIOUS
<1>. HIDE DEF u, v
<1>4. Carries(ms, u, from)
  BY <1>1, <1>2 DEF Carries
<1>5. ASSUME NEW j \in 1..Len(ms), NEW k \in 1..Size(ms[j]), NEW i \in 1..Len(v),
             from + p + i = BytesOf(ms)[j - 1] + k
      PROVE  v[i] = Encode(ms[j])[k]
  <2>1. p + i \in 1..Len(bytes) /\ v[i] = bytes[p + i] /\ from + (p + i) = from + p + i
    BY <1>1, <1>2
  <2>2. bytes[p + i] = Encode(ms[j])[k]
    BY <1>5, <2>1 DEF Carries
  <2>. QED  BY <2>1, <2>2
<1>6. Carries(ms, v, from + p)
  BY <1>5 DEF Carries
<1>. QED  BY <1>4, <1>6 DEF u, v

LEMMA CarriesJoin ==
  ASSUME NEW ms \in Seq(Sendable), NEW u \in Seq(Byte), NEW v \in Seq(Byte), NEW from \in Nat,
         Carries(ms, u, from), Carries(ms, v, from + Len(u))
  PROVE  Carries(ms, u \o v, from)
<1>. DEFINE w == u \o v
<1>1. w \in Seq(Byte) /\ Joined(w, u, v, Byte) /\ Len(u) \in Nat /\ Len(v) \in Nat
  BY JoinIs DEF Joined
<1>. HIDE DEF w
<1>2. ASSUME NEW j \in 1..Len(ms), NEW k \in 1..Size(ms[j]), NEW i \in 1..Len(w),
             from + i = BytesOf(ms)[j - 1] + k
      PROVE  w[i] = Encode(ms[j])[k]
  <2>1. CASE i <= Len(u)
    <3>1. i \in 1..Len(u) /\ w[i] = u[i]
      BY <1>1, <2>1 DEF Joined
    <3>2. u[i] = Encode(ms[j])[k]
      BY <1>2, <3>1 DEF Carries
    <3>. QED  BY <3>1, <3>2
  <2>2. CASE ~(i <= Len(u))
    <3>. DEFINE l == i - Len(u)
    <3>1. l \in 1..Len(v) /\ i = Len(u) + l /\ (from + Len(u)) + l = from + i
      BY <1>1, <2>2 DEF Joined
    <3>2. w[i] = v[l]
      BY <1>1, <3>1 DEF Joined
    <3>3. v[l] = Encode(ms[j])[k]
      <4>. HIDE DEF l
      <4>. QED  BY <1>2, <3>1 DEF Carries
    <3>. QED  BY <3>2, <3>3
  <2>. QED  BY <2>1, <2>2
<1>3. Carries(ms, w, from)
  BY <1>2 DEF Carries
<1>. QED  BY <1>3 DEF w

\* Bytes that end where ms ends are not among those of a message after ms.
LEMMA CarriesKeep ==
  ASSUME NEW ms \in Seq(Sendable), NEW m \in Sendable, NEW bytes \in Seq(Byte), NEW from \in Nat,
         Carries(ms, bytes, from), from + Len(bytes) <= Total(ms)
  PROVE  Carries(Append(ms, m), bytes, from)
<1>. DEFINE more == Append(ms, m)
            n == Len(ms)
<1>1. /\ n \in Nat /\ more \in Seq(Sendable) /\ Len(more) = n + 1
      /\ \A k \in 1..n : more[k] = ms[k]
  OBVIOUS
<1>2. \A j \in 0..n : BytesOf(more)[j] = BytesOf(ms)[j]
  BY BytesOfAppend
<1>3. Total(ms) = BytesOf(ms)[n] /\ Total(ms) \in Nat
  <2>1. BytesOf(ms) \in [0..n -> Nat] /\ n \in 0..n
    BY <1>1, BytesOfIs
  <2>. QED  BY <2>1 DEF Total
<1>. HIDE DEF more, n
<1>4. ASSUME NEW j \in 1..Len(more), NEW k \in 1..Size(more[j]), NEW i \in 1..Len(bytes),
             from + i = BytesOf(more)[j - 1] + k
      PROVE  bytes[i] = Encode(more[j])[k]
  <2>0. n \in 0..n /\ j \in 1..(n + 1) /\ from + i <= Total(ms)
    BY <1>1, <1>3
  <2>1. CASE j = n + 1
    <3>1. j - 1 = n
      BY <1>1, <2>1
    <3>2. from + i = Total(ms) + k
      BY <1>2, <1>3, <1>4, <2>0, <3>1
    <3>3. k \in Int /\ 1 <= k
      OBVIOUS
    <3>. QED  BY <1>3, <2>0, <3>2, <3>3
  <2>2. CASE j # n + 1
    <3>1. j \in 1..n /\ j - 1 \in 0..n
      BY <1>1, <2>0, <2>2
    <3>2. more[j] = ms[j] /\ k \in 1..Size(ms[j]) /\ from + i = BytesOf(ms)[j - 1] + k
      BY <1>1, <1>2, <1>4, <3>1
    <3>. QED  BY <3>1, <3>2 DEF Carries, n
  <2>. QED  BY <2>1, <2>2
<1>. QED  BY <1>4 DEF Carries, more

\* What is sent goes behind what is under way.
LEMMA CarriesSend ==
  ASSUME NEW ms \in Seq(Sendable), NEW m \in Sendable, NEW bytes \in Seq(Byte), NEW from \in Nat,
         Carries(ms, bytes, from), from + Len(bytes) = Total(ms)
  PROVE  Carries(Append(ms, m), bytes \o Encode(m), from)
<1>. DEFINE more == Append(ms, m)
            n == Len(ms)
            w == Encode(m)
<1>1. /\ n \in Nat /\ more \in Seq(Sendable) /\ Len(more) = n + 1 /\ more[n + 1] = m
      /\ \A k \in 1..n : more[k] = ms[k]
  OBVIOUS
<1>2. w \in Seq(Byte) /\ Len(w) = Size(m)
  BY EncodeIs
<1>3. BytesOf(more) \in [0..(n + 1) -> Nat] /\ BytesOf(more)[n] = Total(ms)
  <2>1. n \in 0..n
    BY <1>1
  <2>2. BytesOf(more)[n] = Total(ms)
    BY <2>1, BytesOfAppend DEF Total
  <2>. HIDE DEF more, n
  <2>3. BytesOf(more) \in [0..Len(more) -> Nat]
    BY <1>1, BytesOfIs
  <2>. QED  BY <1>1, <2>2, <2>3
<1>. HIDE DEF more, n, w
<1>4. Carries(more, bytes, from)
  <2>1. Len(bytes) \in Nat
    OBVIOUS
  <2>2. from + Len(bytes) <= Total(ms)
    BY <2>1
  <2>. QED  BY <2>2, CarriesKeep DEF more
<1>5. ASSUME NEW j \in 1..Len(more), NEW k \in 1..Size(more[j]), NEW i \in 1..Len(w),
             (from + Len(bytes)) + i = BytesOf(more)[j - 1] + k
      PROVE  w[i] = Encode(more[j])[k]
  <2>0. j \in 1..(n + 1) /\ k \in Int /\ Len(bytes) \in Nat /\ i \in Nat
    BY <1>1, <1>2
  <2>1. CASE j = n + 1
    <3>1. j - 1 = n /\ more[j] = m
      BY <1>1, <2>1
    <3>2. Total(ms) \in Nat /\ Total(ms) + i = Total(ms) + k
      <4>1. Total(ms) \in Nat
        BY <2>0
      <4>. QED  BY <1>3, <1>5, <3>1, <4>1
    <3>3. i = k
      BY <2>0, <3>2
    <3>. QED  BY <3>1, <3>3 DEF w
  <2>2. CASE j # n + 1
    <3>1. j \in 1..n /\ j - 1 \in 0..(n + 1) /\ j \in 0..(n + 1) /\ n \in 0..(n + 1) /\ j <= n
      BY <1>1, <2>0, <2>2
    <3>2. BytesOf(more)[j] = BytesOf(more)[j - 1] + Size(more[j])
      BY <1>1, BytesOfIs
    <3>3. BytesOf(more)[j] <= BytesOf(more)[n]
      BY <1>1, <3>1, BytesOfGrow
    <3>4. Size(more[j]) \in Nat
      <4>1. more[j] \in Sendable
        BY <1>1
      <4>. QED  BY <4>1, SendableIs
    <3>5. BytesOf(more)[j - 1] \in Nat /\ Total(ms) \in Nat
      BY <1>3, <3>1
    <3>. QED  BY <1>3, <1>5, <2>0, <3>2, <3>3, <3>4, <3>5
  <2>. QED  BY <2>1, <2>2
<1>6. Carries(more, w, from + Len(bytes))
  BY <1>5 DEF Carries
<1>7. Carries(more, bytes \o w, from)
  BY <1>1, <1>2, <1>4, <1>6, CarriesJoin
<1>. QED  BY <1>7 DEF more, w

\* Bytes that stand at the end of a message and reach to the end of the next one or
\* further begin with that one.
LEMMA CarriesMessage ==
  ASSUME NEW ms \in Seq(Sendable), NEW j \in 1..Len(ms), NEW bytes \in Seq(Byte), NEW from \in Nat,
         Carries(ms, bytes, from), from = BytesOf(ms)[j - 1],
         BytesOf(ms)[j] <= from + Len(bytes)
  PROVE  Begins(bytes, Encode(ms[j]))
<1>1. ms[j] \in Sendable
  OBVIOUS
<1>2. Size(ms[j]) \in Nat /\ Len(Encode(ms[j])) = Size(ms[j])
  BY <1>1, SendableIs, EncodeIs
<1>3. BytesOf(ms)[j] = from + Size(ms[j])
  BY BytesOfIs
<1>4. Len(bytes) \in Nat
  OBVIOUS
<1>5. Size(ms[j]) <= Len(bytes)
  BY <1>2, <1>3, <1>4
<1>6. ASSUME NEW k \in 1..Size(ms[j]) PROVE bytes[k] = Encode(ms[j])[k]
  <2>1. k \in 1..Len(bytes) /\ from + k = BytesOf(ms)[j - 1] + k
    BY <1>2, <1>4, <1>5
  <2>. QED  BY <2>1 DEF Carries
<1>. QED  BY <1>2, <1>5, <1>6 DEF Begins

-------------------------------------------------------------------------------
(* The invariants *)

\* The loop of read_all_raw_bytes is entered when there is something to receive, and
\* goes on after a full buffer only.
RecvInv ==
  pc = "recv" =>
    /\ \E q \in Nat : Len(buf) = q * BufSize
    /\ stream # <<>> \/ closed \/ buf # <<>>

\* What is under way, and what was received last, are the last bytes of what was sent.
WireInv ==
  /\ Len(stream) <= Total(sent)
  /\ Carries(sent, stream, Total(sent) - Len(stream))
  /\ pc \in {"recv", "parse"} =>
       /\ Len(buf) + Len(stream) <= Total(sent)
       /\ Carries(sent, buf, Total(sent) - Len(stream) - Len(buf))

\* The messages ms are the first ones of all, and n bytes of the others are left.
LeftAfter(all, ms, n) ==
  \E j \in 0..Len(all) : ms = SubSeq(all, 1, j) /\ n = Total(all) - BytesOf(all)[j]

\* A message ends n bytes before the end of all.
EndsAt(all, n) == \E j \in 0..Len(all) : n = Total(all) - BytesOf(all)[j]

\* As long as every read ended where a message ends, so does every step of the reader.
FrameInv ==
  /\ pc = "recv" => start = 0 /\ msgs = <<>>
  /\ pc = "parse" /\ buf = <<>> => closed
  /\ whole =>
       /\ pc = "idle" => LeftAfter(sent, got, Len(stream))
       /\ pc = "recv" => LeftAfter(sent, got, Len(buf) + Len(stream))
       /\ pc = "parse" =>
            /\ LeftAfter(sent, got \o msgs, Len(rest) + Len(stream))
            /\ EndsAt(sent, Len(stream))
       /\ pc # "badRead"
       /\ pc = "disconnect" => closed /\ buf = <<>>

-------------------------------------------------------------------------------
(* Types *)

\* A portion of the stream that recv may give.
Portions == 1..(IF Len(stream) < BufSize THEN Len(stream) ELSE BufSize)

LEMMA PortionIs ==
  ASSUME stream \in Seq(Byte), NEW k \in Portions
  PROVE  k \in 1..Len(stream) /\ k \in 0..Len(stream) /\ k <= BufSize
<1>1. Len(stream) \in Nat /\ BufSize \in Nat
  BY SizesAssumption
<1>. QED  BY <1>1 DEF Portions

\* What the reader does after the last message of a read.
LEMMA FinishTypes ==
  ASSUME got \in Seq(Message), NEW ms \in Seq(Message), Finish(ms)
  PROVE  pc' \in ReaderPc /\ got' \in Seq(Message)
<1>1. pc' \in ReaderPc
  BY DEF Finish, ReaderPc
<1>2. got' = got \/ got' = got \o ms
  BY DEF Finish
<1>3. got \o ms \in Seq(Message)
  OBVIOUS
<1>. QED  BY <1>1, <1>2, <1>3, Zenon

LEMMA MessagesInit ==
  ASSUME Init
  PROVE  TypeOK
<1>1. /\ <<>> \in Seq(Sendable) /\ <<>> \in Seq(Byte) /\ <<>> \in Seq(Message)
      /\ 0 \in 0..Len(<<>>) /\ "idle" \in ReaderPc
  BY DEF ReaderPc
<1>2. /\ sent = <<>> /\ stream = <<>> /\ buf = <<>> /\ msgs = <<>> /\ got = <<>>
      /\ closed = FALSE /\ whole = TRUE /\ pc = "idle" /\ start = 0
  BY DEF Init
<1>. QED  BY <1>1, <1>2 DEF TypeOK

LEMMA MessagesTypeStep ==
  ASSUME TypeOK, [Next]_vars
  PROVE  TypeOK'
<1>0. /\ sent \in Seq(Sendable) /\ closed \in BOOLEAN /\ whole \in BOOLEAN
      /\ stream \in Seq(Byte) /\ buf \in Seq(Byte) /\ pc \in ReaderPc
      /\ start \in 0..Len(buf) /\ msgs \in Seq(Message) /\ got \in Seq(Message)
  BY DEF TypeOK
<1>1. ASSUME NEW m \in Sendable, Send(m) PROVE TypeOK'
  <2>1. stream' \in Seq(Byte)
    BY <1>0, <1>1, EncodeIs DEF Send
  <2>2. sent' \in Seq(Sendable)
    BY <1>0, <1>1 DEF Send
  <2>. QED  BY <1>0, <1>1, <2>1, <2>2 DEF Send, TypeOK
<1>2. CASE Close
  BY <1>0, <1>2 DEF Close, TypeOK
<1>3. CASE StartRead
  BY <1>0, <1>3 DEF StartRead, TypeOK, ReaderPc
<1>4. CASE HangUp
  BY <1>0, <1>4 DEF HangUp, TypeOK, ReaderPc
<1>5. CASE Recv
  <2>1. PICK k \in Portions :
          /\ buf' = buf \o SubSeq(stream, 1, k)
          /\ stream' = SubSeq(stream, k + 1, Len(stream))
          /\ \/ k = BufSize /\ UNCHANGED <<pc, whole>>
             \/ k < BufSize /\ pc' = "parse" /\ whole' = (whole /\ AtBoundary(stream'))
    BY <1>5 DEF Recv, Portions
  <2>2. k \in 0..Len(stream)
    BY <1>0, PortionIs
  <2>3. SubSeq(stream, 1, k) \in Seq(Byte) /\ stream' \in Seq(Byte)
    BY <1>0, <2>1, <2>2, PartsOfSeq
  <2>4. buf' \in Seq(Byte) /\ start \in 0..Len(buf')
    <3>1. Joined(buf', buf, SubSeq(stream, 1, k), Byte)
      BY <1>0, <2>1, <2>3, JoinIs
    <3>2. Len(buf) \in Nat /\ Len(SubSeq(stream, 1, k)) \in Nat
      BY <1>0, <2>3
    <3>3. buf' \in Seq(Byte) /\ Len(buf') = Len(buf) + Len(SubSeq(stream, 1, k))
      BY <3>1 DEF Joined
    <3>4. \A a, b, c \in Nat : a \in 0..b => a \in 0..(b + c)
      OBVIOUS
    <3>5. start \in Nat
      BY <1>0
    <3>. QED  BY <1>0, <3>2, <3>3, <3>4, <3>5, Zenon
  <2>5. pc' \in ReaderPc /\ whole' \in BOOLEAN
    BY <1>0, <2>1 DEF ReaderPc
  <2>. QED  BY <1>0, <1>5, <2>3, <2>4, <2>5 DEF Recv, TypeOK
<1>6. CASE RecvEnd
  BY <1>0, <1>6 DEF RecvEnd, TypeOK, ReaderPc
<1>7. CASE RecvFails
  BY <1>0, <1>7 DEF RecvFails, TypeOK, ReaderPc
<1>8. ASSUME rest # <<>>
      PROVE  Append(msgs, ReadMessage) \in Seq(Message) /\ MessageEnd \in Nat
  BY <1>0, <1>8, ReadTypes
<1>9. CASE ParseNext
  <2>1. msgs' \in Seq(Message)
    BY <1>8, <1>9 DEF ParseNext
  <2>2. start' \in 0..Len(buf)
    <3>1. MessageEnd \in Nat /\ MessageEnd < Len(rest) /\ start' = start + MessageEnd
      BY <1>8, <1>9 DEF ParseNext
    <3>2. Len(rest) = Len(buf) - start /\ Len(buf) \in Nat
      BY <1>0, RestIs
    <3>. QED  BY <1>0, <3>1, <3>2
  <2>. QED  BY <1>0, <1>9, <2>1, <2>2 DEF ParseNext, TypeOK
<1>10. CASE ParseLast
  <2>1. msgs' \in Seq(Message)
    BY <1>8, <1>10 DEF ParseLast
  <2>2. pc' \in ReaderPc /\ got' \in Seq(Message)
    BY <1>0, <1>10, <2>1, FinishTypes DEF ParseLast, ReaderPc
  <2>. QED  BY <1>0, <1>10, <2>1, <2>2 DEF ParseLast, TypeOK
<1>11. CASE ParseNothing
  <2>1. pc' \in ReaderPc /\ got' \in Seq(Message)
    BY <1>0, <1>11, FinishTypes DEF ParseNothing
  <2>. QED  BY <1>0, <1>11, <2>1 DEF ParseNothing, TypeOK
<1>12. CASE ParseUnset
  <2>1. pc' \in ReaderPc /\ got' \in Seq(Message)
    BY <1>0, <1>12, FinishTypes DEF ParseUnset, ReaderPc
  <2>. QED  BY <1>0, <1>12, <2>1 DEF ParseUnset, TypeOK
<1>13. CASE UNCHANGED vars
  BY <1>0, <1>13 DEF vars, TypeOK
<1>. QED  BY <1>1, <1>2, <1>3, <1>4, <1>5, <1>6, <1>7, <1>9, <1>10, <1>11, <1>12, <1>13 DEF Next

\* Whatever is received, whole messages or parts of them, the reader's state keeps its
\* types: what messages_read returns is a message, and byte_data stays within the bytes.
THEOREM MessagesTypeCorrect == Spec => []TypeOK
<1>1. Init => TypeOK
  BY MessagesInit
<1>2. TypeOK /\ [Next]_vars => TypeOK'
  BY MessagesTypeStep
<1>. QED  BY <1>1, <1>2, PTL DEF Spec

-------------------------------------------------------------------------------
(* A reader that is stuck *)

LEMMA RecvStep ==
  ASSUME TypeOK, RecvInv, [Next]_vars
  PROVE  RecvInv'
<1>0. stream \in Seq(Byte) /\ buf \in Seq(Byte) /\ BufSize \in Nat \ {0}
  BY SizesAssumption DEF TypeOK
<1>1. ASSUME NEW m \in Sendable, Send(m) PROVE RecvInv'
  <2>1. stream' # <<>>
    <3>1. Joined(stream', stream, Encode(m), Byte)
      BY <1>0, <1>1, EncodeIs, JoinIs DEF Send
    <3>2. Len(stream) \in Nat /\ Len(Encode(m)) \in Nat /\ Len(Encode(m)) >= 1
      <4>1. LenBytes \in Nat /\ Len(m.topic) \in Nat /\ Len(m.body) \in Nat
        BY SizesAssumption, SendableIs
      <4>2. Len(Encode(m)) = 1 + 2 * LenBytes + Len(m.topic) + Len(m.body)
        BY EncodeIs DEF Size
      <4>3. Len(Encode(m)) \in Nat /\ Len(Encode(m)) >= 1
        <5>1. \A l, t, b \in Nat : 1 + 2 * l + t + b \in Nat /\ 1 + 2 * l + t + b >= 1
          OBVIOUS
        <5>. QED  BY <4>1, <4>2, <5>1, Zenon
      <4>4. Len(stream) \in Nat
        BY <1>0
      <4>. QED  BY <4>3, <4>4, Zenon
    <3>. QED  BY <3>1, <3>2 DEF Joined
  <2>. QED  BY <1>1, <2>1 DEF Send, RecvInv
<1>2. CASE Close
  BY <1>2 DEF Close, RecvInv
<1>3. CASE StartRead
  <2>1. 0 \in Nat /\ Len(buf') = 0 * BufSize
    BY <1>0, <1>3 DEF StartRead
  <2>2. \E q \in Nat : Len(buf') = q * BufSize
    BY <2>1
  <2>. QED  BY <1>3, <2>2 DEF StartRead, RecvInv
<1>4. CASE Recv
  <2>1. PICK k \in Portions :
          /\ buf' = buf \o SubSeq(stream, 1, k)
          /\ k = BufSize \/ pc' = "parse"
    BY <1>4 DEF Recv, Portions
  <2>2. CASE pc' = "parse"
    BY <2>2 DEF RecvInv
  <2>3. CASE k = BufSize
    <3>1. PICK q \in Nat : Len(buf) = q * BufSize
      BY <1>4 DEF Recv, RecvInv
    <3>2. k \in 0..Len(stream)
      BY <1>0, PortionIs
    <3>3. SubSeq(stream, 1, k) \in Seq(Byte) /\ Len(SubSeq(stream, 1, k)) = BufSize
      BY <1>0, <2>3, <3>2, PartsOfSeq
    <3>4. Joined(buf', buf, SubSeq(stream, 1, k), Byte)
      BY <1>0, <2>1, <3>3, JoinIs
    <3>5. Len(buf') = Len(buf) + BufSize /\ buf' \in Seq(Byte)
      BY <3>3, <3>4 DEF Joined
    <3>6. q + 1 \in Nat /\ (q + 1) * BufSize = q * BufSize + BufSize
      BY <1>0
    <3>7. Len(buf') = (q + 1) * BufSize
      BY <3>1, <3>5, <3>6
    <3>8. buf' # <<>>
      <4>1. Len(buf) \in Nat
        BY <1>0
      <4>. QED  BY <1>0, <3>5, <4>1
    <3>. QED  BY <3>6, <3>7, <3>8 DEF RecvInv
  <2>. QED  BY <2>1, <2>2, <2>3
<1>5. CASE HangUp \/ RecvEnd \/ RecvFails
  BY <1>5 DEF HangUp, RecvEnd, RecvFails, RecvInv
<1>6. CASE ParseNext \/ ParseLast \/ ParseNothing \/ ParseUnset
  BY <1>6 DEF ParseNext, ParseLast, ParseNothing, ParseUnset, Finish, RecvInv
<1>7. CASE UNCHANGED vars
  BY <1>7 DEF vars, RecvInv
<1>. QED  BY <1>1, <1>2, <1>3, <1>4, <1>5, <1>6, <1>7 DEF Next

\* The main loop blocks in recv on a client that has not closed its connection only if
\* that client has sent a whole number of buffers, and at least one.
THEOREM OnlyFullBuffersBlock == Spec => []StuckOnFullBuffers
<1>1. Init => TypeOK /\ RecvInv
  BY MessagesInit DEF Init, RecvInv
<1>2. TypeOK /\ RecvInv /\ [Next]_vars => (TypeOK /\ RecvInv)'
  BY MessagesTypeStep, RecvStep
<1>3. ASSUME RecvInv PROVE StuckOnFullBuffers
  <2>1. \A q \in Nat : (q * BufSize) % BufSize = 0
    <3>1. BufSize \in Nat \ {0}
      BY SizesAssumption
    <3>2. ASSUME NEW q \in Nat, NEW b \in Nat \ {0} PROVE (q * b) % b = 0
      OBVIOUS
    <3>. QED  BY <3>1, <3>2
  <2>. QED  BY <1>3, <2>1 DEF RecvInv, StuckOnFullBuffers
<1>. QED  BY <1>1, <1>2, <1>3, PTL DEF Spec

-------------------------------------------------------------------------------
(* The bytes under way *)

LEMMA TotalIs ==
  ASSUME NEW ms \in Seq(Sendable)
  PROVE  Total(ms) \in Nat
<1>1. Len(ms) \in 0..Len(ms) /\ BytesOf(ms) \in [0..Len(ms) -> Nat]
  BY BytesOfIs
<1>. QED  BY <1>1 DEF Total

LEMMA WireStep ==
  ASSUME TypeOK, WireInv, [Next]_vars
  PROVE  WireInv'
<1>. DEFINE from == Total(sent) - Len(stream)
            back == Total(sent) - Len(stream) - Len(buf)
<1>0. /\ sent \in Seq(Sendable) /\ stream \in Seq(Byte) /\ buf \in Seq(Byte)
      /\ Len(stream) \in Nat /\ Len(buf) \in Nat /\ Total(sent) \in Nat
  BY TotalIs DEF TypeOK
<1>1. from \in Nat /\ Carries(sent, stream, from) /\ from + Len(stream) = Total(sent)
  BY <1>0 DEF WireInv
<1>2. ASSUME pc \in {"recv", "parse"}
      PROVE  back \in Nat /\ Carries(sent, buf, back) /\ back + Len(buf) = from
  BY <1>0, <1>2 DEF WireInv
<1>3. ASSUME NEW m \in Sendable, Send(m) PROVE WireInv'
  <2>1. sent' = Append(sent, m) /\ stream' = stream \o Encode(m) /\ buf' = buf /\ pc' = pc
    BY <1>3 DEF Send
  <2>2. Total(sent') = Total(sent) + Size(m) /\ Size(m) \in Nat
    BY <1>0, <2>1, BytesOfAppend, SendableIs
  <2>3. Len(stream') = Len(stream) + Size(m)
    <3>1. Joined(stream', stream, Encode(m), Byte)
      BY <1>0, <2>1, EncodeIs, JoinIs
    <3>. QED  BY <3>1, EncodeIs DEF Joined
  <2>4. Carries(sent', stream', from)
    <3>. HIDE DEF from
    <3>. QED  BY <1>0, <1>1, <2>1, CarriesSend
  <2>5. Total(sent') - Len(stream') = from
    BY <1>0, <2>2, <2>3
  <2>6. Len(stream') <= Total(sent')
    BY <1>0, <1>1, <2>2, <2>3
  <2>7. ASSUME pc \in {"recv", "parse"}
        PROVE  /\ Carries(sent', buf', back)
               /\ Total(sent') - Len(stream') - Len(buf') = back
               /\ Len(buf') + Len(stream') <= Total(sent')
    <3>1. back \in Nat /\ Carries(sent, buf, back) /\ back + Len(buf) <= Total(sent)
      BY <1>0, <1>1, <1>2, <2>7
    <3>2. Carries(sent', buf', back)
      <4>. HIDE DEF back
      <4>. QED  BY <1>0, <2>1, <3>1, CarriesKeep
    <3>3. Total(sent') - Len(stream') - Len(buf') = back
      BY <2>1, <2>5
    <3>4. Len(buf') + Len(stream') <= Total(sent')
      BY <1>0, <1>2, <2>1, <2>2, <2>3, <2>7
    <3>. QED  BY <3>2, <3>3, <3>4
  <2>. QED  BY <2>1, <2>4, <2>5, <2>6, <2>7 DEF WireInv
<1>4. CASE StartRead
  <2>1. UNCHANGED <<sent, stream>> /\ buf' = <<>>
    BY <1>4 DEF StartRead
  <2>2. \A n : Carries(sent, <<>>, n)
    BY DEF Carries
  <2>3. Len(buf') = 0 /\ Len(buf') + Len(stream) <= Total(sent)
    BY <1>0, <1>1, <2>1
  <2>. QED  BY <1>1, <2>1, <2>2, <2>3 DEF WireInv
<1>5. CASE Recv
  <2>1. PICK k \in Portions :
          /\ buf' = buf \o SubSeq(stream, 1, k)
          /\ stream' = SubSeq(stream, k + 1, Len(stream))
    BY <1>5 DEF Recv, Portions
  <2>2. sent' = sent /\ pc = "recv"
    BY <1>5 DEF Recv
  <2>3. k \in 0..Len(stream) /\ k \in Nat
    BY <1>0, PortionIs
  <2>. DEFINE u == SubSeq(stream, 1, k)
  <2>4. u \in Seq(Byte) /\ Len(u) = k /\ Len(stream') = Len(stream) - k
    BY <1>0, <2>1, <2>3, PartsOfSeq
  <2>5. Carries(sent, u, from) /\ Carries(sent, stream', from + k)
    <3>. HIDE DEF from
    <3>. QED  BY <1>0, <1>1, <2>1, <2>3, CarriesParts
  <2>6. back \in Nat /\ Carries(sent, buf, back) /\ back + Len(buf) = from
    BY <1>2, <2>2
  <2>. HIDE DEF u
  <2>7. Carries(sent, buf \o u, back)
    <3>. HIDE DEF from, back
    <3>. QED  BY <1>0, <2>4, <2>5, <2>6, CarriesJoin
  <2>8. buf' = buf \o u /\ Len(buf') = Len(buf) + k
    <3>1. buf' = buf \o u
      BY <2>1 DEF u
    <3>2. Joined(buf \o u, buf, u, Byte)
      BY <1>0, <2>4, JoinIs
    <3>. QED  BY <2>4, <3>1, <3>2 DEF Joined
  <2>9. /\ Total(sent) - Len(stream') = from + k
        /\ Total(sent) - Len(stream') - Len(buf') = back
        /\ Len(stream') <= Total(sent)
        /\ Len(buf') + Len(stream') <= Total(sent)
    <3>. DEFINE t == Total(sent)
                l == Len(stream)
                b == Len(buf)
    <3>1. /\ t \in Nat /\ l \in Nat /\ b \in Nat /\ t - l \in Nat /\ t - l - b \in Nat
          /\ Len(stream') = l - k /\ Len(buf') = b + k
      BY <1>0, <1>1, <2>4, <2>6, <2>8
    <3>. HIDE DEF t, l, b
    <3>2. /\ t - (l - k) = t - l + k
          /\ t - (l - k) - (b + k) = t - l - b
          /\ l - k <= t
          /\ (b + k) + (l - k) <= t
      BY <2>3, <3>1
    <3>. QED  BY <3>1, <3>2, Zenon DEF t, l, b
  <2>. QED  BY <2>2, <2>5, <2>7, <2>8, <2>9 DEF WireInv
<1>6. CASE HangUp
  BY <1>6 DEF HangUp, WireInv
<1>7. CASE Close \/ RecvEnd \/ RecvFails
  BY <1>7 DEF Close, RecvEnd, RecvFails, WireInv
<1>8. CASE ParseNext \/ ParseLast \/ ParseNothing \/ ParseUnset
  BY <1>8 DEF ParseNext, ParseLast, ParseNothing, ParseUnset, Finish, WireInv
<1>9. CASE UNCHANGED vars
  BY <1>9 DEF vars, WireInv
<1>. QED  BY <1>3, <1>4, <1>5, <1>6, <1>7, <1>8, <1>9 DEF Next

-------------------------------------------------------------------------------
(* The framing *)

LEMMA AppendToPrefix ==
  ASSUME NEW S, NEW s \in Seq(S), NEW j \in 1..Len(s)
  PROVE  Append(SubSeq(s, 1, j - 1), s[j]) = SubSeq(s, 1, j)
OBVIOUS

LEMMA PrefixOfAppend ==
  ASSUME NEW S, NEW s \in Seq(S), NEW x \in S, NEW j \in 0..Len(s)
  PROVE  SubSeq(Append(s, x), 1, j) = SubSeq(s, 1, j)
OBVIOUS

\* What was handed over does not change when more is sent; what is left grows by it.
LEMMA LeftAfterSend ==
  ASSUME NEW all \in Seq(Sendable), NEW m \in Sendable, NEW ms, NEW n \in Nat
  PROVE  /\ LeftAfter(all, ms, n) => LeftAfter(Append(all, m), ms, n + Size(m))
         /\ EndsAt(all, n) => EndsAt(Append(all, m), n + Size(m))
<1>. DEFINE more == Append(all, m)
<1>1. Len(more) = Len(all) + 1 /\ Len(all) \in Nat /\ Size(m) \in Nat
  BY SendableIs
<1>2. Total(more) = Total(all) + Size(m) /\ \A j \in 0..Len(all) : BytesOf(more)[j] = BytesOf(all)[j]
  BY BytesOfAppend
<1>3. \A j \in 0..Len(all) : SubSeq(more, 1, j) = SubSeq(all, 1, j)
  BY PrefixOfAppend
<1>4. Total(all) \in Nat /\ \A j \in 0..Len(all) : BytesOf(all)[j] \in Nat
  BY BytesOfIs, TotalIs
<1>. HIDE DEF more
<1>5. ASSUME NEW j \in 0..Len(all), n = Total(all) - BytesOf(all)[j]
      PROVE  j \in 0..Len(more) /\ n + Size(m) = Total(more) - BytesOf(more)[j]
  BY <1>1, <1>2, <1>4, <1>5
<1>6. LeftAfter(all, ms, n) => LeftAfter(more, ms, n + Size(m))
  BY <1>3, <1>5 DEF LeftAfter
<1>7. EndsAt(all, n) => EndsAt(more, n + Size(m))
  BY <1>5 DEF EndsAt
<1>. QED  BY <1>6, <1>7 DEF more

\* As long as every read ends with a message, what is left of a read begins with the
\* message after those already read.
LEMMA NextIsWhole ==
  ASSUME TypeOK, WireInv, FrameInv, pc = "parse", whole, rest # <<>>
  PROVE  \E j \in 1..Len(sent) :
           /\ got \o msgs = SubSeq(sent, 1, j - 1)
           /\ Begins(rest, Encode(sent[j]))
           /\ Len(rest) + Len(stream) - Size(sent[j]) = Total(sent) - BytesOf(sent)[j]
<1>. DEFINE B == BytesOf(sent)
            back == Total(sent) - Len(stream) - Len(buf)
<1>0. /\ sent \in Seq(Sendable) /\ stream \in Seq(Byte) /\ buf \in Seq(Byte)
      /\ Len(stream) \in Nat /\ Len(buf) \in Nat /\ Total(sent) \in Nat /\ Len(sent) \in Nat
      /\ start \in 0..Len(buf)
  BY TotalIs DEF TypeOK
<1>1. B \in [0..Len(sent) -> Nat] /\ \A j \in 1..Len(sent) : B[j] = B[j - 1] + Size(sent[j])
  BY <1>0, BytesOfIs
<1>2. rest \in Seq(Byte) /\ Len(rest) = Len(buf) - start /\ Len(rest) \in Nat /\ Len(rest) # 0
  BY <1>0, RestIs
<1>3. PICK i \in 0..Len(sent) :
        got \o msgs = SubSeq(sent, 1, i) /\ Len(rest) + Len(stream) = Total(sent) - B[i]
  BY DEF FrameInv, LeftAfter
<1>4. PICK e \in 0..Len(sent) : Len(stream) = Total(sent) - B[e]
  BY DEF FrameInv, EndsAt
<1>. DEFINE t == Total(sent)
            l == Len(stream)
            b == Len(buf)
            n == Len(rest)
<1>5. B[i] \in Nat /\ B[e] \in Nat /\ B[i] + Len(rest) = B[e]
  <2>1. B[i] \in Nat /\ B[e] \in Nat
    BY <1>1
  <2>2. t \in Nat /\ l \in Nat /\ n \in Nat /\ n + l = t - B[i] /\ l = t - B[e]
    BY <1>0, <1>2, <1>3, <1>4
  <2>. HIDE DEF t, l, n, B
  <2>3. B[i] + n = B[e]
    BY <2>1, <2>2
  <2>. QED  BY <2>1, <2>3 DEF n
<1>6. ~(e <= i)
  <2>1. e <= i => B[e] <= B[i]
    BY <1>0, BytesOfGrow
  <2>. QED  BY <1>2, <1>5, <2>1
<1>. DEFINE j == i + 1
<1>7. j \in 1..Len(sent) /\ j \in 0..Len(sent) /\ j - 1 = i /\ j <= e
  BY <1>0, <1>6
<1>8. B[j] <= B[e]
  BY <1>0, <1>7, BytesOfGrow
<1>9. /\ back \in Nat /\ Carries(sent, buf, back)
      /\ back + start = B[i]
  <2>1. Carries(sent, buf, back) /\ b + l <= t
    BY DEF WireInv
  <2>2. /\ t \in Nat /\ l \in Nat /\ b \in Nat /\ n \in Nat /\ start \in Nat
        /\ n + l = t - B[i] /\ n = b - start
    BY <1>0, <1>2, <1>3
  <2>. HIDE DEF t, l, b, n, B
  <2>3. t - l - b \in Nat /\ (t - l - b) + start = B[i]
    BY <1>5, <2>1, <2>2
  <2>. QED  BY <2>1, <2>3 DEF t, l, b
<1>10. Carries(sent, rest, B[i])
  <2>1. Carries(sent, SubSeq(buf, start + 1, Len(buf)), back + start)
    <3>. HIDE DEF back
    <3>. QED  BY <1>0, <1>9, CarriesParts
  <2>. QED  BY <1>9, <2>1 DEF rest
<1>. HIDE DEF back, B, j
<1>11. Begins(rest, Encode(sent[j]))
  <2>1. B[i] = BytesOf(sent)[j - 1] /\ BytesOf(sent)[j] <= B[i] + Len(rest)
    BY <1>5, <1>7, <1>8 DEF B
  <2>. QED  BY <1>0, <1>2, <1>5, <1>7, <1>10, <2>1, CarriesMessage
<1>12. Len(rest) + Len(stream) - Size(sent[j]) = Total(sent) - B[j]
  <2>1. B[j] = B[i] + Size(sent[j])
    BY <1>1, <1>7
  <2>2. Size(sent[j]) \in Nat
    <3>1. sent[j] \in Sendable
      BY <1>0, <1>7
    <3>. QED  BY <3>1, SendableIs
  <2>3. t \in Nat /\ l \in Nat /\ n \in Nat /\ n + l = t - B[i]
    BY <1>0, <1>2, <1>3
  <2>. DEFINE s == Size(sent[j])
              p == B[i]
              q == B[j]
  <2>4. p \in Nat /\ q = p + s /\ s \in Nat /\ n + l = t - p
    BY <1>5, <2>1, <2>2, <2>3
  <2>. HIDE DEF t, l, n, s, p, q
  <2>5. n + l - s = t - q
    BY <2>3, <2>4
  <2>. QED  BY <2>5 DEF t, l, n, s, q
<1>. QED  BY <1>3, <1>7, <1>11, <1>12 DEF B

LEMMA FrameStep ==
  ASSUME TypeOK, WireInv, FrameInv, [Next]_vars
  PROVE  FrameInv'
<1>0. /\ sent \in Seq(Sendable) /\ stream \in Seq(Byte) /\ buf \in Seq(Byte)
      /\ msgs \in Seq(Message) /\ got \in Seq(Message)
      /\ Len(stream) \in Nat /\ Len(buf) \in Nat /\ Total(sent) \in Nat /\ Len(sent) \in Nat
      /\ start \in 0..Len(buf) /\ start \in Nat /\ whole \in BOOLEAN
  BY TotalIs DEF TypeOK
<1>1. rest \in Seq(Byte) /\ Len(rest) = Len(buf) - start /\ Len(rest) \in Nat /\ (rest = <<>> <=> Len(rest) = 0)
  BY <1>0, RestIs
<1>2. ASSUME NEW m \in Sendable, Send(m) PROVE FrameInv'
  <2>1. sent' = Append(sent, m) /\ UNCHANGED <<closed, pc, buf, start, msgs, got, whole>>
    BY <1>2 DEF Send
  <2>2. Len(stream') = Len(stream) + Size(m) /\ Size(m) \in Nat
    <3>1. Joined(stream', stream, Encode(m), Byte)
      BY <1>0, <1>2, EncodeIs, JoinIs DEF Send
    <3>. QED  BY <3>1, EncodeIs, SendableIs DEF Joined
  <2>3. /\ Len(buf) + Len(stream') = (Len(buf) + Len(stream)) + Size(m)
        /\ Len(rest) + Len(stream') = (Len(rest) + Len(stream)) + Size(m)
        /\ Len(buf) + Len(stream) \in Nat /\ Len(rest) + Len(stream) \in Nat
    <3>. DEFINE b == Len(buf)
                r == Len(rest)
                l == Len(stream)
                n == Size(m)
    <3>1. b \in Nat /\ r \in Nat /\ l \in Nat /\ n \in Nat /\ Len(stream') = l + n
      BY <1>0, <1>1, <2>2
    <3>. HIDE DEF b, r, l, n
    <3>2. /\ b + (l + n) = (b + l) + n /\ r + (l + n) = (r + l) + n
          /\ b + l \in Nat /\ r + l \in Nat
      BY <3>1
    <3>. QED  BY <3>1, <3>2, Zenon DEF b, r, l, n
  <2>4. ASSUME NEW ms, NEW n \in Nat, LeftAfter(sent, ms, n)
        PROVE  LeftAfter(sent', ms, n + Size(m))
    BY <1>0, <2>1, <2>4, LeftAfterSend
  <2>5. ASSUME EndsAt(sent, Len(stream)) PROVE EndsAt(sent', Len(stream'))
    <3>1. EndsAt(sent', Len(stream) + Size(m))
      BY <1>0, <2>1, <2>5, LeftAfterSend
    <3>. QED  BY <2>2, <3>1
  <2>6. rest' = rest
    BY <2>1 DEF rest
  <2>7. ASSUME whole, pc = "idle" PROVE LeftAfter(sent', got, Len(stream'))
    <3>1. LeftAfter(sent, got, Len(stream))
      BY <2>7 DEF FrameInv
    <3>. QED  BY <1>0, <2>2, <2>4, <3>1
  <2>8. ASSUME whole, pc = "recv" PROVE LeftAfter(sent', got, Len(buf) + Len(stream'))
    <3>1. LeftAfter(sent, got, Len(buf) + Len(stream))
      BY <2>8 DEF FrameInv
    <3>2. LeftAfter(sent', got, (Len(buf) + Len(stream)) + Size(m))
      BY <2>3, <2>4, <3>1
    <3>. QED  BY <2>3, <3>2
  <2>9. ASSUME whole, pc = "parse"
        PROVE  LeftAfter(sent', got \o msgs, Len(rest) + Len(stream')) /\ EndsAt(sent', Len(stream'))
    <3>1. LeftAfter(sent, got \o msgs, Len(rest) + Len(stream)) /\ EndsAt(sent, Len(stream))
      BY <2>9 DEF FrameInv
    <3>2. LeftAfter(sent', got \o msgs, (Len(rest) + Len(stream)) + Size(m))
      BY <2>3, <2>4, <3>1
    <3>. QED  BY <2>3, <2>5, <3>1, <3>2
  <2>. QED  BY <2>1, <2>6, <2>7, <2>8, <2>9 DEF FrameInv
<1>3. CASE Close
  BY <1>3 DEF Close, FrameInv, rest
<1>4. CASE StartRead
  <2>1. /\ pc = "idle" /\ pc' = "recv" /\ buf' = <<>> /\ start' = 0 /\ msgs' = <<>>
        /\ UNCHANGED <<sent, closed, stream, got, whole>>
    BY <1>4 DEF StartRead
  <2>2. Len(buf') + Len(stream) = Len(stream)
    BY <1>0, <2>1
  <2>3. ASSUME whole PROVE LeftAfter(sent, got, Len(stream))
    BY <2>1, <2>3 DEF FrameInv
  <2>. QED  BY <2>1, <2>2, <2>3 DEF FrameInv
<1>5. CASE HangUp
  BY <1>5 DEF HangUp, FrameInv
<1>6. CASE Recv
  <2>1. PICK k \in Portions :
          /\ buf' = buf \o SubSeq(stream, 1, k)
          /\ stream' = SubSeq(stream, k + 1, Len(stream))
          /\ \/ k = BufSize /\ UNCHANGED <<pc, whole>>
             \/ k < BufSize /\ pc' = "parse" /\ whole' = (whole /\ AtBoundary(stream'))
    BY <1>6 DEF Recv, Portions
  <2>2. /\ pc = "recv" /\ UNCHANGED <<sent, closed, start, msgs, got>>
        /\ start = 0 /\ msgs = <<>>
    BY <1>6 DEF Recv, FrameInv
  <2>3. k \in 1..Len(stream) /\ k \in 0..Len(stream) /\ k \in Nat \ {0}
    BY <1>0, PortionIs
  <2>4. /\ buf' \in Seq(Byte) /\ Len(buf') = Len(buf) + k
        /\ stream' \in Seq(Byte) /\ Len(stream') = Len(stream) - k
    <3>1. /\ SubSeq(stream, 1, k) \in Seq(Byte) /\ Len(SubSeq(stream, 1, k)) = k
          /\ stream' \in Seq(Byte) /\ Len(stream') = Len(stream) - k
      BY <1>0, <2>1, <2>3, PartsOfSeq
    <3>2. Joined(buf', buf, SubSeq(stream, 1, k), Byte)
      BY <1>0, <2>1, <3>1, JoinIs
    <3>. QED  BY <3>1, <3>2 DEF Joined
  <2>5. Len(buf') + Len(stream') = Len(buf) + Len(stream)
    <3>. DEFINE b == Len(buf)
                l == Len(stream)
    <3>1. b \in Nat /\ l \in Nat /\ Len(buf') = b + k /\ Len(stream') = l - k
      BY <1>0, <2>4
    <3>. HIDE DEF b, l
    <3>2. (b + k) + (l - k) = b + l
      BY <2>3, <3>1
    <3>. QED  BY <3>1, <3>2, Zenon DEF b, l
  <2>6. buf' # <<>>
    <3>1. Len(buf') # 0
      BY <1>0, <2>3, <2>4
    <3>. QED  BY <3>1
  <2>7. whole => LeftAfter(sent, got, Len(buf) + Len(stream))
    BY <2>2 DEF FrameInv
  <2>8. CASE UNCHANGED <<pc, whole>>
    BY <2>2, <2>5, <2>7, <2>8 DEF FrameInv
  <2>9. CASE pc' = "parse" /\ whole' = (whole /\ AtBoundary(stream'))
    <3>1. rest' = buf'
      <4>1. rest' = SubSeq(buf', 0 + 1, Len(buf'))
        BY <2>2 DEF rest
      <4>2. SubSeq(buf', 1, Len(buf')) = buf'
        BY <2>4, SubSeqFull
      <4>. QED  BY <4>1, <4>2
    <3>2. got' \o msgs' = got
      BY <1>0, <2>2
    <3>3. ASSUME AtBoundary(stream') PROVE EndsAt(sent, Len(stream'))
      BY <3>3 DEF AtBoundary, EndsAt, BytesAfter, Total
    <3>. QED  BY <2>2, <2>5, <2>6, <2>7, <2>9, <3>1, <3>2, <3>3 DEF FrameInv
  <2>. QED  BY <2>1, <2>8, <2>9
<1>7. CASE RecvEnd
  <2>1. /\ pc = "recv" /\ pc' = "parse" /\ stream = <<>> /\ closed
        /\ UNCHANGED <<sent, closed, stream, buf, start, msgs, got, whole>>
        /\ start = 0 /\ msgs = <<>>
    BY <1>7 DEF RecvEnd, FrameInv
  <2>2. rest' = rest /\ Len(rest) = Len(buf)
    BY <1>0, <1>1, <2>1 DEF rest
  <2>3. got \o msgs = got
    BY <1>0, <2>1
  <2>4. EndsAt(sent, Len(stream))
    <3>1. Len(sent) \in 0..Len(sent) /\ Len(stream) = 0
      BY <1>0, <2>1
    <3>2. 0 = Total(sent) - BytesOf(sent)[Len(sent)]
      BY <1>0 DEF Total
    <3>. QED  BY <3>1, <3>2 DEF EndsAt
  <2>5. whole => LeftAfter(sent, got, Len(buf) + Len(stream))
    BY <2>1 DEF FrameInv
  <2>. QED  BY <2>1, <2>2, <2>3, <2>4, <2>5 DEF FrameInv
<1>8. CASE RecvFails
  BY <1>8 DEF RecvFails, FrameInv
<1>9. ASSUME pc = "parse", whole, rest # <<>>
      PROVE  /\ Reads /\ ~ReadsNothing /\ ~FreesUnset
             /\ MessageEnd \in Nat /\ MessageEnd <= Len(rest)
             /\ LeftAfter(sent, got \o Append(msgs, ReadMessage), Len(rest) - MessageEnd + Len(stream))
             /\ Append(msgs, ReadMessage) # <<>>
  <2>1. PICK j \in 1..Len(sent) :
          /\ got \o msgs = SubSeq(sent, 1, j - 1)
          /\ Begins(rest, Encode(sent[j]))
          /\ Len(rest) + Len(stream) - Size(sent[j]) = Total(sent) - BytesOf(sent)[j]
    BY <1>9, NextIsWhole
  <2>2. sent[j] \in Sendable /\ j \in 0..Len(sent)
    BY <1>0
  <2>3. ~ReadsNothing /\ ~FreesUnset /\ MessageEnd = Size(sent[j]) /\ ReadMessage = sent[j]
    BY <1>0, <2>1, <2>2, MessageIsReadBack
  <2>4. Size(sent[j]) \in Nat /\ Size(sent[j]) <= Len(rest)
    BY <2>1, <2>2, SendableIs, EncodeIs DEF Begins
  <2>5. got \o Append(msgs, sent[j]) = SubSeq(sent, 1, j)
    <3>1. sent[j] \in Message
      BY <2>2, SendableIs
    <3>2. got \o Append(msgs, sent[j]) = Append(got \o msgs, sent[j])
      BY <1>0, <3>1
    <3>3. Append(SubSeq(sent, 1, j - 1), sent[j]) = SubSeq(sent, 1, j)
      BY <1>0, AppendToPrefix
    <3>. QED  BY <2>1, <3>2, <3>3
  <2>6. Len(rest) - Size(sent[j]) + Len(stream) = Total(sent) - BytesOf(sent)[j]
    <3>. DEFINE r == Len(rest)
                l == Len(stream)
                n == Size(sent[j])
    <3>1. r \in Nat /\ l \in Nat /\ n \in Nat /\ r + l - n = Total(sent) - BytesOf(sent)[j]
      BY <1>0, <1>1, <2>1, <2>4
    <3>. HIDE DEF r, l, n
    <3>2. r - n + l = r + l - n
      BY <3>1
    <3>. QED  BY <3>1, <3>2, Zenon DEF r, l, n
  <2>7. LeftAfter(sent, got \o Append(msgs, ReadMessage), Len(rest) - MessageEnd + Len(stream))
    BY <2>2, <2>3, <2>5, <2>6 DEF LeftAfter
  <2>8. Append(msgs, ReadMessage) # <<>>
    <3>1. ReadMessage \in Message
      BY <2>2, <2>3, SendableIs
    <3>2. msgs \in Seq(Message)
      BY <1>0
    <3>. QED  BY <3>1, <3>2, AppendProperties, ZenonT(30)
  <2>. QED  BY <2>3, <2>4, <2>7, <2>8 DEF Reads
<1>10. CASE ParseNext
  <2>1. /\ pc = "parse" /\ pc' = "parse" /\ rest # <<>>
        /\ msgs' = Append(msgs, ReadMessage) /\ start' = start + MessageEnd
        /\ UNCHANGED <<sent, closed, stream, buf, got, whole>>
    BY <1>10 DEF ParseNext
  <2>2. ASSUME whole
        PROVE  LeftAfter(sent', got' \o msgs', Len(rest') + Len(stream'))
    <3>1. /\ MessageEnd \in Nat /\ MessageEnd <= Len(rest)
          /\ LeftAfter(sent, got \o Append(msgs, ReadMessage), Len(rest) - MessageEnd + Len(stream))
      BY <1>9, <2>1, <2>2
    <3>2. start' \in 0..Len(buf) /\ Len(buf) - start' = Len(rest) - MessageEnd
      BY <1>0, <1>1, <2>1, <3>1
    <3>3. Len(rest') = Len(buf) - start'
      <4>1. rest' = SubSeq(buf, start' + 1, Len(buf))
        BY <2>1 DEF rest
      <4>. QED  BY <1>0, <3>2, <4>1, PartsOfSeq
    <3>. QED  BY <2>1, <3>1, <3>2, <3>3
  <2>3. whole => EndsAt(sent, Len(stream))
    BY <2>1 DEF FrameInv
  <2>4. buf = <<>> => closed
    BY <2>1 DEF FrameInv
  <2>. QED  BY <2>1, <2>2, <2>3, <2>4 DEF FrameInv
<1>11. CASE ParseLast
  <2>1. /\ pc = "parse" /\ rest # <<>> /\ MessageEnd >= Len(rest)
        /\ msgs' = Append(msgs, ReadMessage)
        /\ \/ Finish(msgs')
           \/ MessageEnd > Len(rest) /\ pc' = "badRead" /\ UNCHANGED got
        /\ UNCHANGED <<sent, closed, stream, buf, start, whole>>
    BY <1>11 DEF ParseLast
  <2>2. pc' \notin {"recv", "parse"}
    BY <2>1 DEF Finish
  <2>3. CASE ~whole
    BY <2>1, <2>2, <2>3 DEF FrameInv
  <2>4. CASE whole
    <3>1. /\ MessageEnd \in Nat /\ MessageEnd <= Len(rest)
          /\ LeftAfter(sent, got \o msgs', Len(rest) - MessageEnd + Len(stream))
          /\ msgs' # <<>>
      BY <1>9, <2>1, <2>4
    <3>2. ~(MessageEnd > Len(rest)) /\ Len(rest) - MessageEnd = 0
      BY <1>1, <2>1, <3>1
    <3>3. LeftAfter(sent, got \o msgs', Len(stream))
      <4>1. Len(rest) - MessageEnd + Len(stream) = Len(stream)
        BY <1>0, <3>2
      <4>. QED  BY <3>1, <4>1
    <3>4. pc' = "badFree" \/ (pc' = "idle" /\ got' = got \o msgs')
      BY <2>1, <3>1, <3>2 DEF Finish
    <3>. QED  BY <2>1, <3>3, <3>4 DEF FrameInv
  <2>. QED  BY <1>0, <2>3, <2>4
<1>12. CASE ParseNothing
  <2>1. /\ pc = "parse" /\ (rest = <<>> \/ ReadsNothing) /\ Finish(msgs)
        /\ UNCHANGED <<sent, closed, stream, buf, start, msgs, whole>>
    BY <1>12 DEF ParseNothing
  <2>2. pc' \in {"badFree", "disconnect", "idle"}
    BY <2>1 DEF Finish
  <2>3. CASE ~whole
    BY <2>1, <2>2, <2>3 DEF FrameInv
  <2>4. CASE whole
    <3>1. rest = <<>> /\ Len(rest) = 0
      BY <1>1, <1>9, <2>1, <2>4
    <3>2. LeftAfter(sent, got \o msgs, Len(stream))
      <4>1. LeftAfter(sent, got \o msgs, Len(rest) + Len(stream))
        BY <2>1, <2>4 DEF FrameInv
      <4>2. Len(rest) + Len(stream) = Len(stream)
        BY <1>0, <3>1
      <4>. QED  BY <4>1, <4>2
    <3>3. CASE start # 0
      <4>1. pc' = "badFree"
        BY <2>1, <3>3 DEF Finish
      <4>. QED  BY <4>1 DEF FrameInv
    <3>4. CASE start = 0
      <4>1. Len(buf) = 0
        BY <1>0, <1>1, <3>1, <3>4
      <4>2. buf = <<>> /\ closed
        <5>1. buf = <<>>
          BY <1>0, <4>1
        <5>. QED  BY <2>1, <5>1 DEF FrameInv
      <4>3. pc' = "disconnect" \/ (pc' = "idle" /\ got' = got \o msgs)
        BY <2>1, <3>4 DEF Finish
      <4>. QED  BY <2>1, <3>2, <4>2, <4>3 DEF FrameInv
    <3>. QED  BY <3>3, <3>4
  <2>. QED  BY <1>0, <2>3, <2>4
<1>13. CASE ParseUnset
  <2>1. /\ pc = "parse" /\ rest # <<>> /\ FreesUnset
        /\ Finish(msgs) \/ pc' = "badRead"
        /\ UNCHANGED <<sent, closed, stream, buf, start, msgs, whole>>
    BY <1>13 DEF ParseUnset
  <2>2. ~whole
    BY <1>9, <2>1
  <2>3. pc' \notin {"recv", "parse"}
    BY <2>1 DEF Finish
  <2>. QED  BY <2>1, <2>2, <2>3 DEF FrameInv
<1>14. CASE UNCHANGED vars
  BY <1>14 DEF vars, FrameInv, rest
<1>. QED  BY <1>2, <1>3, <1>4, <1>5, <1>6, <1>7, <1>8, <1>10, <1>11, <1>12, <1>13, <1>14 DEF Next

LEMMA FrameInit ==
  ASSUME Init
  PROVE  WireInv /\ FrameInv
<1>1. /\ sent = <<>> /\ stream = <<>> /\ got = <<>> /\ pc = "idle"
  BY DEF Init
<1>2. <<>> \in Seq(Sendable) /\ Len(<<>>) = 0
  OBVIOUS
<1>3. Total(sent) = 0 /\ BytesOf(sent)[0] = 0
  BY <1>1, <1>2, BytesOfIs DEF Total
<1>4. WireInv
  BY <1>1, <1>2, <1>3 DEF WireInv, Carries
<1>5. LeftAfter(sent, got, Len(stream))
  <2>1. 0 \in 0..Len(sent) /\ got = SubSeq(sent, 1, 0)
    BY <1>1, <1>2
  <2>2. Len(stream) = Total(sent) - BytesOf(sent)[0]
    BY <1>1, <1>2, <1>3
  <2>. QED  BY <2>1, <2>2 DEF LeftAfter
<1>6. FrameInv
  BY <1>1, <1>5 DEF FrameInv
<1>. QED  BY <1>4, <1>6

LEMMA FrameCorrect == Spec => [](WireInv /\ FrameInv)
<1>1. Init => TypeOK /\ WireInv /\ FrameInv
  BY MessagesInit, FrameInit
<1>2. TypeOK /\ WireInv /\ FrameInv /\ [Next]_vars => (TypeOK /\ WireInv /\ FrameInv)'
  BY MessagesTypeStep, WireStep, FrameStep
<1>. QED  BY <1>1, <1>2, PTL DEF Spec

\* As long as every read ends where a message ends, however recv cuts the bytes, the
\* messages handed over are the first ones sent, unaltered and in order, and the bytes
\* under way are those of the others.
THEOREM FramingIsExact == Spec => []WholeReadsAreExact
<1>1. ASSUME FrameInv PROVE WholeReadsAreExact
  BY <1>1 DEF FrameInv, LeftAfter, WholeReadsAreExact, BytesAfter, Total
<1>. QED  BY <1>1, FrameCorrect, PTL

\* As long as every read ends where a message ends, the reader reads no memory it has
\* not received, and gives up a client only after that client has closed the connection.
THEOREM DisconnectsTheClosed == Spec => []OnlyClosingDisconnects
<1>1. ASSUME FrameInv PROVE OnlyClosingDisconnects
  BY <1>1 DEF FrameInv, OnlyClosingDisconnects
<1>. QED  BY <1>1, FrameCorrect, PTL
===============================================================================
