------------------------- MODULE CommandPathProofs -------------------------
(***************************************************************************)
(* CommandPath for any calls, buffers and behaviour of the DUTs.           *)
(***************************************************************************)
EXTENDS CommandPath, FiniteSetTheorems, SequenceTheorems, WellFoundedInduction, TLAPS

-----------------------------------------------------------------------------
(* Induction and recursion *)

\* A set with 0 and every successor of its members holds all numbers.
LEMMA Induction ==
  ASSUME NEW T, 0 \in T, \A n \in T \cap Nat : n + 1 \in T
  PROVE  Nat \subseteq T
<1> SUFFICES ASSUME Nat \ T # {} PROVE FALSE
  OBVIOUS
<1> DEFINE R == OpToRel(<, Nat)
<1>1. IsWellFoundedOn(R, Nat)
  BY NatLessThanWellFounded
<1>2. \A x, y \in Nat : y < x => <<y, x>> \in R
  BY DEF OpToRel
<1> HIDE DEF R
<1>3. \E x \in Nat \ T : \A y \in Nat \ T : ~(<<y, x>> \in R)
  BY <1>1, WFMin
<1>4. PICK x \in Nat \ T : \A y \in Nat \ T : ~(<<y, x>> \in R)
  BY <1>3
<1>5. x # 0 /\ x - 1 \in Nat /\ x - 1 < x /\ (x - 1) + 1 = x
  OBVIOUS
<1>6. x - 1 \in T
  BY <1>2, <1>4, <1>5
<1> QED BY <1>5, <1>6

\* The values of a loop over 1..n that starts with b, after each of its steps.
Values(g, n, b, step) == g = [i \in 0..n |-> IF i = 0 THEN b ELSE step[<<g[i - 1], i>>]]

\* Such a loop has a value after each step: what a recursive function needs to exist.
LEMMA Recursion ==
  ASSUME NEW n \in Nat, NEW S, NEW b \in S, NEW step \in [S \X (1..n) -> S]
  PROVE  \E g \in [0..n -> S] : Values(g, n, b, step)
<1> DEFINE Loop(k, g) == g = [i \in 0..k |-> IF i = 0 THEN b ELSE step[<<g[i - 1], i>>]]
           T == {k \in Nat : k <= n => \E g \in [0..k -> S] : Loop(k, g)}
<1>1. 0 \in T
  <2> DEFINE g == [i \in 0..0 |-> b]
  <2>1. g \in [0..0 -> S] /\ Loop(0, g)
    OBVIOUS
  <2> QED BY <2>1
<1>2. ASSUME NEW k \in T \cap Nat PROVE k + 1 \in T
  <2> SUFFICES ASSUME k + 1 <= n PROVE \E h \in [0..(k + 1) -> S] : Loop(k + 1, h)
    OBVIOUS
  <2>1. PICK g \in [0..k -> S] : Loop(k, g)
    OBVIOUS
  <2> DEFINE h == [i \in 0..(k + 1) |-> IF i = k + 1 THEN step[<<g[k], k + 1>>] ELSE g[i]]
  <2>2. h \in [0..(k + 1) -> S]
    OBVIOUS
  <2>3. ASSUME NEW i \in 0..(k + 1)
        PROVE  h[i] = IF i = 0 THEN b ELSE step[<<h[i - 1], i>>]
    <3>1. CASE i = k + 1
      <4>1. h[i] = step[<<g[k], i>>] /\ h[k] = g[k] /\ i - 1 = k /\ i # 0
        BY <3>1
      <4> QED BY <4>1, Zenon
    <3>2. CASE i # k + 1
      <4>1. i \in 0..k /\ (i # 0 => i - 1 \in 0..k /\ i - 1 # k + 1)
        BY <3>2
      <4>2. g[i] = IF i = 0 THEN b ELSE step[<<g[i - 1], i>>]
        BY <2>1, <4>1
      <4>3. h[i] = g[i] /\ (i # 0 => h[i - 1] = g[i - 1])
        BY <3>2, <4>1
      <4> QED BY <4>2, <4>3, Zenon
    <3> QED BY <3>1, <3>2
  <2>4. Loop(k + 1, h)
    BY <2>3
  <2> QED BY <2>2, <2>4
<1>3. n \in T
  <2> HIDE DEF T
  <2> QED BY <1>1, <1>2, Induction
<1> QED BY <1>3 DEF Values

\* A nonempty set of numbers up to n has a largest one.
LEMMA Largest ==
  ASSUME NEW n \in Nat, NEW S \in SUBSET (1..n), S # {}
  PROVE  Max(S) \in S /\ \A i \in S : i <= Max(S)
<1> DEFINE T == {k \in Nat : S \cap (1..k) # {} =>
                               \E x \in S \cap (1..k) : \A y \in S \cap (1..k) : x >= y}
<1>1. 0 \in T
  OBVIOUS
<1>2. ASSUME NEW k \in T \cap Nat PROVE k + 1 \in T
  <2>1. CASE k + 1 \in S
    BY <2>1
  <2>2. CASE k + 1 \notin S
    <3>1. S \cap (1..(k + 1)) = S \cap (1..k)
      BY <2>2
    <3> QED BY <3>1
  <2> QED BY <2>1, <2>2
<1>3. n \in T
  <2> HIDE DEF T
  <2> QED BY <1>1, <1>2, Induction
<1>4. S \cap (1..n) = S
  OBVIOUS
<1>5. \E x \in S : \A y \in S : x >= y
  BY <1>3, <1>4
<1>6. Max(S) \in S /\ \A y \in S : Max(S) >= y
  BY <1>5 DEF Max
<1> QED BY <1>6

-----------------------------------------------------------------------------
(* Lines and what is left of them *)

\* A line as the proofs know it: fields of the right kind.
IsLine(fields) ==
  /\ fields \in Seq(Range(fields))
  /\ \A i \in DOMAIN fields : IsField(fields[i])

\* What a sequence is.
LEMMA Sequence ==
  ASSUME NEW s
  PROVE  s \in Seq(Range(s)) <=>
           \E n \in Nat : DOMAIN s = 1..n /\ Len(s) = n /\ s = [i \in 1..n |-> s[i]]
<1>1. ASSUME s \in Seq(Range(s))
      PROVE  \E n \in Nat : DOMAIN s = 1..n /\ Len(s) = n /\ s = [i \in 1..n |-> s[i]]
  <2>1. Len(s) \in Nat /\ s \in [1..Len(s) -> Range(s)]
    BY <1>1, LenProperties
  <2> QED BY <2>1
<1>2. ASSUME NEW n \in Nat, DOMAIN s = 1..n, s = [i \in 1..n |-> s[i]]
      PROVE  s \in Seq(Range(s))
  <2>1. s \in [1..n -> Range(s)]
    BY <1>2 DEF Range
  <2> QED BY <2>1, SeqDef
<1> QED BY <1>1, <1>2

LEMMA DigitsType ==
  ASSUME NEW n \in Int
  PROVE  Digits(n) \in 1..11
<1> DEFINE S == {k \in 1..9 : 10 ^ k <= IF n < 0 THEN -n ELSE n}
<1>1. IsFiniteSet(1..9) /\ Cardinality(1..9) = 9
  <2>1. ASSUME NEW k \in Nat PROVE IsFiniteSet(1..k) /\ Cardinality(1..k) = k
    <3>1. 1 \in Int /\ k \in Int /\ (IF 1 > k THEN 0 ELSE k - 1 + 1) = k
      OBVIOUS
    <3> QED BY <3>1, FS_Interval, Zenon
  <2>2. 9 \in Nat
    OBVIOUS
  <2> QED BY <2>1, <2>2, Zenon
<1>2. S \subseteq 1..9
  OBVIOUS
<1> HIDE DEF S
<1>3. IsFiniteSet(S) /\ Cardinality(S) <= 9
  BY <1>1, <1>2, FS_Subset, ZenonT(60)
<1>4. Cardinality(S) \in Nat
  BY <1>3, FS_CardinalityType
<1>5. Digits(n) = (IF n < 0 THEN 2 ELSE 1) + Cardinality(S)
  BY Zenon DEF Digits, S
<1> QED BY <1>3, <1>4, <1>5

LEMMA ValueSizeType ==
  ASSUME NEW f, IsField(f)
  PROVE  ValueSize(f) \in Nat /\ Len(f.key) \in Nat
<1>1. CASE f.key \in Numbers
  BY <1>1, DigitsType DEF IsField, ValueSize
<1>2. CASE f.key \notin Numbers
  <2>1. IsText(f.val) => Len(f.val) \in Nat
    BY Sequence DEF IsText
  <2> QED BY <1>2, <2>1 DEF IsField, ValueSize
<1> QED BY <1>1, <1>2 DEF IsField

\* Where fields end: the recursive function Ends has the values of its definition.
LEMMA EndsAre ==
  ASSUME NEW fields, IsLine(fields)
  PROVE  /\ Ends(fields)[0] = 3
         /\ \A i \in 1..Len(fields) :
              Ends(fields)[i] = Ends(fields)[i - 1] + 2 + Len(fields[i].key) + ValueSize(fields[i])
         /\ \A i \in 0..Len(fields) : Ends(fields)[i] \in Nat
<1> DEFINE n == Len(fields)
           step == [p \in Nat \X (1..n) |->
                      p[1] + 2 + Len(fields[p[2]].key) + ValueSize(fields[p[2]])]
           Loop(g) == g = [i \in 0..n |-> IF i = 0 THEN 3
                             ELSE g[i - 1] + 2 + Len(fields[i].key) + ValueSize(fields[i])]
<1>1. n \in Nat /\ DOMAIN fields = 1..n
  BY Sequence DEF IsLine
<1>2. \A i \in 1..n : ValueSize(fields[i]) \in Nat /\ Len(fields[i].key) \in Nat
  BY <1>1, ValueSizeType DEF IsLine
<1>3. step \in [Nat \X (1..n) -> Nat]
  BY <1>2
<1>4. PICK g \in [0..n -> Nat] : Values(g, n, 3, step)
  <2>1. 3 \in Nat
    OBVIOUS
  <2> HIDE DEF step, n
  <2> QED BY <1>1, <1>3, <2>1, Recursion
<1>5. Loop(g)
  <2>1. ASSUME NEW i \in 1..n
        PROVE  step[<<g[i - 1], i>>] = g[i - 1] + 2 + Len(fields[i].key) + ValueSize(fields[i])
    <3>1. i - 1 \in 0..n
      BY <1>1
    <3>2. <<g[i - 1], i>> \in Nat \X (1..n)
      BY <3>1
    <3> QED BY <3>2
  <2>2. \A i \in 0..n : i = 0 \/ i \in 1..n
    BY <1>1
  <2> HIDE DEF step, n
  <2> QED BY <1>4, <2>1, <2>2 DEF Values
<1>6. Ends(fields) = CHOOSE h : Loop(h)
  BY DEF Ends
<1>7. Loop(Ends(fields))
  <2> HIDE DEF Loop
  <2> QED BY <1>5, <1>6
<1> HIDE DEF step
<1>8. DOMAIN Ends(fields) = 0..n /\ Ends(fields)[0] = 3
  BY <1>1, <1>7
<1>9. ASSUME NEW i \in 1..n
      PROVE  Ends(fields)[i] = Ends(fields)[i - 1] + 2 + Len(fields[i].key) + ValueSize(fields[i])
  BY <1>1, <1>7
<1>10. \A i \in 0..n : Ends(fields)[i] \in Nat
  <2> DEFINE T == {i \in Nat : i <= n => Ends(fields)[i] \in Nat}
  <2>1. 0 \in T
    BY <1>8
  <2>2. ASSUME NEW i \in T \cap Nat PROVE i + 1 \in T
    <3> SUFFICES ASSUME i + 1 <= n PROVE Ends(fields)[i + 1] \in Nat
      OBVIOUS
    <3>1. i + 1 \in 1..n /\ (i + 1) - 1 = i /\ Ends(fields)[i] \in Nat
      BY <1>1
    <3>2. ASSUME NEW j \in 1..n, Ends(fields)[j - 1] \in Nat
          PROVE  Ends(fields)[j] \in Nat
      <4>1. Ends(fields)[j] = Ends(fields)[j - 1] + 2 + Len(fields[j].key) + ValueSize(fields[j])
        BY <1>9
      <4>2. Len(fields[j].key) \in Nat /\ ValueSize(fields[j]) \in Nat
        BY <1>2, Zenon
      <4>3. \A a, b, c \in Nat : a + 2 + b + c \in Nat
        OBVIOUS
      <4> QED BY <4>1, <4>2, <4>3, <3>2, Zenon
    <3> QED BY <3>1, <3>2, Zenon
  <2>3. Nat \subseteq T
    <3> HIDE DEF T
    <3> QED BY <2>1, <2>2, Induction
  <2> QED BY <2>3
<1> QED BY <1>8, <1>9, <1>10

LEMMA EndsGrow ==
  ASSUME NEW fields, IsLine(fields), NEW i \in 0..Len(fields), NEW j \in i..Len(fields)
  PROVE  Ends(fields)[i] <= Ends(fields)[j]
<1> DEFINE n == Len(fields)
           E == Ends(fields)
           T == {k \in Nat : i + k <= n => E[i] <= E[i + k]}
<1>1. n \in Nat /\ DOMAIN fields = 1..n
  BY Sequence DEF IsLine
<1>2. \A k \in 0..n : E[k] \in Nat
  BY EndsAre
<1>3. ASSUME NEW k \in 1..n PROVE E[k - 1] <= E[k]
  <2>1. E[k] = E[k - 1] + 2 + Len(fields[k].key) + ValueSize(fields[k])
    BY EndsAre
  <2>2. Len(fields[k].key) \in Nat /\ ValueSize(fields[k]) \in Nat
    BY <1>1, ValueSizeType DEF IsLine
  <2>3. E[k - 1] \in Nat
    BY <1>1, <1>2
  <2>4. \A a, b, c \in Nat : a <= a + 2 + b + c
    OBVIOUS
  <2> QED BY <2>1, <2>2, <2>3, <2>4, Zenon
<1> HIDE DEF E
<1>4. 0 \in T
  BY <1>2
<1>5. ASSUME NEW k \in T \cap Nat PROVE k + 1 \in T
  <2> SUFFICES ASSUME i + (k + 1) <= n PROVE E[i] <= E[i + (k + 1)]
    OBVIOUS
  <2>1. i + (k + 1) \in 1..n /\ (i + (k + 1)) - 1 = i + k /\ i + k \in 0..n
    BY <1>1
  <2>2. E[i + k] <= E[i + (k + 1)]
    BY <1>3, <2>1
  <2>3. E[i] <= E[i + k] /\ E[i] \in Nat /\ E[i + k] \in Nat /\ E[i + (k + 1)] \in Nat
    BY <1>1, <1>2, <2>1
  <2> QED BY <2>2, <2>3
<1>6. Nat \subseteq T
  <2> HIDE DEF T
  <2> QED BY <1>4, <1>5, Induction
<1>7. j - i \in T /\ i + (j - i) = j
  BY <1>1, <1>6
<1> QED BY <1>1, <1>7 DEF E

\* A line that fits is kept as it is.
LEMMA Whole ==
  ASSUME NEW fields, IsLine(fields), NEW room \in Nat, LineSize(fields) <= room
  PROVE  Shortened(fields, room) = fields
<1> DEFINE n == Len(fields)
<1>1. n \in Nat /\ DOMAIN fields = 1..n /\ fields = [i \in 1..n |-> fields[i]]
  BY Sequence DEF IsLine
<1>2. ASSUME NEW i \in 1..n
      PROVE  /\ RoomFor(fields, i, room) \in Nat /\ ValueSize(fields[i]) \in Nat
             /\ ValueSize(fields[i]) <= RoomFor(fields, i, room)
  <2>1. Ends(fields)[i] = Ends(fields)[i - 1] + 2 + Len(fields[i].key) + ValueSize(fields[i])
    BY EndsAre
  <2>2. Len(fields[i].key) \in Nat /\ ValueSize(fields[i]) \in Nat
    BY <1>1, ValueSizeType DEF IsLine
  <2>3. Ends(fields)[i - 1] \in Nat
    <3>1. i - 1 \in 0..n
      BY <1>1
    <3> QED BY <3>1, EndsAre
  <2>4. Ends(fields)[i] <= Ends(fields)[n] /\ Ends(fields)[n] \in Nat
    <3>1. i \in 0..n /\ n \in i..n /\ n \in 0..n
      BY <1>1
    <3> QED BY <3>1, EndsGrow, EndsAre
  <2>5. \A a, b, c, d \in Nat : a + 2 + b + c <= d /\ d <= room =>
                                 room - a - b - 2 \in Nat /\ c <= room - a - b - 2
    OBVIOUS
  <2>6. Ends(fields)[n] <= room
    BY DEF LineSize
  <2> QED BY <2>1, <2>2, <2>3, <2>4, <2>5, <2>6, Zenon DEF RoomFor
<1>3. ASSUME NEW i \in 1..n
      PROVE  /\ RoomFor(fields, i, room) >= 0
             /\ Field(fields[i].key, Kept(fields[i], RoomFor(fields, i, room))) = fields[i]
  <2>1. \A r \in Nat : r >= 0
    OBVIOUS
  <2>2. Kept(fields[i], RoomFor(fields, i, room)) = fields[i].val
    BY <1>2, Zenon DEF Kept
  <2>3. Field(fields[i].key, fields[i].val) = fields[i]
    BY <1>1 DEF IsLine, IsField
  <2> QED BY <1>2, <2>1, <2>2, <2>3, Zenon
<1>4. {j \in DOMAIN fields : RoomFor(fields, j, room) >= 0} = 1..n
  BY <1>1, <1>3
<1>5. Shortened(fields, room) = [i \in 1..n |-> fields[i]]
  BY <1>3, <1>4 DEF Shortened
<1> QED BY <1>1, <1>5, Zenon

\* The first k fields, in part perhaps.
FirstOf(s, fields, room, k) ==
  /\ DOMAIN s = 1..k /\ Len(s) = k
  /\ \A i \in 1..k : \E r \in 0..room : s[i] = Field(fields[i].key, Kept(fields[i], r))

\* That is what is kept of a line that does not fit.
LEMMA Short ==
  ASSUME NEW fields, IsLine(fields), NEW room \in Nat
  PROVE  \E k \in 0..Len(fields) : FirstOf(Shortened(fields, room), fields, room, k)
<1> DEFINE n == Len(fields)
           s == Shortened(fields, room)
           S == {j \in 1..n : RoomFor(fields, j, room) >= 0}
<1>1. n \in Nat /\ DOMAIN fields = 1..n
  BY Sequence DEF IsLine
<1>2. ASSUME NEW i \in 1..n
      PROVE  /\ RoomFor(fields, i, room) \in Int /\ RoomFor(fields, i, room) <= room
             /\ Ends(fields)[i - 1] + Len(fields[i].key) + 2 <= Ends(fields)[i]
  <2>1. Ends(fields)[i] = Ends(fields)[i - 1] + 2 + Len(fields[i].key) + ValueSize(fields[i])
    BY EndsAre
  <2>2. Len(fields[i].key) \in Nat /\ ValueSize(fields[i]) \in Nat
    BY <1>1, ValueSizeType DEF IsLine
  <2>3. Ends(fields)[i - 1] \in Nat
    <3>1. i - 1 \in 0..n
      BY <1>1
    <3> QED BY <3>1, EndsAre
  <2>4. \A a, b, c \in Nat : /\ room - a - b - 2 \in Int /\ room - a - b - 2 <= room
                            /\ a + b + 2 <= a + 2 + b + c
    OBVIOUS
  <2> QED BY <2>1, <2>2, <2>3, <2>4, Zenon DEF RoomFor
<1>3. ASSUME NEW i \in 1..n, NEW j \in (i + 1)..n
      PROVE  RoomFor(fields, j, room) <= RoomFor(fields, i, room)
  <2>1. j \in 1..n /\ i \in 0..n /\ i - 1 \in 0..n /\ j - 1 \in i..n /\ j - 1 \in 0..n
    BY <1>1
  <2>2. Ends(fields)[i] <= Ends(fields)[j - 1]
    BY <2>1, EndsGrow
  <2>3. Ends(fields)[i - 1] + Len(fields[i].key) + 2 <= Ends(fields)[i]
    BY <1>2
  <2>4. Ends(fields)[i - 1] \in Nat /\ Ends(fields)[i] \in Nat /\ Ends(fields)[j - 1] \in Nat
    BY <2>1, EndsAre
  <2>5. Len(fields[i].key) \in Nat /\ Len(fields[j].key) \in Nat
    BY <1>1, <2>1, ValueSizeType DEF IsLine
  <2>6. \A a, b, c, d, e \in Nat : a + d + 2 <= b /\ b <= c => room - c - e - 2 <= room - a - d - 2
    OBVIOUS
  <2> QED BY <2>2, <2>3, <2>4, <2>5, <2>6, Zenon DEF RoomFor
<1>4. PICK k \in 0..n : S = 1..k
  <2>1. CASE S = {}
    <3>1. 0 \in 0..n /\ S = 1..0
      BY <1>1, <2>1
    <3> QED BY <3>1
  <2>2. CASE S # {}
    <3>1. S \in SUBSET (1..n)
      OBVIOUS
    <3>2. Max(S) \in S /\ \A i \in S : i <= Max(S)
      <4> HIDE DEF S, n
      <4> QED BY <1>1, <2>2, <3>1, Largest
    <3>3. PICK k \in 1..n : k = Max(S)
      BY <3>2
    <3>4. RoomFor(fields, k, room) >= 0 /\ RoomFor(fields, k, room) \in Int
      BY <1>2, <3>2, <3>3
    <3>5. ASSUME NEW i \in 1..k PROVE RoomFor(fields, i, room) >= 0 /\ i \in 1..n
      <4>1. CASE i = k
        BY <4>1, <3>4
      <4>2. CASE i # k
        <5>1. i \in 1..n /\ k \in (i + 1)..n
          BY <1>1, <4>2
        <5>2. RoomFor(fields, k, room) <= RoomFor(fields, i, room)
          BY <5>1, <1>3
        <5>3. RoomFor(fields, i, room) \in Int
          BY <5>1, <1>2
        <5> QED BY <3>4, <5>1, <5>2, <5>3
      <4> QED BY <4>1, <4>2
    <3>6. 1..k \subseteq S
      BY <3>5
    <3>7. S \subseteq 1..k
      BY <1>1, <3>2, <3>3
    <3> QED BY <1>1, <3>6, <3>7
  <2> QED BY <2>1, <2>2
<1>5. s = [i \in 1..k |-> Field(fields[i].key, Kept(fields[i], RoomFor(fields, i, room)))]
  BY <1>1, <1>4, Zenon DEF Shortened
<1>6. ASSUME NEW i \in 1..k PROVE RoomFor(fields, i, room) \in 0..room
  <2>1. i \in S
    BY <1>4
  <2> QED BY <1>2, <2>1
<1>7. DOMAIN s = 1..k /\ Len(s) = k
  BY <1>1, <1>5
<1>8. \A i \in 1..k : \E r \in 0..room : s[i] = Field(fields[i].key, Kept(fields[i], r))
  BY <1>5, <1>6
<1> QED BY <1>7, <1>8 DEF FirstOf

-----------------------------------------------------------------------------
(* Texts *)

Begin(s, t) == Len(s) <= Len(t) /\ \A i \in 1..Len(s) : s[i] = t[i]

\* IsPrefix, in the characters of both.
LEMMA PrefixIs ==
  ASSUME NEW s, NEW t, IsText(s), IsText(t)
  PROVE  IsPrefix(s, t) <=> Begin(s, t)
<1>1. /\ Len(s) \in Nat /\ DOMAIN s = 1..Len(s) /\ s = [i \in 1..Len(s) |-> s[i]]
      /\ Len(t) \in Nat /\ DOMAIN t = 1..Len(t)
  BY Sequence DEF IsText
<1>2. CASE Len(s) <= Len(t)
  <2> DEFINE n == Len(s)
  <2>1. /\ Len(SubSeq(s, 1, n)) = n /\ \A i \in 1..n : SubSeq(s, 1, n)[i] = s[i]
        /\ SubSeq(s, 1, n) = [i \in 1..n |-> s[i]]
    BY <1>1
  <2>2. SubSeq(t, 1, n) = [i \in 1..n |-> t[i]]
    BY <1>1, <1>2
  <2> QED BY <1>2, <2>1, <2>2 DEF IsPrefix, Begin
<1> QED BY <1>2 DEF IsPrefix, Begin

\* What is kept of a text is its beginning.
LEMMA CutIs ==
  ASSUME NEW t, IsText(t), NEW n \in Nat
  PROVE  /\ IsText(Cut(t, n)) /\ Begin(Cut(t, n), t) /\ Len(Cut(t, n)) <= n
         /\ Len(t) <= n => Cut(t, n) = t
         /\ \A i \in 1..Len(t) : i <= n => i <= Len(Cut(t, n))
<1>1. Len(t) \in Nat /\ DOMAIN t = 1..Len(t) /\ t = [i \in 1..Len(t) |-> t[i]]
  BY Sequence DEF IsText
<1>2. CASE Len(t) <= n
  BY <1>1, <1>2 DEF Cut, Begin
<1>3. CASE ~(Len(t) <= n)
  <2>1. SubSeq(t, 1, n) = [i \in 1..n |-> t[i]]
    BY <1>1, <1>3
  <2>2. Cut(t, n) = [i \in 1..n |-> t[i]]
    BY <1>3, <2>1 DEF Cut
  <2>3. DOMAIN Cut(t, n) = 1..n /\ Len(Cut(t, n)) = n
        /\ Cut(t, n) = [i \in 1..n |-> Cut(t, n)[i]]
    BY <2>2
  <2>4. IsText(Cut(t, n))
    BY <2>3, Sequence DEF IsText
  <2> QED BY <1>1, <1>3, <2>2, <2>3, <2>4 DEF Begin
<1> QED BY <1>2, <1>3

-----------------------------------------------------------------------------
(* What a line is parsed to *)

\* The command after each field (ztb_protocol.c:73-114).
LEMMA StagesAre ==
  ASSUME NEW fields, NEW n \in Nat, Len(fields) = n
  PROVE  LET after == Stages(Blank, fields)
         IN  /\ after[0] = Blank
             /\ \A i \in 1..n : after[i] = Read(after[i - 1], fields[i])
             /\ \A i \in 0..n : DOMAIN after[i] = DOMAIN Blank
<1> DEFINE K == DOMAIN Blank
           V == {Blank[key] : key \in K} \cup {Written(fields[i]) : i \in 1..n}
           S == [K -> V]
           step == [p \in S \X (1..n) |-> Read(p[1], fields[p[2]])]
           Loop(g) == g = [i \in 0..n |-> IF i = 0 THEN Blank ELSE Read(g[i - 1], fields[i])]
           after == Stages(Blank, fields)
<1>1. Blank \in S
  <2>1. Blank = [key \in K |-> Blank[key]]
    BY DEF Blank
  <2> HIDE DEF K
  <2> QED BY <2>1
<1>2. ASSUME NEW c \in S, NEW i \in 1..n PROVE Read(c, fields[i]) \in S
  <2> HIDE DEF K
  <2>1. Read(c, fields[i]) = [key \in K |-> IF key = Place(fields[i].key)
                                           THEN Written(fields[i]) ELSE c[key]]
    BY DEF Read
  <2>2. Written(fields[i]) \in V
    OBVIOUS
  <2> HIDE DEF V
  <2> QED BY <2>1, <2>2
<1>3. step \in [S \X (1..n) -> S]
  <2> HIDE DEF S
  <2> QED BY <1>2
<1>4. PICK g \in [0..n -> S] : Values(g, n, Blank, step)
  <2> HIDE DEF step, S
  <2> QED BY <1>1, <1>3, Recursion
<1>5. Loop(g)
  <2>1. ASSUME NEW i \in 1..n
        PROVE  step[<<g[i - 1], i>>] = Read(g[i - 1], fields[i])
    <3> HIDE DEF S
    <3>1. <<g[i - 1], i>> \in S \X (1..n)
      OBVIOUS
    <3> QED BY <3>1
  <2>2. \A i \in 0..n : i = 0 \/ i \in 1..n
    OBVIOUS
  <2> HIDE DEF step
  <2> QED BY <1>4, <2>1, <2>2 DEF Values
<1>6. Stages(Blank, fields) = CHOOSE h : Loop(h)
  BY DEF Stages
<1>7. Loop(after)
  <2> HIDE DEF Loop
  <2> QED BY <1>5, <1>6
<1> HIDE DEF S, step
<1>8. after[0] = Blank /\ \A i \in 1..n : after[i] = Read(after[i - 1], fields[i])
  <2> HIDE DEF after
  <2> QED BY <1>7
<1>9. \A i \in 0..n : DOMAIN after[i] = K
  <2> DEFINE T == {i \in Nat : i <= n => DOMAIN after[i] = K}
  <2> HIDE DEF after, K
  <2>1. 0 \in T
    BY <1>8 DEF K
  <2>2. ASSUME NEW i \in T \cap Nat PROVE i + 1 \in T
    <3> SUFFICES ASSUME i + 1 <= n PROVE DOMAIN after[i + 1] = K
      OBVIOUS
    <3>1. i + 1 \in 1..n /\ (i + 1) - 1 = i
      OBVIOUS
    <3>2. after[i + 1] = Read(after[i], fields[i + 1])
      BY <1>8, <3>1, Zenon
    <3> QED BY <3>2 DEF Read
  <2>3. Nat \subseteq T
    <3> HIDE DEF T
    <3> QED BY <2>1, <2>2, Induction
  <2> QED BY <2>3
<1> QED BY <1>8, <1>9

For(f, key) == Place(f.key) = key
LastFor(fields, n, m, key) ==
  For(fields[m], key) /\ \A j \in (m + 1)..n : ~For(fields[j], key)

\* What a key has in the command: its default, or what was written by the last
\* field for its place.
LEMMA ParsedIs ==
  ASSUME NEW fields, NEW n \in Nat, Len(fields) = n, NEW key \in DOMAIN Blank
  PROVE  \/ ~(\E j \in 1..n : For(fields[j], key)) /\ Parsed(Blank, fields)[key] = Blank[key]
         \/ \E m \in 1..n : LastFor(fields, n, m, key) /\ Parsed(Blank, fields)[key] = Written(fields[m])
<1> DEFINE Is(i) == For(fields[i], key)
           after == Stages(Blank, fields)
           Known(i) == \/ (\A j \in 1..i : ~Is(j)) /\ after[i][key] = Blank[key]
                       \/ \E m \in 1..i : /\ Is(m) /\ \A j \in (m + 1)..i : ~Is(j)
                                         /\ after[i][key] = Written(fields[m])
           T == {i \in Nat : i <= n => Known(i)}
<1>1. /\ after[0] = Blank
      /\ \A i \in 1..n : after[i] = Read(after[i - 1], fields[i])
      /\ \A i \in 0..n : DOMAIN after[i] = DOMAIN Blank
  BY StagesAre
<1>2. 0 \in T
  BY <1>1
<1>3. ASSUME NEW i \in T \cap Nat PROVE i + 1 \in T
  <2> SUFFICES ASSUME i + 1 <= n PROVE Known(i + 1)
    OBVIOUS
  <2>1. i + 1 \in 1..n /\ (i + 1) - 1 = i /\ i \in 0..n
    OBVIOUS
  <2>2. after[i + 1] = Read(after[i], fields[i + 1]) /\ DOMAIN after[i] = DOMAIN Blank
    BY <1>1, <2>1, Zenon
  <2>3. after[i + 1][key] = IF Is(i + 1) THEN Written(fields[i + 1]) ELSE after[i][key]
    BY <2>2 DEF Read, For
  <2>4. Known(i)
    BY <2>1
  <2> HIDE DEF Is, after
  <2>5. CASE Is(i + 1)
    BY <2>3, <2>5
  <2>6. CASE ~Is(i + 1)
    <3>1. after[i + 1][key] = after[i][key]
      BY <2>3, <2>6
    <3>2. CASE \A j \in 1..i : ~Is(j)
      <4>1. \A j \in 1..(i + 1) : ~Is(j)
        BY <2>6, <3>2
      <4>2. after[i][key] = Blank[key]
        BY <2>4, <3>2
      <4> QED BY <3>1, <4>1, <4>2
    <3>3. CASE \E j \in 1..i : Is(j)
      <4>1. PICK m \in 1..i : /\ Is(m) /\ \A j \in (m + 1)..i : ~Is(j)
                              /\ after[i][key] = Written(fields[m])
        BY <2>4, <3>3
      <4>2. m \in 1..(i + 1) /\ \A j \in (m + 1)..(i + 1) : ~Is(j)
        BY <2>6, <4>1
      <4> QED BY <3>1, <4>1, <4>2
    <3> QED BY <3>2, <3>3
  <2> QED BY <2>5, <2>6
<1>4. Nat \subseteq T
  <2> HIDE DEF T
  <2> QED BY <1>2, <1>3, Induction
<1>5. Known(n)
  BY <1>4
<1>6. Parsed(Blank, fields) = after[n]
  BY DEF Parsed
<1> QED BY <1>5, <1>6, Zenon DEF LastFor

\* The value of a key is that of the last field with it.
LEMMA ValueAt ==
  ASSUME NEW fields, NEW n \in Nat, DOMAIN fields = 1..n, NEW keys, NEW default,
         NEW i \in 1..n, fields[i].key \in keys, \A j \in (i + 1)..n : fields[j].key \notin keys
  PROVE  ValueOf(fields, keys, default) = fields[i].val
<1> DEFINE at == {j \in DOMAIN fields : fields[j].key \in keys}
<1>1. i \in at /\ at \in SUBSET (1..n) /\ at # {}
  OBVIOUS
<1>2. Max(at) \in at /\ \A j \in at : j <= Max(at)
  <2> HIDE DEF at
  <2> QED BY <1>1, Largest
<1>3. i <= Max(at) /\ Max(at) \in 1..n /\ Max(at) \notin (i + 1)..n
  BY <1>1, <1>2
<1>4. Max(at) = i
  <2> HIDE DEF at
  <2> QED BY <1>3
<1> QED BY <1>1, <1>4, Zenon DEF ValueOf

LEMMA ValueNone ==
  ASSUME NEW fields, NEW keys, NEW default, \A j \in DOMAIN fields : fields[j].key \notin keys
  PROVE  ValueOf(fields, keys, default) = default
BY Zenon DEF ValueOf

\* The line of a call.
LineOf(n, c) == <<Field("seq", n)>> \o c

\* What the proofs know of it.
Lined(line, n, c) ==
  /\ IsLine(line) /\ Len(line) = Len(c) + 1 /\ DOMAIN line = 1..(Len(c) + 1)
  /\ Len(c) \in Nat /\ DOMAIN c = 1..Len(c) /\ IsCall(c)
  /\ line[1] = Field("seq", n) /\ \A i \in 1..Len(c) : line[i + 1] = c[i]
  /\ \A i \in 2..(Len(c) + 1) : line[i] = c[i - 1]
  /\ \A i, j \in DOMAIN line : line[i].key = line[j].key => i = j

LEMMA LineIs ==
  ASSUME NEW n \in Nat, NEW c \in Calls
  PROVE  Lined(LineOf(n, c), n, c)
<1> DEFINE line == LineOf(n, c)
           m == Len(c)
<1>1. IsCall(c)
  BY PathAssumption
<1>2. c \in Seq(Range(c)) /\ m \in Nat /\ DOMAIN c = 1..m
  BY <1>1, Sequence DEF IsCall
<1>3. line = [i \in 1..(m + 1) |-> IF i = 1 THEN Field("seq", n) ELSE c[i - 1]]
  BY <1>2 DEF LineOf
<1> HIDE DEF line
<1>4. DOMAIN line = 1..(m + 1) /\ Len(line) = m + 1 /\ line = [i \in 1..(m + 1) |-> line[i]]
  BY <1>2, <1>3
<1>5. line[1] = Field("seq", n) /\ \A i \in 1..m : line[i + 1] = c[i]
  BY <1>2, <1>3
<1>6. \A i \in 2..(m + 1) : line[i] = c[i - 1] /\ i - 1 \in 1..m
  BY <1>2, <1>3
<1>7. line \in Seq(Range(line))
  <2>1. m + 1 \in Nat
    BY <1>2
  <2> QED BY <1>4, <2>1, Sequence
<1>8. \A i \in 1..m : IsField(c[i]) /\ c[i].key # "seq"
  BY <1>1, <1>2 DEF IsCall, Range
<1>9. IsField(line[1]) /\ line[1].key = "seq"
  <2>1. Len("seq") = 3
    BY LengthAssumption DEF Lengths
  <2> QED BY <1>5, <2>1 DEF IsField, Field, Numbers, ArgNumbers
<1>10. \A i \in 1..(m + 1) : i = 1 \/ i \in 2..(m + 1)
  BY <1>2
<1>11. \A i \in DOMAIN line : IsField(line[i])
  BY <1>4, <1>6, <1>8, <1>9, <1>10
<1>12. ASSUME NEW i \in DOMAIN line, NEW j \in DOMAIN line, line[i].key = line[j].key
       PROVE  i = j
  <2>1. CASE i = 1 /\ j = 1
    BY <2>1
  <2>2. CASE i = 1 /\ j # 1
    BY <1>4, <1>6, <1>8, <1>9, <1>10, <1>12, <2>2
  <2>3. CASE i # 1 /\ j = 1
    BY <1>4, <1>6, <1>8, <1>9, <1>10, <1>12, <2>3
  <2>4. CASE i # 1 /\ j # 1
    <3>1. i - 1 \in 1..m /\ j - 1 \in 1..m /\ c[i - 1].key = c[j - 1].key
      BY <1>4, <1>6, <1>10, <1>12, <2>4
    <3>2. i - 1 = j - 1
      BY <1>1, <1>2, <3>1 DEF IsCall
    <3> QED BY <1>2, <1>4, <3>2
  <2> QED BY <2>1, <2>2, <2>3, <2>4
<1>13. \A i, j \in DOMAIN line : line[i].key = line[j].key => i = j
  BY <1>12
<1>14. IsLine(line)
  BY <1>7, <1>11 DEF IsLine
<1> QED BY <1>1, <1>2, <1>4, <1>5, <1>6, <1>13, <1>14 DEF line, Lined

\* A call has a key at most once.
LEMMA ArgIs ==
  ASSUME NEW c \in Calls, NEW i \in DOMAIN c, NEW default
  PROVE  ValueOf(c, {c[i].key}, default) = c[i].val
<1>1. IsCall(c) /\ Len(c) \in Nat /\ DOMAIN c = 1..Len(c)
  BY PathAssumption, Sequence DEF IsCall
<1> DEFINE keys == {c[i].key}
<1>2. \A j \in (i + 1)..Len(c) : c[j].key \notin keys
  BY <1>1 DEF IsCall
<1>3. c[i].key \in keys /\ i \in 1..Len(c)
  BY <1>1
<1> HIDE DEF keys
<1>4. ValueOf(c, keys, default) = c[i].val
  BY <1>1, <1>2, <1>3, ValueAt
<1> QED BY <1>4 DEF keys

\* What becomes of a call when its line is cut and parsed.
Taken(n, c) == Parsed(Blank, Shortened(LineOf(n, c), LineRoom))

\* What a cut line leaves in the command of a name or text: the default, or what is
\* written there of a beginning of the keyword's (uart_transport.c:44-47).
LEMMA TakenFrom ==
  ASSUME NEW n \in Nat, NEW c \in Calls, NEW key \in {"cmd", "tx", "expect"}
  PROVE  \/ Taken(n, c)[key] = Blank[key]
         \/ \E i \in DOMAIN c, r \in 0..LineRoom :
              /\ c[i].key = key
              /\ Taken(n, c)[key] = Written(Field(key, Cut(c[i].val, r)))
<1> DEFINE line == LineOf(n, c)
           s == Shortened(line, LineRoom)
<1>1. /\ IsLine(line) /\ Len(line) = Len(c) + 1 /\ DOMAIN c = 1..Len(c) /\ Len(c) \in Nat
      /\ line[1] = Field("seq", n) /\ \A i \in 2..(Len(c) + 1) : line[i] = c[i - 1]
  BY LineIs DEF Lined
<1>2. LineRoom \in Nat
  BY ProtocolAssumption
<1> HIDE DEF line
<1>3. PICK k \in 0..Len(line) : FirstOf(s, line, LineRoom, k)
  BY <1>1, <1>2, Short
<1>4. key \in DOMAIN Blank /\ k \in Nat
  BY <1>1 DEF Blank
<1> HIDE DEF s
<1>5. CASE \E m \in 1..k : Place(s[m].key) = key /\ Parsed(Blank, s)[key] = Written(s[m])
  <2>1. PICK m \in 1..k : Place(s[m].key) = key /\ Parsed(Blank, s)[key] = Written(s[m])
    BY <1>5
  <2>2. PICK r \in 0..LineRoom : s[m] = Field(line[m].key, Kept(line[m], r))
    BY <1>3 DEF FirstOf
  <2>3. s[m].key = key /\ line[m].key = key
    BY <2>1, <2>2 DEF Place, Field
  <2>4. m # 1
    BY <1>1, <2>3 DEF Field
  <2>5. m \in 2..(Len(c) + 1) /\ m - 1 \in DOMAIN c
    BY <1>1, <2>4
  <2>6. PICK i \in DOMAIN c : line[m] = c[i]
    BY <1>1, <2>5
  <2>7. Kept(c[i], r) = Cut(c[i].val, r)
    <3>1. c[i].key \notin Numbers
      BY <2>3, <2>6 DEF Numbers, ArgNumbers, AnswerNumbers
    <3> QED BY <3>1 DEF Kept, ValueSize, Cut
  <2>8. s[m] = Field(key, Cut(c[i].val, r))
    BY <2>2, <2>3, <2>6, <2>7
  <2> QED BY <2>1, <2>3, <2>6, <2>8 DEF Taken, s, line
<1>6. CASE Parsed(Blank, s)[key] = Blank[key]
  BY <1>6 DEF Taken, s, line
<1>7. \/ Parsed(Blank, s)[key] = Blank[key]
      \/ \E m \in 1..k : LastFor(s, k, m, key) /\ Parsed(Blank, s)[key] = Written(s[m])
  BY <1>3, <1>4, ParsedIs DEF FirstOf
<1> QED BY <1>5, <1>6, <1>7 DEF LastFor, For

\* However a line is cut, its command is not taken for another one, and its texts
\* are not taken for others than they begin with.
LEMMA TakenIs ==
  ASSUME NEW n \in Nat, NEW c \in Calls
  PROVE  LET p      == Taken(n, c)
             expect == ValueOf(c, {"expect"}, <<>>)
         IN  /\ p.cmd \in Names \cup {"UNKNOWN"}
             /\ p.cmd # "UNKNOWN" => p.cmd = ValueOf(c, {"cmd"}, <<>>)
             /\ IsText(p.tx) /\ Len(p.tx) \in 0..TextRoom
             /\ IsText(p.expect) /\ Len(p.expect) \in 0..TextRoom
             /\ IsText(expect) /\ Begin(p.expect, expect)
<1> DEFINE p == Taken(n, c)
           expect == ValueOf(c, {"expect"}, <<>>)
<1>1. IsCall(c) /\ TextRoom \in Nat /\ \A i \in DOMAIN c : IsField(c[i]) /\ c[i] \in Range(c)
  BY PathAssumption, ProtocolAssumption DEF IsCall, Range
<1>2. IsText(<<>>) /\ Len(<<>>) = 0
  BY Sequence DEF IsText
<1> HIDE DEF p
<1>3. p.cmd \in Names \cup {"UNKNOWN"} /\ (p.cmd # "UNKNOWN" => p.cmd = ValueOf(c, {"cmd"}, <<>>))
  <2>1. CASE p["cmd"] = Blank["cmd"]
    BY <2>1 DEF Blank
  <2>2. CASE p["cmd"] # Blank["cmd"]
    <3>1. PICK i \in DOMAIN c, r \in 0..LineRoom :
            c[i].key = "cmd" /\ p["cmd"] = Written(Field("cmd", Cut(c[i].val, r)))
      BY <2>2, TakenFrom DEF p
    <3>2. p.cmd = IF Cut(c[i].val, r) \in Names THEN Cut(c[i].val, r) ELSE "UNKNOWN"
      BY <3>1 DEF Written, Field
    <3>3. Cut(c[i].val, r) \in Names => Cut(c[i].val, r) = c[i].val
      BY <1>1, <3>1 DEF IsCall
    <3>4. ValueOf(c, {"cmd"}, <<>>) = c[i].val
      BY <3>1, ArgIs
    <3> QED BY <3>2, <3>3, <3>4
  <2> QED BY <2>1, <2>2
<1>4. ASSUME NEW key \in {"tx", "expect"}
      PROVE  /\ IsText(p[key]) /\ Len(p[key]) \in 0..TextRoom
             /\ IsText(ValueOf(c, {key}, <<>>)) /\ Begin(p[key], ValueOf(c, {key}, <<>>))
  <2>1. IsText(ValueOf(c, {key}, <<>>))
    <3>1. CASE \E i \in DOMAIN c : c[i].key = key
      <4>1. PICK i \in DOMAIN c : c[i].key = key
        BY <3>1
      <4>2. ValueOf(c, {key}, <<>>) = c[i].val
        BY <4>1, ArgIs
      <4>3. IsText(c[i].val)
        BY <1>1, <4>1 DEF IsField, Numbers, ArgNumbers, AnswerNumbers
      <4> QED BY <4>2, <4>3
    <3>2. CASE \A i \in DOMAIN c : c[i].key # key
      <4>1. ValueOf(c, {key}, <<>>) = <<>>
        BY <3>2, ValueNone
      <4> QED BY <4>1, <1>2
    <3> QED BY <3>1, <3>2
  <2>2. CASE p[key] = Blank[key]
    <3>1. p[key] = <<>>
      <4>1. Blank["tx"] = <<>> /\ Blank["expect"] = <<>>
        BY DEF Blank
      <4> QED BY <2>2, <4>1
    <3>2. Len(ValueOf(c, {key}, <<>>)) \in Nat
      BY <2>1, Sequence DEF IsText
    <3> QED BY <1>1, <1>2, <2>1, <3>1, <3>2 DEF Begin
  <2>3. CASE p[key] # Blank[key]
    <3>1. PICK i \in DOMAIN c, r \in 0..LineRoom :
            c[i].key = key /\ p[key] = Written(Field(key, Cut(c[i].val, r)))
      BY <2>3, TakenFrom DEF p
    <3> DEFINE val == c[i].val
               cut == Cut(val, r)
    <3>2. p[key] = Cut(cut, TextRoom)
      BY <3>1 DEF Written, Field, KeptText
    <3>3. ValueOf(c, {key}, <<>>) = val
      BY <3>1, ArgIs
    <3>4. IsText(val) /\ r \in Nat
      BY <2>1, <3>3, ProtocolAssumption
    <3> HIDE DEF val
    <3>5. IsText(cut) /\ Begin(cut, val)
      BY <3>4, CutIs
    <3> HIDE DEF cut
    <3>6. IsText(p[key]) /\ Len(p[key]) <= TextRoom /\ Begin(p[key], cut)
      BY <1>1, <3>2, <3>5, CutIs
    <3>7. Len(p[key]) \in Nat /\ Len(cut) \in Nat /\ Len(val) \in Nat
      BY <3>4, <3>5, <3>6, Sequence DEF IsText
    <3>8. Begin(p[key], val)
      BY <3>5, <3>6, <3>7 DEF Begin
    <3> QED BY <1>1, <2>1, <3>3, <3>6, <3>7, <3>8
  <2> QED BY <2>2, <2>3
<1> QED BY <1>3, <1>4 DEF p

\* The keys of a place.
KeysOf(key) == IF key = "ch" THEN {"ch", "mode"} ELSE {key}

TextsFit(c) ==
  \A i \in DOMAIN c : c[i].key \in {"tx", "expect"} => Len(c[i].val) <= TextRoom

\* A line that fits is parsed to what it says, but for a command nobody knows.
LEMMA TakenWhole ==
  ASSUME NEW n \in Nat, NEW c \in Calls, LineSize(LineOf(n, c)) <= LineRoom, TextsFit(c),
         NEW key \in DOMAIN Blank
  PROVE  LET said == ValueOf(LineOf(n, c), KeysOf(key), Blank[key])
         IN  Taken(n, c)[key] = IF key = "cmd" /\ said \notin Names THEN "UNKNOWN" ELSE said
<1> DEFINE line == LineOf(n, c)
           said == ValueOf(line, KeysOf(key), Blank[key])
           m    == Len(c) + 1
<1>1. /\ IsLine(line) /\ Len(line) = m /\ DOMAIN line = 1..m /\ DOMAIN c = 1..Len(c) /\ Len(c) \in Nat
      /\ line[1] = Field("seq", n) /\ \A i \in 2..m : line[i] = c[i - 1]
      /\ IsCall(c)
  BY LineIs, SMTT(30) DEF Lined
<1>2. LineRoom \in Nat /\ m \in Nat /\ m = Len(c) + 1
  BY <1>1, ProtocolAssumption
<1>3. Taken(n, c) = Parsed(Blank, line)
  BY <1>1, <1>2, Whole, Zenon DEF Taken
<1>4. \A f : For(f, key) <=> f.key \in KeysOf(key)
  <2>1. key # "mode"
    BY DEF Blank
  <2> QED BY <2>1 DEF For, Place, KeysOf
<1> HIDE DEF line, m
<1>5. ASSUME ~(\E j \in 1..m : For(line[j], key)), Parsed(Blank, line)[key] = Blank[key]
      PROVE  Taken(n, c)[key] = IF key = "cmd" /\ said \notin Names THEN "UNKNOWN" ELSE said
  <2>1. said = Blank[key]
    BY <1>1, <1>4, <1>5, ValueNone
  <2>2. Blank["cmd"] = "UNKNOWN"
    BY DEF Blank
  <2> QED BY <1>3, <1>5, <2>1, <2>2
<1>6. ASSUME NEW i \in 1..m, LastFor(line, m, i, key), Parsed(Blank, line)[key] = Written(line[i])
      PROVE  Taken(n, c)[key] = IF key = "cmd" /\ said \notin Names THEN "UNKNOWN" ELSE said
  <2> DEFINE f == line[i]
  <2>1. f.key \in KeysOf(key) /\ \A j \in (i + 1)..m : line[j].key \notin KeysOf(key)
    BY <1>4, <1>6 DEF LastFor
  <2>2. said = f.val
    <3> DEFINE keys == KeysOf(key)
               default == Blank[key]
    <3>1. line[i].key \in keys /\ \A j \in (i + 1)..m : line[j].key \notin keys
      BY <2>1
    <3> HIDE DEF keys, default, f
    <3>2. DOMAIN line = 1..m /\ m \in Nat
      BY <1>1, <1>2
    <3>3. ValueOf(line, keys, default) = line[i].val
      BY <3>1, <3>2, ValueAt
    <3> QED BY <3>3 DEF keys, default, f
  <2>3. Written(f) = IF key = "cmd" /\ f.val \notin Names THEN "UNKNOWN" ELSE f.val
    <3>1. CASE i = 1
      <4>1. f.key = "seq"
        BY <1>1, <3>1 DEF Field
      <4> QED BY <2>1, <4>1 DEF Written, KeysOf
    <3>2. CASE i # 1
      <4>1. i - 1 \in DOMAIN c /\ f = c[i - 1]
        BY <1>1, <1>2, <3>2
      <4>2. f \in Range(c)
        BY <4>1 DEF Range
      <4>3. CASE f.key = "cmd"
        BY <2>1, <4>3 DEF Written, KeysOf
      <4>4. CASE f.key \in {"ch", "mode"}
        <5>1. Len(f.val) <= NameRoom
          BY <1>1, <4>2, <4>4 DEF IsCall
        <5> QED BY <2>1, <4>4, <5>1 DEF Written, KeysOf, Cut
      <4>5. CASE f.key \in {"tx", "expect"}
        <5>1. Len(f.val) <= TextRoom
          BY <4>1, <4>5 DEF TextsFit
        <5> QED BY <2>1, <4>5, <5>1 DEF Written, KeysOf, KeptText, Cut
      <4>6. CASE f.key \notin {"cmd", "ch", "mode", "tx", "expect"}
        BY <2>1, <4>6 DEF Written, KeysOf
      <4> QED BY <4>3, <4>4, <4>5, <4>6
    <3> QED BY <3>1, <3>2
  <2> HIDE DEF f
  <2> QED BY <1>3, <1>6, <2>2, <2>3 DEF f
<1>7. \/ ~(\E j \in 1..m : For(line[j], key)) /\ Parsed(Blank, line)[key] = Blank[key]
      \/ \E i \in 1..m : LastFor(line, m, i, key) /\ Parsed(Blank, line)[key] = Written(line[i])
  BY <1>1, <1>2, ParsedIs
<1>8. Taken(n, c)[key] = IF key = "cmd" /\ said \notin Names THEN "UNKNOWN" ELSE said
  BY <1>5, <1>6, <1>7
<1> QED BY <1>8 DEF line

-----------------------------------------------------------------------------
(* Texts of the DUTs *)

\* A nonempty set of numbers has a smallest one.
LEMMA Smallest ==
  ASSUME NEW S \in SUBSET Nat, S # {}
  PROVE  Min(S) \in S /\ \A i \in S : Min(S) <= i
<1> DEFINE R == OpToRel(<, Nat)
<1>1. IsWellFoundedOn(R, Nat)
  BY NatLessThanWellFounded
<1>2. \A x, y \in Nat : y < x => <<y, x>> \in R
  BY DEF OpToRel
<1> HIDE DEF R
<1>3. \E x \in S : \A y \in S : ~(<<y, x>> \in R)
  BY <1>1, WFMin
<1>4. PICK x \in S : \A y \in S : ~(<<y, x>> \in R)
  BY <1>3
<1>5. ASSUME NEW y \in S PROVE x <= y
  <2>1. x \in Nat /\ y \in Nat /\ ~(y < x)
    BY <1>2, <1>4
  <2> QED BY <2>1
<1>6. \E z \in S : \A y \in S : z <= y
  BY <1>5
<1> QED BY <1>6 DEF Min

LEMMA Empty == IsText(<<>>) /\ Len(<<>>) = 0 /\ DOMAIN <<>> = 1..0
BY Sequence DEF IsText

LEMMA LenIs ==
  ASSUME NEW t, IsText(t)
  PROVE  Len(t) \in Nat /\ DOMAIN t = 1..Len(t) /\ t = [i \in 1..Len(t) |-> t[i]]
BY Sequence DEF IsText

\* A sequence of n characters.
LEMMA MadeIs ==
  ASSUME NEW n \in Nat, NEW t, t = [i \in 1..n |-> t[i]]
  PROVE  IsText(t) /\ Len(t) = n
<1>1. DOMAIN t = 1..n /\ Len(t) = n
  OBVIOUS
<1> QED BY <1>1, Sequence DEF IsText

\* Two texts that begin with each other are the same.
LEMMA BeginBoth ==
  ASSUME NEW s, NEW t, IsText(s), IsText(t), Begin(s, t), Begin(t, s)
  PROVE  s = t
<1>1. /\ Len(s) \in Nat /\ s = [i \in 1..Len(s) |-> s[i]]
      /\ Len(t) \in Nat /\ t = [i \in 1..Len(t) |-> t[i]]
  BY LenIs
<1>2. Len(s) = Len(t)
  <2>1. Len(s) <= Len(t) /\ Len(t) <= Len(s)
    BY Zenon DEF Begin
  <2>2. \A a, b \in Nat : a <= b /\ b <= a => a = b
    OBVIOUS
  <2> QED BY <1>1, <2>1, <2>2, Zenon
<1>3. \A i \in 1..Len(s) : s[i] = t[i]
  BY DEF Begin
<1> QED BY <1>1, <1>2, <1>3

LEMMA BeginOf ==
  ASSUME NEW s, NEW t, NEW u, IsText(s), IsText(t), IsText(u), Begin(s, t), Begin(t, u)
  PROVE  Begin(s, u)
<1>1. Len(s) \in Nat /\ Len(t) \in Nat /\ Len(u) \in Nat
  BY LenIs
<1> QED BY <1>1 DEF Begin

\* A string is a beginning of its bytes, and has all of them up to the first 0.
LEMMA TextIs ==
  ASSUME NEW b, IsText(b)
  PROVE  /\ IsText(Text(b)) /\ Begin(Text(b), b)
         /\ \A s : IsText(s) /\ Nul \notin Range(s) /\ Begin(s, b) => Begin(s, Text(b))
<1> DEFINE nuls == {i \in DOMAIN b : b[i] = Nul}
           n    == Min(nuls) - 1
<1>1. Len(b) \in Nat /\ DOMAIN b = 1..Len(b)
  BY LenIs
<1>2. CASE nuls = {}
  <2>1. Text(b) = b
    BY <1>2 DEF Text
  <2> QED BY <1>1, <2>1 DEF Begin
<1>3. CASE nuls # {}
  <2>1. nuls \in SUBSET Nat
    BY <1>1
  <2>2. Min(nuls) \in nuls
    <3> HIDE DEF nuls
    <3> QED BY <1>3, <2>1, Smallest
  <2>3. PICK m \in 1..Len(b) : Min(nuls) = m /\ b[m] = Nul
    BY <1>1, <2>2
  <2>4. Text(b) = SubSeq(b, 1, m - 1)
    BY <1>3, <2>3 DEF Text
  <2>5. m - 1 \in Nat /\ m - 1 <= Len(b)
    BY <1>1
  <2>6. SubSeq(b, 1, m - 1) = [i \in 1..(m - 1) |-> b[i]]
    BY <1>1, <2>5
  <2>7. IsText(Text(b)) /\ Len(Text(b)) = m - 1 /\ \A i \in 1..(m - 1) : Text(b)[i] = b[i]
    <3>1. Text(b) = [i \in 1..(m - 1) |-> Text(b)[i]]
      BY <2>4, <2>6
    <3> QED BY <2>4, <2>5, <2>6, <3>1, MadeIs
  <2>8. ASSUME NEW s, IsText(s), Nul \notin Range(s), Begin(s, b)
        PROVE  Begin(s, Text(b))
    <3>1. Len(s) \in Nat /\ DOMAIN s = 1..Len(s)
      BY <2>8, LenIs
    <3>2. ~(m \in 1..Len(s))
      BY <2>3, <2>8, <3>1 DEF Begin, Range
    <3>3. Len(s) <= m - 1
      BY <1>1, <3>1, <3>2
    <3> QED BY <2>7, <2>8, <3>1, <3>3, <1>1 DEF Begin
  <2> QED BY <2>5, <2>7, <2>8, <1>1 DEF Begin
<1> QED BY <1>2, <1>3

LEMMA Room == TextRoom \in Nat /\ LineRoom \in Nat /\ AnswerRoom \in Nat
BY ProtocolAssumption

\* KeptText keeps the beginning of a text, and whatever short text it begins with.
LEMMA KeptIs ==
  ASSUME NEW t, IsText(t)
  PROVE  /\ IsText(KeptText(t)) /\ Begin(KeptText(t), t) /\ Len(KeptText(t)) \in 0..TextRoom
         /\ \A s : IsText(s) /\ Len(s) <= TextRoom /\ Begin(s, t) => Begin(s, KeptText(t))
<1>1. /\ IsText(KeptText(t)) /\ Begin(KeptText(t), t) /\ Len(KeptText(t)) <= TextRoom
      /\ \A i \in 1..Len(t) : i <= TextRoom => i <= Len(KeptText(t))
  BY Room, CutIs DEF KeptText
<1>2. Len(t) \in Nat /\ Len(KeptText(t)) \in Nat
  BY <1>1, LenIs
<1>3. ASSUME NEW s, IsText(s), Len(s) <= TextRoom, Begin(s, t)
      PROVE  Begin(s, KeptText(t))
  <2>1. Len(s) \in Nat /\ Len(s) <= Len(t)
    BY <1>3, LenIs DEF Begin
  <2>2. Len(s) <= Len(KeptText(t))
    <3>1. CASE Len(s) = 0
      BY <1>2, <3>1
    <3>2. CASE Len(s) # 0
      <4>1. Len(s) \in 1..Len(t)
        BY <1>2, <2>1, <3>2
      <4> QED BY <1>1, <1>3, <4>1
    <3> QED BY <3>1, <3>2
  <2>3. ASSUME NEW i \in 1..Len(s) PROVE s[i] = KeptText(t)[i]
    <3>1. i \in 1..Len(KeptText(t))
      BY <1>2, <2>1, <2>2
    <3>2. s[i] = t[i] /\ KeptText(t)[i] = t[i]
      BY <1>1, <1>3, <3>1, Zenon DEF Begin
    <3> QED BY <3>2
  <2> QED BY <2>2, <2>3 DEF Begin
<1> QED BY <1>1, <1>2, <1>3, Room

\* What is read of a DUT's line is a text that fits.
LEMMA UartReadIs ==
  ASSUME NEW t, IsText(t)
  PROVE  IsText(UartRead(t)) /\ Len(UartRead(t)) \in 0..TextRoom
<1> DEFINE c == Cut(t, TextRoom)
<1>1. IsText(c) /\ Len(c) <= TextRoom
  BY Room, CutIs
<1> HIDE DEF c
<1>2. IsText(Text(c)) /\ Len(Text(c)) <= Len(c)
  BY <1>1, TextIs DEF Begin
<1>3. Len(c) \in Nat /\ Len(Text(c)) \in Nat
  BY <1>1, <1>2, LenIs
<1>4. UartRead(t) = Text(c)
  BY DEF UartRead, c
<1> QED BY <1>1, <1>2, <1>3, <1>4, Room

-----------------------------------------------------------------------------
(* The inductive invariant *)

Typed ==
  /\ TypeOK
  /\ \A text \in {command.tx, command.expect, response.rx, shown.text} : IsText(text)
  /\ pc # "host" \/ done > 0 => call \in Calls /\ seq \in FirstSeq..(FirstSeq + MaxCalls - 1)

\* The command is that of this call, and nothing is known of it before it is done.
Current ==
  /\ pc \in {"exec", "answer"} => command = Taken(seq, call)
  /\ pc = "exec" => Usable(command)
  /\ pc \in {"line", "exec"} => shown = Nothing

\* A text that was read, of which the response keeps what fits.
FoundText(text, right) ==
  /\ response.has_rx /\ ~response.has_expected_actual /\ ~response.has_val
  /\ shown.ok => response.rx = KeptText(text) /\ (response.status = "OK" <=> right)

\* What the response to a command says of what its service found out.
Found ==
  /\ response.seq = command.seq
  /\ response.status \in {"OK", "FAIL"}
  /\ response.status = "OK" => shown.ok
  /\ response.status = "FAIL" => Len(response.err) \in 0..17
  /\ {response.val, response.expected, response.actual} \subseteq {0, 1}
  /\ CASE command.cmd = "UART_SEND_EXPECT" ->
             FoundText(UartRead(shown.text), UartRead(shown.text) = command.expect)
       [] command.cmd = "SPI_SEND_EXPECT" ->
             FoundText(Text(shown.text), Begins(Text(shown.text), command.expect))
       [] OTHER -> shown.ok => response.status = "OK"
  /\ command.cmd = "GPIO_EXPECT" =>
       /\ response.has_expected_actual
       /\ shown.ok => response.expected = command.val /\ response.actual = command.val
  /\ command.cmd \in {"PWM_WRITE", "PWM_READ_WITH_TOLERANCE"} =>
       response.freq_expected = command.frequency /\ response.duty_expected = command.duty_cycle
  /\ command.cmd = "PWM_READ_WITH_TOLERANCE" =>
       /\ \E m \in Measures : response.freq_measured = m.freq /\ response.duty_measured = m.duty
       /\ response.status = "FAIL" => response.err = "PWM_MISMATCH"
       /\ response.freq_tol_pct = command.freq_tol_pct
       /\ response.duty_tol_pp = command.duty_tol_pp

\* While the transfers are orderly, what is left of DUT2's is what they did not take.
Phase ==
  orderly => \/ left = 0 /\ Sofar = 0
             \/ left = Len(Pong) - Sofar

Refused == shown = Nothing /\ response = FailResponse(-1, "PARSE_ERROR")

Outcome == pc = "answer" => IF Usable(command) THEN Found ELSE Refused

Inv == Typed /\ Current /\ Outcome /\ Phase /\ AnswerInStep /\ VerdictIsTrue

-----------------------------------------------------------------------------
(* The beginning, the host and main() *)

LEMMA LineHere ==
  /\ Line = LineOf(seq, call)
  /\ pc = "line" /\ ReadLine => command' = Taken(seq, call)
<1>1. Line = LineOf(seq, call)
  BY Zenon DEF Line, LineOf
<1> QED BY <1>1, Zenon DEF ReadLine, Received, Cleared, Taken

LEMMA InitInv == Init => Inv
<1> SUFFICES ASSUME Init PROVE Inv
  OBVIOUS
<1>1. Len(Pong) \in Nat
  BY PathAssumption, LenIs
<1>2. command.tx = <<>> /\ command.expect = <<>> /\ response.rx = <<>> /\ shown.text = <<>>
  BY DEF Init, Blank, NoResponse, Nothing
<1>3. TypeOK
  <2>1. {Len(command.tx), Len(command.expect), Len(response.rx)} \subseteq 0..TextRoom
    BY <1>2, Empty, Room
  <2>2. done \in 0..MaxCalls /\ left \in 0..Len(Pong) /\ clocked \in 0..Len(Pong)
    BY <1>1, PathAssumption DEF Init
  <2>3. command.cmd = "UNKNOWN"
    BY DEF Init, Blank
  <2> QED BY <2>1, <2>2, <2>3 DEF Init, TypeOK, Transfer
<1>4. Typed
  BY <1>2, <1>3, Empty DEF Init, Typed
<1>5. Phase
  BY DEF Init, Phase, Sofar
<1> QED BY <1>4, <1>5 DEF Init, Inv, Current, Outcome, AnswerInStep, VerdictIsTrue, Nothing

LEMMA SendInv ==
  ASSUME Inv, NEW c \in Calls, Send(c)
  PROVE  Inv'
<1>1. Typed'
  <2>1. shown.text' = <<>> /\ FirstSeq + done \in FirstSeq..(FirstSeq + MaxCalls - 1)
        /\ done + 1 \in 0..MaxCalls
    BY PathAssumption DEF Inv, Typed, TypeOK, Send, Nothing
  <2> QED BY <2>1, Empty DEF Inv, Typed, TypeOK, Send, dut2
<1>2. Phase'
  BY DEF Inv, Send, dut2, Phase, Sofar
<1> QED BY <1>1, <1>2 DEF Inv, Send, Current, Outcome, AnswerInStep, VerdictIsTrue, Nothing

LEMMA ReadLineInv ==
  ASSUME Inv, ReadLine
  PROVE  Inv'
<1>1. pc = "line" /\ seq \in Nat /\ call \in Calls /\ command' = Taken(seq, call)
  BY LineHere, PathAssumption DEF Inv, Typed, ReadLine
<1>2. /\ command.cmd' \in Names \cup {"UNKNOWN"}
      /\ IsText(command.tx') /\ Len(command.tx') \in 0..TextRoom
      /\ IsText(command.expect') /\ Len(command.expect') \in 0..TextRoom
  BY <1>1, TakenIs
<1>3. response.rx' \in {response.rx, <<>>}
  BY DEF ReadLine, FailResponse, OkResponse, NoResponse
<1>4. IsText(response.rx') /\ Len(response.rx') \in 0..TextRoom
  BY <1>3, Empty, Room DEF Inv, Typed, TypeOK
<1>5. Typed'
  BY <1>1, <1>2, <1>4 DEF Inv, Typed, TypeOK, ReadLine, host, dut2
<1>6. shown' = Nothing /\ host' = host
  BY <1>1 DEF Inv, Current, ReadLine
<1>7. Current'
  BY <1>1, <1>6 DEF ReadLine, Current, host
<1>8. Outcome'
  BY <1>6 DEF ReadLine, Outcome, Refused
<1>9. Phase'
  BY DEF Inv, ReadLine, dut2, Phase, Sofar
<1> QED BY <1>5, <1>6, <1>7, <1>8, <1>9 DEF Inv, ReadLine, AnswerInStep, VerdictIsTrue, Nothing

-----------------------------------------------------------------------------
(* The executor *)

\* The command in progress is of this call: its name, and the beginning of what is expected.
LEMMA CommandHere ==
  ASSUME Inv, pc \in {"exec", "answer"}, Usable(command)
  PROVE  /\ command = Taken(seq, call) /\ seq \in Nat /\ call \in Calls
         /\ command.cmd = Arg("cmd") /\ command.cmd \in Names
         /\ IsText(command.expect) /\ Len(command.expect) \in 0..TextRoom
         /\ IsText(Arg("expect")) /\ Begin(command.expect, Arg("expect"))
<1>1. command = Taken(seq, call)
  BY DEF Inv, Current
<1>2. seq \in Nat /\ call \in Calls
  BY PathAssumption DEF Inv, Typed
<1> QED BY <1>1, <1>2, TakenIs DEF Usable, Arg

\* A response with no more than its result.
Plain(r, n, ok, err) ==
  /\ r.seq = n /\ r.status = (IF ok THEN "OK" ELSE "FAIL") /\ r.err = (IF ok THEN "" ELSE err)
  /\ ~r.has_val /\ r.val = 0
  /\ ~r.has_expected_actual /\ r.expected = 0 /\ r.actual = 0
  /\ ~r.has_rx /\ r.rx = <<>>

LEMMA PassOrFailIs ==
  ASSUME NEW n, NEW ok \in BOOLEAN, NEW err
  PROVE  /\ Plain(PassOrFail(n, ok, err), n, ok, err)
         /\ DOMAIN PassOrFail(n, ok, err) = DOMAIN NoResponse
<1>1. CASE ok
  BY <1>1 DEF Plain, PassOrFail, OkResponse, FailResponse, NoResponse
<1>2. CASE ~ok
  BY <1>2 DEF Plain, PassOrFail, OkResponse, FailResponse, NoResponse
<1> QED BY <1>1, <1>2

LEMMA OkOrFail ==
  ASSUME NEW n, NEW err
  PROVE  OkResponse(n) = PassOrFail(n, TRUE, err) /\ FailResponse(n, err) = PassOrFail(n, FALSE, err)
BY DEF PassOrFail

\* An execution keeps the invariant if its response says what was found out.
LEMMA ExecutedInv ==
  ASSUME Inv, pc = "exec", NEW found, NEW answer, Executed(found, answer),
         IsText(found.text), IsText(answer.rx), Len(answer.rx) \in 0..TextRoom,
         left' \in 0..Len(Pong), orderly' \in BOOLEAN, clocked' \in 0..Len(Pong),
         Found', Phase', command.cmd = "SPI_SEND_EXPECT" => AnswerInStep'
  PROVE  Inv'
<1>1. Usable(command) /\ command.cmd = Arg("cmd")
  <2>1. Usable(command)
    BY DEF Inv, Current
  <2> QED BY <2>1, CommandHere
<1>2. Typed'
  BY DEF Inv, Typed, TypeOK, Executed, host, Transfer
<1>3. Current'
  BY DEF Inv, Current, Executed, host
<1>4. Outcome'
  BY <1>1 DEF Outcome, Executed
<1>5. AnswerInStep'
  <2>1. Arg("cmd")' = Arg("cmd")
    BY DEF Executed, host, Arg
  <2> QED BY <1>1, <2>1 DEF AnswerInStep
<1> QED BY <1>2, <1>3, <1>4, <1>5 DEF Inv, Executed, VerdictIsTrue

\* The same for a command that DUT2 does not answer.
LEMMA StillInv ==
  ASSUME Inv, pc = "exec", NEW found, NEW answer, Executed(found, answer), UNCHANGED dut2,
         IsText(found.text), IsText(answer.rx), Len(answer.rx) \in 0..TextRoom,
         found.ok => command.cmd # "SPI_SEND_EXPECT", Found'
  PROVE  Inv'
<1>1. left' = left /\ orderly' = orderly /\ clocked' = clocked
  BY DEF dut2
<1>2. /\ left' \in 0..Len(Pong) /\ orderly' \in BOOLEAN /\ clocked' \in 0..Len(Pong)
      /\ Phase'
  BY <1>1 DEF Inv, Typed, TypeOK, Transfer, Phase, Sofar
<1>3. command.cmd = "SPI_SEND_EXPECT" => AnswerInStep'
  BY DEF AnswerInStep, Executed
<1> QED BY <1>2, <1>3, ExecutedInv

LEMMA ExecuteWriteInv ==
  ASSUME Inv, ExecuteWrite
  PROVE  Inv'
<1>1. PICK ok \in BOOLEAN : Executed(Ok(ok), PassOrFail(command.seq, ok, "FAILED"))
  BY DEF ExecuteWrite
<1> DEFINE r == PassOrFail(command.seq, ok, "FAILED")
<1>2. Len("FAILED") = 6
  BY LengthAssumption DEF Lengths
<1>3. command' = command /\ shown' = Ok(ok) /\ response' = r
  BY <1>1 DEF Executed
<1>4. Plain(r, command.seq, ok, "FAILED")
  BY PassOrFailIs
<1>5. Ok(ok).ok = ok /\ Ok(ok).text = <<>>
  BY DEF Ok
<1>6. command.cmd \in {"GPIO_WRITE", "DAC_WRITE", "UART_WRITE", "SPI_WRITE"}
  BY DEF ExecuteWrite
<1> HIDE DEF r
<1>7. Found'
  <2>1. CASE ok
    BY <1>2, <1>3, <1>4, <1>5, <1>6, <2>1 DEF Found, Plain
  <2>2. CASE ~ok
    BY <1>2, <1>3, <1>4, <1>5, <1>6, <2>2 DEF Found, Plain
  <2> QED BY <2>1, <2>2
<1>8. r.rx = <<>>
  BY <1>4 DEF Plain
<1>9. pc = "exec" /\ UNCHANGED dut2
  BY DEF ExecuteWrite
<1> QED BY <1>1, <1>5, <1>6, <1>7, <1>8, <1>9, Empty, Room, StillInv DEF r

LEMMA ExecuteGpioReadInv ==
  ASSUME Inv, ExecuteGpioRead
  PROVE  Inv'
<1>1. pc = "exec" /\ command.cmd = "GPIO_READ" /\ UNCHANGED dut2
  BY DEF ExecuteGpioRead
<1>2. Len("GPIO_READ_FAILED") = 16
  BY LengthAssumption DEF Lengths
<1>3. \A ok \in BOOLEAN : Ok(ok).ok = ok /\ Ok(ok).text = <<>>
  BY DEF Ok
<1>4. ASSUME NEW r, NEW ok \in BOOLEAN, Executed(Ok(ok), r),
             r.seq = command.seq, r.status = (IF ok THEN "OK" ELSE "FAIL"),
             ~ok => r.err = "GPIO_READ_FAILED",
             r.val \in {0, 1}, r.expected = 0, r.actual = 0, r.rx = <<>>
      PROVE  Inv'
  <2>1. command' = command /\ shown' = Ok(ok) /\ response' = r /\ Ok(ok).ok = ok
    BY <1>3, <1>4 DEF Executed
  <2>2. Found'
    <3>1. CASE ok
      BY <1>1, <1>3, <1>4, <2>1, <3>1 DEF Found
    <3>2. CASE ~ok
      <4>1. ~shown.ok' /\ response.status' = "FAIL" /\ Len(response.err') \in 0..17
        BY <1>2, <1>4, <2>1, <3>2
      <4> QED BY <1>1, <1>4, <2>1, <4>1 DEF Found
    <3> QED BY <3>1, <3>2
  <2>3. IsText(Ok(ok).text) /\ IsText(r.rx) /\ Len(r.rx) \in 0..TextRoom
    BY <1>3, <1>4, Empty, Room
  <2> QED BY <1>1, <1>4, <2>2, <2>3, StillInv
<1>5. CASE Executed(Ok(FALSE), FailResponse(command.seq, "GPIO_READ_FAILED"))
  <2>1. Plain(FailResponse(command.seq, "GPIO_READ_FAILED"), command.seq, FALSE, "GPIO_READ_FAILED")
    BY OkOrFail, PassOrFailIs
  <2> QED BY <1>4, <1>5, <2>1 DEF Plain
<1>6. CASE \E val \in {0, 1} : Executed(Ok(TRUE), GpioValue(command.seq, val))
  <2>1. PICK val \in {0, 1} : Executed(Ok(TRUE), GpioValue(command.seq, val))
    BY <1>6
  <2> DEFINE r == GpioValue(command.seq, val)
  <2>2. /\ r.seq = command.seq /\ r.status = "OK" /\ r.val = val
        /\ r.expected = 0 /\ r.actual = 0 /\ r.rx = <<>>
    BY DEF GpioValue, OkResponse, NoResponse
  <2> HIDE DEF r
  <2> QED BY <1>4, <2>1, <2>2 DEF r
<1> QED BY <1>5, <1>6 DEF ExecuteGpioRead

LEMMA ExecuteGpioExpectInv ==
  ASSUME Inv, ExecuteGpioExpect
  PROVE  Inv'
<1>1. pc = "exec" /\ command.cmd = "GPIO_EXPECT" /\ UNCHANGED dut2
  BY DEF ExecuteGpioExpect
<1>2. Len("GPIO_MISMATCH") = 13
  BY LengthAssumption DEF Lengths
<1>3. PICK known \in BOOLEAN, actual \in {0, 1} :
        LET pass == known /\ actual = command.val
        IN  Executed(Ok(pass), GpioExpected(command.seq, pass, command.val, actual))
  BY DEF ExecuteGpioExpect
<1>4. PICK pass \in BOOLEAN : pass <=> known /\ actual = command.val
  OBVIOUS
<1>5. pass = (known /\ actual = command.val)
  BY <1>4
<1> DEFINE r == GpioExpected(command.seq, pass, command.val, actual)
<1>6. Executed(Ok(pass), r)
  BY <1>3, <1>5, Zenon
<1>7. /\ Ok(pass).ok = pass /\ Ok(pass).text = <<>>
  BY DEF Ok
<1>8. /\ r.seq = command.seq /\ r.status = (IF pass THEN "OK" ELSE "FAIL")
      /\ r.err = (IF pass THEN "" ELSE "GPIO_MISMATCH")
      /\ r.val = 0 /\ r.has_expected_actual
      /\ r.expected = (IF command.val = 0 THEN 0 ELSE 1) /\ r.actual = (IF actual = 0 THEN 0 ELSE 1)
      /\ r.rx = <<>>
  <2> DEFINE p == PassOrFail(command.seq, pass, "GPIO_MISMATCH")
  <2>1. Plain(p, command.seq, pass, "GPIO_MISMATCH") /\ DOMAIN p = DOMAIN NoResponse
    BY PassOrFailIs
  <2> HIDE DEF p
  <2>2. r = [p EXCEPT !.has_expected_actual = TRUE,
                      !.expected = IF command.val = 0 THEN 0 ELSE 1,
                      !.actual = IF actual = 0 THEN 0 ELSE 1]
    BY DEF GpioExpected, p
  <2> HIDE DEF r
  <2> QED BY <2>1, <2>2 DEF Plain, NoResponse
<1>9. pass => actual = command.val
  BY <1>4
<1>10. command' = command /\ shown' = Ok(pass) /\ response' = r
  BY <1>6 DEF Executed
<1> HIDE DEF r
<1>11. Found'
  <2>1. CASE pass
    BY <1>1, <1>7, <1>8, <1>9, <1>10, <2>1 DEF Found
  <2>2. CASE ~pass
    <3>1. ~shown.ok' /\ response.status' = "FAIL" /\ Len(response.err') \in 0..17
      BY <1>2, <1>7, <1>8, <1>10, <2>2
    <3>2. /\ response.seq' = command.seq /\ response.has_expected_actual'
          /\ {response.val', response.expected', response.actual'} \subseteq {0, 1}
      BY <1>8, <1>10
    <3> QED BY <1>1, <1>10, <3>1, <3>2 DEF Found
  <2> QED BY <2>1, <2>2
<1>12. IsText(Ok(pass).text) /\ IsText(r.rx) /\ Len(r.rx) \in 0..TextRoom
  <2>1. Ok(pass).text = <<>> /\ r.rx = <<>>
    BY <1>7, <1>8
  <2> QED BY <2>1, Empty, Room
<1> QED BY <1>1, <1>6, <1>11, <1>12, StillInv

\* A response with a text.
Telling(r, n, ok, err, text) ==
  /\ r.seq = n /\ r.status = (IF ok THEN "OK" ELSE "FAIL") /\ r.err = (IF ok THEN "" ELSE err)
  /\ ~r.has_val /\ r.val = 0
  /\ ~r.has_expected_actual /\ r.expected = 0 /\ r.actual = 0
  /\ r.has_rx /\ r.rx = KeptText(text) /\ IsText(r.rx) /\ Len(r.rx) \in 0..TextRoom

LEMMA WithRxIs ==
  ASSUME NEW n, NEW ok \in BOOLEAN, NEW err, NEW text, IsText(text)
  PROVE  Telling(WithRx(PassOrFail(n, ok, err), text), n, ok, err, text)
<1> DEFINE p == PassOrFail(n, ok, err)
           r == WithRx(p, text)
<1>1. Plain(p, n, ok, err) /\ DOMAIN p = DOMAIN NoResponse
  BY PassOrFailIs
<1>2. IsText(KeptText(text)) /\ Len(KeptText(text)) \in 0..TextRoom
  BY KeptIs
<1> HIDE DEF p
<1>3. r = [p EXCEPT !.has_rx = TRUE, !.rx = KeptText(text)]
  BY DEF WithRx
<1> HIDE DEF r
<1>4. /\ r.seq = p.seq /\ r.status = p.status /\ r.err = p.err
      /\ r.has_val = p.has_val /\ r.val = p.val
      /\ r.has_expected_actual = p.has_expected_actual
      /\ r.expected = p.expected /\ r.actual = p.actual
      /\ r.has_rx = TRUE /\ r.rx = KeptText(text)
  BY <1>1, <1>3 DEF NoResponse
<1> QED BY <1>1, <1>2, <1>4 DEF p, r, Plain, Telling

LEMMA OnStackIs ==
  ASSUME IsText(command.expect), NEW text \in OnStack
  PROVE  IsText(text)
<1>1. IsText([i \in 1..TextRoom |-> Noise])
  BY Room, MadeIs
<1> QED BY <1>1, Empty DEF OnStack

\* What the response to a command with a text tells of it.
Telltale(found, text, ok) ==
  /\ found.ok \in BOOLEAN /\ IsText(found.text) /\ IsText(text)
  /\ ok => found.ok
  /\ \/ command.cmd = "UART_READ" /\ (found.ok => ok)
     \/ /\ command.cmd = "UART_SEND_EXPECT"
        /\ found.ok => text = UartRead(found.text) /\ (ok <=> text = command.expect)
     \/ command.cmd = "SPI_SEND_EXPECT" /\ ~found.ok

\* The executions that answer with a text.
LEMMA ReadInv ==
  ASSUME Inv, pc = "exec", UNCHANGED dut2, NEW found, NEW text, NEW ok \in BOOLEAN,
         NEW err, Len(err) \in 0..17, Telltale(found, text, ok),
         Executed(found, WithRx(PassOrFail(command.seq, ok, err), text))
  PROVE  Inv'
<1> DEFINE r == WithRx(PassOrFail(command.seq, ok, err), text)
<1>1. Telling(r, command.seq, ok, err, text)
  BY WithRxIs DEF Telltale
<1> HIDE DEF r
<1>2. command' = command /\ shown' = found /\ response' = r
  BY DEF Executed, r
<1>3. /\ response.status' \in {"OK", "FAIL"} /\ (response.status' = "OK" <=> ok)
      /\ (response.status' = "FAIL" => Len(response.err') \in 0..17)
  BY <1>1, <1>2 DEF Telling
<1>4. Found'
  <2>1. CASE found.ok
    BY <1>1, <1>2, <1>3, <2>1 DEF Found, FoundText, Telling, Telltale
  <2>2. CASE ~found.ok
    BY <1>1, <1>2, <1>3, <2>2 DEF Found, FoundText, Telling, Telltale
  <2> QED BY <2>1, <2>2
<1> QED BY <1>1, <1>4, StillInv DEF r, Telling, Telltale

LEMMA ExecuteUartReadInv ==
  ASSUME Inv, ExecuteUartRead
  PROVE  Inv'
<1>1. pc = "exec" /\ command.cmd = "UART_READ" /\ UNCHANGED dut2
  BY DEF ExecuteUartRead
<1>2. Len("UART_READ_TIMEOUT") = 17
  BY LengthAssumption DEF Lengths
<1>3. CASE Executed(Ok(FALSE), FailResponse(command.seq, "UART_READ_TIMEOUT"))
  <2> DEFINE r == FailResponse(command.seq, "UART_READ_TIMEOUT")
  <2>1. Plain(r, command.seq, FALSE, "UART_READ_TIMEOUT")
    BY OkOrFail, PassOrFailIs
  <2>2. ~Ok(FALSE).ok /\ Ok(FALSE).text = <<>> /\ r.rx = <<>>
    BY <2>1 DEF Ok, Plain
  <2>3. command' = command /\ shown' = Ok(FALSE) /\ response' = r
    BY <1>3 DEF Executed
  <2> HIDE DEF r
  <2>4. Found'
    <3>1. ~shown.ok' /\ response.status' = "FAIL" /\ Len(response.err') \in 0..17
      <4>1. response'.err = "UART_READ_TIMEOUT" /\ response'.status = "FAIL"
        BY <2>1, <2>3 DEF Plain
      <4>2. ~shown'.ok
        BY <2>2, <2>3, Zenon
      <4> QED BY <1>2, <4>1, <4>2
    <3> QED BY <1>1, <2>1, <2>3, <3>1 DEF Found, Plain
  <2>5. IsText(Ok(FALSE).text) /\ IsText(r.rx) /\ Len(r.rx) \in 0..TextRoom
    <3>1. 0 \in 0..TextRoom
      BY Room
    <3> QED BY <2>2, <3>1, Empty, Zenon
  <2> QED BY <1>1, <1>3, <2>4, <2>5, StillInv DEF r
<1>4. CASE \E line \in Answers :
             Executed([ok |-> TRUE, text |-> line],
                      WithRx(OkResponse(command.seq), UartRead(line)))
  <2>1. PICK line \in Answers :
          Executed([ok |-> TRUE, text |-> line], WithRx(OkResponse(command.seq), UartRead(line)))
    BY <1>4
  <2>2. IsText(line) /\ IsText(UartRead(line))
    BY PathAssumption, UartReadIs
  <2>3. OkResponse(command.seq) = PassOrFail(command.seq, TRUE, "UART_READ_TIMEOUT")
    BY OkOrFail
  <2> DEFINE found == [ok |-> TRUE, text |-> line]
             text  == UartRead(line)
  <2>4. Executed(found, WithRx(PassOrFail(command.seq, TRUE, "UART_READ_TIMEOUT"), text))
    BY <2>1, <2>3
  <2>5. Telltale(found, text, TRUE)
    BY <1>1, <2>2 DEF Telltale
  <2> HIDE DEF found, text
  <2>6. Len("UART_READ_TIMEOUT") \in 0..17
    BY <1>2
  <2> QED BY <1>1, <2>4, <2>5, <2>6, ReadInv
<1> QED BY <1>3, <1>4 DEF ExecuteUartRead

LEMMA ExecuteUartSendExpectInv ==
  ASSUME Inv, ExecuteUartSendExpect
  PROVE  Inv'
<1>1. pc = "exec" /\ command.cmd = "UART_SEND_EXPECT" /\ UNCHANGED dut2 /\ IsText(command.expect)
  BY DEF ExecuteUartSendExpect, Inv, Typed
<1>2. Len("UART_MISMATCH") = 13
  BY LengthAssumption DEF Lengths
<1>3. CASE \E line \in Answers :
             Executed([ok |-> TRUE, text |-> line],
                      WithRx(PassOrFail(command.seq, UartRead(line) = command.expect,
                                        "UART_MISMATCH"),
                             UartRead(line)))
  <2>1. PICK line \in Answers :
          Executed([ok |-> TRUE, text |-> line],
                   WithRx(PassOrFail(command.seq, UartRead(line) = command.expect,
                                     "UART_MISMATCH"),
                          UartRead(line)))
    BY <1>3
  <2>2. IsText(line) /\ IsText(UartRead(line))
    BY PathAssumption, UartReadIs
  <2>3. PICK ok \in BOOLEAN : ok = (UartRead(line) = command.expect)
    OBVIOUS
  <2> DEFINE found == [ok |-> TRUE, text |-> line]
             text  == UartRead(line)
  <2>4. Executed(found, WithRx(PassOrFail(command.seq, ok, "UART_MISMATCH"), text))
    BY <2>1, <2>3, Zenon
  <2>5. Telltale(found, text, ok)
    BY <1>1, <2>2, <2>3 DEF Telltale
  <2> HIDE DEF found, text
  <2>6. Len("UART_MISMATCH") \in 0..17
    BY <1>2
  <2> QED BY <1>1, <2>4, <2>5, <2>6, ReadInv
<1>4. CASE \E text \in OnStack :
             Executed(Nothing, WithRx(FailResponse(command.seq, "UART_MISMATCH"), text))
  <2>1. PICK text \in OnStack :
          Executed(Nothing, WithRx(FailResponse(command.seq, "UART_MISMATCH"), text))
    BY <1>4
  <2>2. IsText(text)
    BY <1>1, OnStackIs
  <2>3. FailResponse(command.seq, "UART_MISMATCH") = PassOrFail(command.seq, FALSE, "UART_MISMATCH")
    BY OkOrFail
  <2>4. Telltale(Nothing, text, FALSE)
    BY <1>1, <2>2, Empty DEF Telltale, Nothing
  <2>5. Executed(Nothing, WithRx(PassOrFail(command.seq, FALSE, "UART_MISMATCH"), text))
    BY <2>1, <2>3
  <2>6. Len("UART_MISMATCH") \in 0..17
    BY <1>2
  <2> QED BY <1>1, <2>4, <2>5, <2>6, ReadInv
<1> QED BY <1>3, <1>4 DEF ExecuteUartSendExpect

LEMMA ExecuteSpiFailsInv ==
  ASSUME Inv, ExecuteSpiFails
  PROVE  Inv'
<1>1. pc = "exec" /\ command.cmd = "SPI_SEND_EXPECT" /\ UNCHANGED dut2 /\ IsText(command.expect)
  BY DEF ExecuteSpiFails, Inv, Typed
<1>2. Len("SPI_MISMATCH") = 12
  BY LengthAssumption DEF Lengths
<1>3. PICK text \in OnStack :
        Executed(Nothing, WithRx(FailResponse(command.seq, "SPI_MISMATCH"), text))
  BY DEF ExecuteSpiFails
<1>4. IsText(text)
  BY <1>1, OnStackIs
<1>5. FailResponse(command.seq, "SPI_MISMATCH") = PassOrFail(command.seq, FALSE, "SPI_MISMATCH")
  BY OkOrFail
<1>6. Telltale(Nothing, text, FALSE)
  BY <1>1, <1>4, Empty DEF Telltale, Nothing
<1>7. Executed(Nothing, WithRx(PassOrFail(command.seq, FALSE, "SPI_MISMATCH"), text))
  BY <1>3, <1>5
<1>8. Len("SPI_MISMATCH") \in 0..17
  BY <1>2
<1> QED BY <1>1, <1>6, <1>7, <1>8, ReadInv

LEMMA ExecutePwmWriteInv ==
  ASSUME Inv, ExecutePwmWrite
  PROVE  Inv'
<1>1. pc = "exec" /\ command.cmd = "PWM_WRITE" /\ UNCHANGED dut2
  BY DEF ExecutePwmWrite
<1>2. Len("PWM_WRITE_FAIL") = 14
  BY LengthAssumption DEF Lengths
<1>3. PICK ok \in BOOLEAN :
        Executed(Ok(ok), PwmWritten(command.seq, ok, command.duty_cycle, command.frequency))
  BY DEF ExecutePwmWrite
<1> DEFINE r == PwmWritten(command.seq, ok, command.duty_cycle, command.frequency)
           p == PassOrFail(command.seq, ok, "PWM_WRITE_FAIL")
<1>4. Plain(p, command.seq, ok, "PWM_WRITE_FAIL") /\ DOMAIN p = DOMAIN NoResponse
  BY PassOrFailIs
<1>5. r = [p EXCEPT !.freq_expected = command.frequency, !.duty_expected = command.duty_cycle]
  BY DEF PwmWritten
<1> HIDE DEF r, p
<1>6. /\ r.seq = p.seq /\ r.status = p.status /\ r.err = p.err /\ r.val = p.val
      /\ r.expected = p.expected /\ r.actual = p.actual /\ r.rx = p.rx
      /\ r.freq_expected = command.frequency /\ r.duty_expected = command.duty_cycle
  BY <1>4, <1>5 DEF NoResponse
<1>7. command' = command /\ shown' = Ok(ok) /\ response' = r
  BY <1>3 DEF Executed, r
<1>8. Ok(ok).ok = ok /\ Ok(ok).text = <<>> /\ r.rx = <<>>
  BY <1>4, <1>6 DEF Ok, Plain
<1>9. Found'
  <2>1. /\ response'.seq = command.seq /\ response'.val = 0
        /\ response'.expected = 0 /\ response'.actual = 0
        /\ response'.freq_expected = command.frequency /\ response'.duty_expected = command.duty_cycle
    BY <1>4, <1>6, <1>7 DEF Plain
  <2>2. CASE ok
    <3>1. shown'.ok = TRUE /\ response'.status = "OK"
      BY <1>4, <1>6, <1>7, <1>8, <2>2 DEF Plain
    <3> QED BY <1>1, <1>7, <2>1, <3>1 DEF Found
  <2>3. CASE ~ok
    <3>1. shown'.ok = FALSE /\ response'.status = "FAIL" /\ Len(response'.err) \in 0..17
      BY <1>2, <1>4, <1>6, <1>7, <1>8, <2>3 DEF Plain
    <3> QED BY <1>1, <1>7, <2>1, <3>1 DEF Found
  <2> QED BY <2>2, <2>3
<1>10. IsText(Ok(ok).text) /\ IsText(r.rx) /\ Len(r.rx) \in 0..TextRoom
  <2>1. 0 \in 0..TextRoom
    BY Room
  <2> QED BY <1>8, <2>1, Empty, Zenon
<1> QED BY <1>1, <1>3, <1>9, <1>10, StillInv DEF r

LEMMA ExecutePwmReadInv ==
  ASSUME Inv, ExecutePwmRead
  PROVE  Inv'
<1>1. pc = "exec" /\ command.cmd = "PWM_READ_WITH_TOLERANCE" /\ UNCHANGED dut2
  BY DEF ExecutePwmRead
<1>2. Len("PWM_MISMATCH") = 12
  BY LengthAssumption DEF Lengths
<1>3. PICK ok \in BOOLEAN, m \in Measures :
        Executed(Ok(ok), PwmCompared(command, ok, m.duty, m.freq))
  BY DEF ExecutePwmRead
<1> DEFINE r == PwmCompared(command, ok, m.duty, m.freq)
           p == PassOrFail(command.seq, ok, "PWM_MISMATCH")
<1>4. Plain(p, command.seq, ok, "PWM_MISMATCH") /\ DOMAIN p = DOMAIN NoResponse
  BY PassOrFailIs
<1>5. r = [p EXCEPT !.freq_expected = command.frequency, !.duty_expected = command.duty_cycle,
                    !.freq_measured = m.freq, !.duty_measured = m.duty,
                    !.freq_tol_pct = command.freq_tol_pct, !.duty_tol_pp = command.duty_tol_pp]
  BY DEF PwmCompared
<1> HIDE DEF r, p
<1>6. /\ r.seq = p.seq /\ r.status = p.status /\ r.err = p.err /\ r.val = p.val
      /\ r.expected = p.expected /\ r.actual = p.actual /\ r.rx = p.rx
      /\ r.freq_expected = command.frequency /\ r.duty_expected = command.duty_cycle
      /\ r.freq_measured = m.freq /\ r.duty_measured = m.duty
      /\ r.freq_tol_pct = command.freq_tol_pct /\ r.duty_tol_pp = command.duty_tol_pp
  BY <1>4, <1>5 DEF NoResponse
<1>7. command' = command /\ shown' = Ok(ok) /\ response' = r
  BY <1>3 DEF Executed, r
<1>8. Ok(ok).ok = ok /\ Ok(ok).text = <<>> /\ r.rx = <<>>
  BY <1>4, <1>6 DEF Ok, Plain
<1>9. Found'
  <2>1. /\ response'.seq = command.seq /\ response'.val = 0
        /\ response'.expected = 0 /\ response'.actual = 0
        /\ response'.freq_expected = command.frequency /\ response'.duty_expected = command.duty_cycle
        /\ response'.freq_measured = m.freq /\ response'.duty_measured = m.duty
        /\ response'.freq_tol_pct = command.freq_tol_pct
        /\ response'.duty_tol_pp = command.duty_tol_pp
    BY <1>4, <1>6, <1>7 DEF Plain
  <2>2. CASE ok
    <3>1. shown'.ok = TRUE /\ response'.status = "OK" /\ response'.err = ""
      BY <1>4, <1>6, <1>7, <1>8, <2>2 DEF Plain
    <3> QED BY <1>1, <1>7, <2>1, <3>1 DEF Found
  <2>3. CASE ~ok
    <3>1. /\ shown'.ok = FALSE /\ response'.status = "FAIL"
          /\ response'.err = "PWM_MISMATCH" /\ Len(response'.err) \in 0..17
      BY <1>2, <1>4, <1>6, <1>7, <1>8, <2>3 DEF Plain
    <3> QED BY <1>1, <1>7, <2>1, <3>1 DEF Found
  <2> QED BY <2>2, <2>3
<1>10. IsText(Ok(ok).text) /\ IsText(r.rx) /\ Len(r.rx) \in 0..TextRoom
  <2>1. 0 \in 0..TextRoom
    BY Room
  <2> QED BY <1>8, <2>1, Empty, Zenon
<1> QED BY <1>1, <1>3, <1>9, <1>10, StillInv DEF r

LEMMA LeftAfterType ==
  ASSUME NEW size \in Nat, left \in 0..Len(Pong),
         NEW again \in (IF size < left THEN {size} ELSE left..size)
  PROVE  LeftAfter(size, again) \in 0..Len(Pong)
<1> USE DEF Transfer
<1>1. Len(Pong) \in Nat
  BY PathAssumption, LenIs
<1>2. CASE size < left
  BY <1>1, <1>2 DEF LeftAfter
<1>3. CASE ~(size < left)
  <2>1. again \in left..size
    BY <1>3
  <2>2. CASE size = again \/ size >= again + Len(Pong)
    BY <1>1, <1>3, <2>2 DEF LeftAfter
  <2>3. CASE ~(size = again \/ size >= again + Len(Pong))
    <3>1. LeftAfter(size, again) = Len(Pong) - (size - again)
      BY <1>3, <2>3 DEF LeftAfter
    <3> QED BY <1>1, <2>1, <2>3, <3>1
  <2> QED BY <2>2, <2>3
<1> QED BY <1>2, <1>3

\* A transfer within what is left of DUT2's brings what comes next of it.
LEMMA ClockedInStep ==
  ASSUME NEW size \in Nat, NEW m \in Nat, m + size <= Len(Pong), left = Len(Pong) - m,
         NEW again, NEW noise
  PROVE  Clocked(size, again, noise) = SubSeq(Pong, m + 1, m + size)
<1> DEFINE pong == Pong
           rx   == Clocked(size, again, noise)
<1>1. IsText(pong) /\ Len(pong) \in Nat
  BY PathAssumption, LenIs
<1>2. \A i \in 1..size : i <= left /\ Len(pong) - left + i = m + i
  BY <1>1
<1>3. rx = [i \in 1..size |-> pong[m + i]]
  <2>1. \A i \in 1..size : rx[i] = pong[m + i]
    BY <1>2 DEF Clocked, Transfer
  <2>2. rx = [i \in 1..size |-> rx[i]]
    BY DEF Clocked
  <2> HIDE DEF rx, pong
  <2> QED BY <2>1, <2>2
<1> HIDE DEF rx, pong
<1>4. SubSeq(pong, m + 1, m + size) = [i \in 1..size |-> pong[m + i]]
  BY <1>1 DEF IsText, pong
<1> QED BY <1>3, <1>4 DEF rx, pong

LEMMA ClockedIs ==
  ASSUME NEW size \in Nat, NEW again, NEW noise
  PROVE  IsText(Clocked(size, again, noise)) /\ Len(Clocked(size, again, noise)) = size
<1> DEFINE rx == Clocked(size, again, noise)
<1>1. rx = [i \in 1..size |-> rx[i]]
  BY DEF Clocked
<1> HIDE DEF rx
<1> QED BY <1>1, MadeIs DEF rx

LEMMA ExecuteSpiSendExpectInv ==
  ASSUME Inv, ExecuteSpiSendExpect
  PROVE  Inv'
<1> DEFINE size == Len(command.tx)
<1>1. pc = "exec" /\ command.cmd = "SPI_SEND_EXPECT" /\ IsText(command.tx) /\ size \in Nat
  BY LenIs DEF ExecuteSpiSendExpect, Inv, Typed
<1>2. /\ left \in 0..Len(Pong) /\ orderly \in BOOLEAN /\ clocked \in 0..Len(Pong)
      /\ Len(Pong) \in Nat /\ size # 0
  <2>1. command.tx # <<>>
    BY DEF ExecuteSpiSendExpect
  <2>2. size # 0
    BY <1>1, <2>1, LenIs
  <2> QED BY <2>2, PathAssumption, LenIs DEF Inv, Typed, TypeOK, Transfer
<1>3. PICK again \in (IF size < left THEN {size} ELSE left..size), noise \in {Noise, Nul} :
        LET rx   == Clocked(size, again, noise)
            pass == Begins(Text(rx), command.expect)
        IN  /\ Executed([ok |-> TRUE, text |-> rx],
                        WithRx(PassOrFail(command.seq, pass, "SPI_MISMATCH"), Text(rx)))
            /\ left' = LeftAfter(size, again)
            /\ orderly' = (orderly /\ left # 0 /\ Sofar + size <= Len(Pong))
            /\ clocked' = IF orderly' THEN Sofar + size ELSE 0
  BY Zenon DEF ExecuteSpiSendExpect
<1> DEFINE rx == Clocked(size, again, noise)
<1>4. PICK pass \in BOOLEAN : pass = Begins(Text(rx), command.expect)
  BY DEF Begins, IsPrefix
<1> DEFINE found  == [ok |-> TRUE, text |-> rx]
           answer == WithRx(PassOrFail(command.seq, pass, "SPI_MISMATCH"), Text(rx))
<1>5. /\ Executed(found, answer)
      /\ left' = LeftAfter(size, again)
      /\ orderly' = (orderly /\ left # 0 /\ Sofar + size <= Len(Pong))
      /\ clocked' = IF orderly' THEN Sofar + size ELSE 0
  BY <1>3, <1>4, Zenon
<1>6. IsText(rx)
  BY <1>1, ClockedIs
<1>7. IsText(Text(rx))
  BY <1>6, TextIs
<1>8. Telling(answer, command.seq, pass, "SPI_MISMATCH", Text(rx))
  BY <1>7, WithRxIs
<1>9. Len("SPI_MISMATCH") = 12
  BY LengthAssumption DEF Lengths
<1> HIDE DEF rx, found, answer, size
<1>10. ASSUME orderly'
       PROVE  /\ orderly /\ Sofar \in Nat /\ Sofar + size <= Len(Pong)
              /\ left = Len(Pong) - Sofar /\ clocked' = Sofar + size
  <2>1. orderly /\ left # 0 /\ Sofar + size <= Len(Pong) /\ clocked' = Sofar + size
    BY <1>5, <1>10
  <2>2. Sofar \in Nat
    BY <1>2 DEF Sofar
  <2> QED BY <2>1, <2>2 DEF Inv, Phase
<1>11. found.ok = TRUE /\ found.text = rx
  BY DEF found
<1>12. command' = command /\ shown' = found /\ response' = answer
  BY <1>5 DEF Executed
<1>13. AnswerInStep' /\ Phase' /\ clocked' \in 0..Len(Pong)
       /\ left' \in 0..Len(Pong) /\ orderly' \in BOOLEAN
  <2>1. AnswerInStep'
    <3> SUFFICES ASSUME orderly'
                 PROVE  shown'.text = SubSeq(Pong, clocked' - Len(shown'.text) + 1, clocked')
      BY DEF AnswerInStep
    <3>1. rx = SubSeq(Pong, Sofar + 1, Sofar + size)
      BY <1>1, <1>10, ClockedInStep DEF rx
    <3>2. Len(rx) = size
      BY <1>1, ClockedIs DEF rx
    <3>3. clocked' = Sofar + size /\ clocked' - size + 1 = Sofar + 1
      BY <1>1, <1>10
    <3> QED BY <1>11, <1>12, <3>1, <3>2, <3>3
  <2>2. Phase'
    <3> SUFFICES ASSUME orderly'
                 PROVE  (left' = 0 /\ Sofar' = 0) \/ left' = Len(Pong) - Sofar'
      BY DEF Phase
    <3>1. size <= left /\ left = Len(Pong) - Sofar /\ clocked' = Sofar + size /\ Sofar \in Nat
      BY <1>1, <1>2, <1>10
    <3>2. CASE size < left
      <4>1. left' = left - size
        BY <1>5, <3>2 DEF LeftAfter
      <4>2. Sofar' = clocked'
        BY <1>1, <1>2, <3>1, <3>2 DEF Sofar
      <4> QED BY <1>1, <1>2, <3>1, <4>1, <4>2
    <3>3. CASE size = left
      <4>1. again = size
        BY <1>1, <1>2, <1>3, <3>3
      <4>2. left' = 0
        BY <1>1, <1>5, <3>3, <4>1 DEF LeftAfter
      <4>3. Sofar' = 0
        BY <1>1, <1>2, <3>1, <3>3 DEF Sofar
      <4> QED BY <4>2, <4>3
    <3> QED BY <1>1, <1>2, <3>1, <3>2, <3>3
  <2>3. left' \in 0..Len(Pong) /\ orderly' \in BOOLEAN
    <3>1. LeftAfter(size, again) \in 0..Len(Pong)
      BY <1>1, <1>2, LeftAfterType
    <3> QED BY <1>5, <3>1
  <2>4. clocked' \in 0..Len(Pong)
    BY <1>1, <1>2, <1>5, <1>10
  <2> QED BY <2>1, <2>2, <2>3, <2>4
<1>14. Found'
  <2>1. shown'.text = rx /\ shown'.ok = TRUE
    BY <1>11, <1>12
  <2>2. /\ response'.seq = command.seq /\ response'.status = (IF pass THEN "OK" ELSE "FAIL")
        /\ response'.err = (IF pass THEN "" ELSE "SPI_MISMATCH")
        /\ response'.val = 0 /\ response'.expected = 0 /\ response'.actual = 0
        /\ response'.has_rx /\ ~response'.has_expected_actual /\ ~response'.has_val
        /\ response'.rx = KeptText(Text(rx))
    BY <1>8, <1>12 DEF Telling
  <2>3. response'.status \in {"OK", "FAIL"} /\ (response'.status = "OK" <=> pass)
    BY <2>2
  <2>4. response'.status = "FAIL" => Len(response'.err) \in 0..17
    <3>1. response'.status = "FAIL" => response'.err = "SPI_MISMATCH"
      BY <2>2, <2>3
    <3> QED BY <1>9, <3>1
  <2>5. response'.status = "OK" <=> Begins(Text(rx), command.expect)
    BY <1>4, <2>3, Zenon
  <2>6. FoundText(Text(shown.text), Begins(Text(shown.text), command.expect))'
    <3>1. FoundText(Text(shown.text), Begins(Text(shown.text), command.expect))' <=>
            /\ response'.has_rx /\ ~response'.has_expected_actual /\ ~response'.has_val
            /\ shown'.ok => /\ response'.rx = KeptText(Text(shown'.text))
                            /\ response'.status = "OK" <=> Begins(Text(shown'.text), command'.expect)
      BY DEF FoundText
    <3> QED BY <1>12, <2>1, <2>2, <2>5, <3>1, Zenon
  <2> QED BY <1>1, <1>12, <2>1, <2>2, <2>3, <2>4, <2>6 DEF Found
<1>15. IsText(found.text) /\ IsText(answer.rx) /\ Len(answer.rx) \in 0..TextRoom
  BY <1>6, <1>8, <1>11 DEF Telling
<1> QED BY <1>1, <1>5, <1>13, <1>14, <1>15, ExecutedInv

LEMMA ArmInv ==
  ASSUME Inv, Arm
  PROVE  Inv'
<1>1. Len(Pong) \in Nat
  BY PathAssumption, LenIs
<1>2. Typed'
  BY <1>1 DEF Inv, Typed, TypeOK, Arm, host, board, Transfer
<1>3. AnswerInStep' /\ VerdictIsTrue'
  BY DEF Inv, AnswerInStep, VerdictIsTrue, Arm, host, board, Fits, Right, Line, Arg
<1>4. Phase'
  BY <1>1 DEF Inv, Typed, TypeOK, Phase, Sofar, Arm, Transfer
<1> QED BY <1>2, <1>3, <1>4 DEF Inv, Current, Outcome, Found, FoundText, Refused, Arm, host, board

-----------------------------------------------------------------------------
(* What is formatted *)

\* What a response says besides its result: one of six.
Detailed(d, r, cmd) ==
  \/ /\ cmd = "PWM_READ_WITH_TOLERANCE" /\ Len(d) = 6
     /\ d[1] = Field("freq_expected", r.freq_expected) /\ d[2] = Field("duty_expected", r.duty_expected)
     /\ d[3] = Field("freq_measured", r.freq_measured) /\ d[4] = Field("duty_measured", r.duty_measured)
     /\ d[5] = Field("freq_tol_pct", r.freq_tol_pct) /\ d[6] = Field("duty_tol_pp", r.duty_tol_pp)
  \/ /\ cmd = "PWM_WRITE" /\ Len(d) = 2
     /\ d[1] = Field("freq_set", r.freq_expected) /\ d[2] = Field("duty_set", r.duty_expected)
  \/ /\ cmd \notin {"PWM_READ_WITH_TOLERANCE", "PWM_WRITE"}
     /\ \/ /\ r.has_expected_actual /\ Len(d) = 2
           /\ d[1] = Field("expected", r.expected) /\ d[2] = Field("actual", r.actual)
        \/ ~r.has_expected_actual /\ r.has_val /\ Len(d) = 1 /\ d[1] = Field("val", r.val)
        \/ /\ ~r.has_expected_actual /\ ~(r.has_val /\ r.status = "OK") /\ r.has_rx
           /\ Len(d) = 1 /\ d[1] = Field("rx", r.rx)
        \/ ~r.has_expected_actual /\ ~r.has_rx /\ Len(d) = 0

\* The details of an answer have keys of their own, so seq, status and err are read once.
LEMMA DetailsAre ==
  ASSUME NEW r, NEW cmd
  PROVE  LET d == Details(r, cmd)
         IN  /\ IsText(d) /\ Detailed(d, r, cmd)
             /\ \A i \in 1..Len(d) : d[i].key \notin {"seq", "status", "err"}
<1> DEFINE d == Details(r, cmd)
           pwm == <<"freq_expected", "duty_expected", "freq_measured", "duty_measured",
                    "freq_tol_pct", "duty_tol_pp">>
<1>1. CASE cmd = "PWM_READ_WITH_TOLERANCE"
  <2>1. d = [i \in DOMAIN pwm |-> Field(pwm[i], r[pwm[i]])]
    BY <1>1 DEF Details
  <2>2. DOMAIN pwm = 1..6
    OBVIOUS
  <2>3. d = [i \in 1..6 |-> Field(pwm[i], r[pwm[i]])]
    BY <2>1, <2>2
  <2>4. IsText(d) /\ Len(d) = 6
    <3>1. d = [i \in 1..6 |-> d[i]]
      BY <2>3
    <3> HIDE DEF d
    <3> QED BY <3>1, MadeIs
  <2>5. /\ d[1] = Field("freq_expected", r.freq_expected) /\ d[2] = Field("duty_expected", r.duty_expected)
        /\ d[3] = Field("freq_measured", r.freq_measured) /\ d[4] = Field("duty_measured", r.duty_measured)
        /\ d[5] = Field("freq_tol_pct", r.freq_tol_pct) /\ d[6] = Field("duty_tol_pp", r.duty_tol_pp)
    BY <2>3
  <2>6. \A i \in 1..6 : d[i].key \notin {"seq", "status", "err"}
    BY <2>5 DEF Field
  <2> QED BY <1>1, <2>4, <2>5, <2>6 DEF Detailed
<1>2. CASE cmd = "PWM_WRITE"
  <2>1. d = <<Field("freq_set", r.freq_expected), Field("duty_set", r.duty_expected)>>
    BY <1>2 DEF Details
  <2>2. d = [i \in 1..2 |-> d[i]]
    BY <2>1
  <2>3. d[1] = Field("freq_set", r.freq_expected) /\ d[2] = Field("duty_set", r.duty_expected)
    BY <2>1
  <2> HIDE DEF d
  <2>4. IsText(d) /\ Len(d) = 2
    BY <2>2, MadeIs
  <2>5. \A i \in 1..2 : d[i].key \notin {"seq", "status", "err"}
    BY <2>3 DEF Field
  <2> QED BY <1>2, <2>3, <2>4, <2>5 DEF Detailed, d
<1>3. CASE cmd \notin {"PWM_READ_WITH_TOLERANCE", "PWM_WRITE"} /\ r.has_expected_actual
  <2>1. d = [i \in DOMAIN <<"expected", "actual">> |->
               Field(<<"expected", "actual">>[i], r[<<"expected", "actual">>[i]])]
    BY <1>3 DEF Details
  <2>2. d = [i \in 1..2 |-> d[i]]
    BY <2>1
  <2>3. d[1] = Field("expected", r.expected) /\ d[2] = Field("actual", r.actual)
    BY <2>1
  <2> HIDE DEF d
  <2>4. IsText(d) /\ Len(d) = 2
    BY <2>2, MadeIs
  <2>5. \A i \in 1..2 : d[i].key \notin {"seq", "status", "err"}
    BY <2>3 DEF Field
  <2> QED BY <1>3, <2>3, <2>4, <2>5 DEF Detailed, d
<1>4. ASSUME NEW key \in {"val", "rx"}, d = [i \in DOMAIN <<key>> |-> Field(<<key>>[i], r[<<key>>[i]])]
      PROVE  /\ IsText(d) /\ Len(d) = 1 /\ d[1] = Field(key, r[key])
             /\ \A i \in 1..1 : d[i].key \notin {"seq", "status", "err"}
  <2>1. d = [i \in 1..1 |-> d[i]] /\ d[1] = Field(key, r[key])
    BY <1>4
  <2> HIDE DEF d
  <2>2. IsText(d) /\ Len(d) = 1
    BY <2>1, MadeIs
  <2> QED BY <2>1, <2>2 DEF Field
<1>5. CASE /\ cmd \notin {"PWM_READ_WITH_TOLERANCE", "PWM_WRITE"}
           /\ ~r.has_expected_actual /\ r.has_val /\ r.status = "OK"
  <2>1. d = [i \in DOMAIN <<"val">> |-> Field(<<"val">>[i], r[<<"val">>[i]])]
    BY <1>5 DEF Details
  <2> HIDE DEF d
  <2>2. /\ IsText(d) /\ Len(d) = 1 /\ d[1] = Field("val", r.val)
        /\ \A i \in 1..1 : d[i].key \notin {"seq", "status", "err"}
    BY <1>4, <2>1
  <2> QED BY <1>5, <2>2 DEF Detailed, d
<1>6. CASE /\ cmd \notin {"PWM_READ_WITH_TOLERANCE", "PWM_WRITE"}
           /\ ~r.has_expected_actual /\ ~(r.has_val /\ r.status = "OK") /\ r.has_rx
  <2>1. d = [i \in DOMAIN <<"rx">> |-> Field(<<"rx">>[i], r[<<"rx">>[i]])]
    BY <1>6 DEF Details
  <2> HIDE DEF d
  <2>2. /\ IsText(d) /\ Len(d) = 1 /\ d[1] = Field("rx", r.rx)
        /\ \A i \in 1..1 : d[i].key \notin {"seq", "status", "err"}
    BY <1>4, <2>1
  <2> QED BY <1>6, <2>2 DEF Detailed, d
<1>7. CASE /\ cmd \notin {"PWM_READ_WITH_TOLERANCE", "PWM_WRITE"}
           /\ ~r.has_expected_actual /\ ~(r.has_val /\ r.status = "OK") /\ ~r.has_rx
  <2>1. d = <<>>
    BY <1>7 DEF Details
  <2> HIDE DEF d
  <2> QED BY <1>7, <2>1, Empty DEF Detailed, d
<1> QED BY <1>1, <1>2, <1>3, <1>5, <1>6, <1>7

\* An answer with its result first, and the error last.
Framed(a, r, d) ==
  /\ Len(a) = Len(d) + (IF r.status = "OK" THEN 2 ELSE 3) /\ IsText(a)
  /\ a[1] = Field("seq", r.seq) /\ a[2] = Field("status", r.status)
  /\ \A i \in 1..Len(d) : a[i + 2] = d[i]
  /\ r.status # "OK" => a[Len(d) + 3] = Field("err", r.err)

LEMMA FormattedIs ==
  ASSUME NEW r, NEW cmd
  PROVE  Framed(Formatted(r, cmd), r, Details(r, cmd))
<1> DEFINE d == Details(r, cmd)
           n == Len(d)
           e == IF r.status = "OK" THEN <<>> ELSE <<Field("err", r.err)>>
           first == <<Field("seq", r.seq), Field("status", r.status)>>
<1>1. IsText(d)
  BY DetailsAre
<1> HIDE DEF d
<1>2. n \in Nat /\ d = [i \in 1..n |-> d[i]]
  BY <1>1, LenIs
<1>3. first \o d = [i \in 1..(n + 2) |-> IF i <= 2 THEN first[i] ELSE d[i - 2]]
  BY <1>2
<1> DEFINE s == first \o d
<1>4. /\ Len(s) = n + 2 /\ s = [i \in 1..(n + 2) |-> s[i]]
      /\ s[1] = Field("seq", r.seq) /\ s[2] = Field("status", r.status)
      /\ \A i \in 1..n : s[i + 2] = d[i]
  BY <1>2, <1>3
<1>5. Formatted(r, cmd) = s \o e
  BY DEF Formatted, d
<1> HIDE DEF s
<1>6. CASE r.status = "OK"
  <2>1. s \o e = [i \in 1..(n + 2) |-> s[i]]
    BY <1>2, <1>4, <1>6
  <2>2. s \o e = s
    BY <1>4, <2>1
  <2>3. IsText(s)
    BY <1>2, <1>4, MadeIs
  <2> QED BY <1>4, <1>5, <1>6, <2>2, <2>3 DEF Framed, d
<1>7. CASE r.status # "OK"
  <2> DEFINE a == s \o <<Field("err", r.err)>>
  <2>1. a = [i \in 1..(n + 3) |-> IF i <= n + 2 THEN s[i] ELSE Field("err", r.err)]
    BY <1>2, <1>4
  <2>2. Formatted(r, cmd) = a
    BY <1>5, <1>7
  <2> HIDE DEF a
  <2>3. /\ Len(a) = n + 3 /\ a = [i \in 1..(n + 3) |-> a[i]]
        /\ a[1] = s[1] /\ a[2] = s[2] /\ a[n + 3] = Field("err", r.err)
        /\ \A i \in 1..n : a[i + 2] = s[i + 2]
    BY <1>2, <2>1
  <2>4. IsText(a)
    <3>1. n + 3 \in Nat
      BY <1>2
    <3> QED BY <2>3, <3>1, MadeIs
  <2> QED BY <1>4, <1>7, <2>2, <2>3, <2>4 DEF Framed, d
<1> QED BY <1>6, <1>7

-----------------------------------------------------------------------------
(* How long an answer is *)

\* What a field adds to a line.
Weight(f) == 2 + Len(f.key) + ValueSize(f)

LEMMA WeightNumber ==
  ASSUME NEW key \in Numbers, NEW val \in Int, Len(key) \in Nat
  PROVE  /\ IsField(Field(key, val)) /\ Weight(Field(key, val)) = 2 + Len(key) + Digits(val)
         /\ Digits(val) \in 1..11
<1> DEFINE f == Field(key, val)
<1>1. f.key = key /\ f.val = val /\ f = Field(f.key, f.val)
  BY DEF Field
<1> HIDE DEF f
<1>2. IsField(f) /\ Weight(f) = 2 + Len(key) + Digits(val)
  BY <1>1 DEF IsField, Weight, ValueSize
<1> QED BY <1>2, DigitsType DEF f

LEMMA WeightName ==
  ASSUME NEW key \in {"status", "err", "rx"}, NEW val, Len(val) \in Nat
  PROVE  IsField(Field(key, val)) /\ Weight(Field(key, val)) = 2 + Len(key) + Len(val)
<1> DEFINE f == Field(key, val)
<1>1. f.key = key /\ f.val = val /\ f = Field(f.key, f.val) /\ key \notin Numbers
  BY DEF Field, Numbers, ArgNumbers, AnswerNumbers
<1>2. Len(key) \in Nat
  BY LengthAssumption DEF Lengths
<1> HIDE DEF f
<1> QED BY <1>1, <1>2 DEF IsField, Weight, ValueSize, f

\* A bound on a line grows by the bound on its next field.
LEMMA SizeStep ==
  ASSUME NEW a, IsLine(a), NEW i \in 1..Len(a), NEW b \in Nat, NEW w \in Nat,
         Ends(a)[i - 1] <= b, Weight(a[i]) <= w
  PROVE  Ends(a)[i] <= b + w
<1>1. Ends(a)[i] = Ends(a)[i - 1] + 2 + Len(a[i].key) + ValueSize(a[i])
  BY EndsAre
<1>2. Len(a) \in Nat /\ DOMAIN a = 1..Len(a)
  BY Sequence DEF IsLine
<1>3. Len(a[i].key) \in Nat /\ ValueSize(a[i]) \in Nat
  BY <1>2, ValueSizeType DEF IsLine
<1>4. Ends(a)[i - 1] \in Nat
  <2>1. i - 1 \in 0..Len(a)
    BY <1>2
  <2> QED BY <2>1, EndsAre
<1>5. \A x, y, z \in Nat : x <= b /\ 2 + y + z <= w => x + 2 + y + z <= b + w
  OBVIOUS
<1> QED BY <1>1, <1>3, <1>4, <1>5, Zenon DEF Weight

\* The frame of an answer.
IsFrame(r, e) ==
  /\ r.seq \in Int /\ r.status \in {"OK", "FAIL"} /\ e \in Nat
  /\ r.status = "FAIL" => Len(r.err) \in 0..e

\* The fields around the details, whatever the command.
LEMMA FrameFields ==
  ASSUME NEW r, NEW e, IsFrame(r, e)
  PROVE  /\ IsField(Field("seq", r.seq)) /\ IsField(Field("status", r.status))
         /\ Weight(Field("seq", r.seq)) = 5 + Digits(r.seq) /\ Digits(r.seq) \in 1..11
         /\ Weight(Field("status", r.status)) \in Nat /\ Weight(Field("status", r.status)) <= 12
         /\ r.status # "OK" =>
              /\ IsField(Field("err", r.err))
              /\ Weight(Field("err", r.err)) \in Nat /\ Weight(Field("err", r.err)) <= 5 + e
<1>1. Len("seq") = 3 /\ Len("status") = 6 /\ Len("err") = 3 /\ Len("OK") = 2 /\ Len("FAIL") = 4
  BY LengthAssumption DEF Lengths
<1>2. "seq" \in Numbers
  BY DEF Numbers, ArgNumbers
<1>3. IsField(Field("seq", r.seq)) /\ Weight(Field("seq", r.seq)) = 5 + Digits(r.seq)
      /\ Digits(r.seq) \in 1..11
  <2>1. r.seq \in Int /\ Len("seq") \in Nat
    BY <1>1 DEF IsFrame
  <2>2. 2 + Len("seq") = 5
    <3>1. 2 + 3 = 5
      OBVIOUS
    <3> QED BY <1>1, <3>1, Zenon
  <2> QED BY <1>2, <2>1, <2>2, WeightNumber, Zenon
<1>4. IsField(Field("status", r.status)) /\ Weight(Field("status", r.status)) = 2 + 6 + Len(r.status)
      /\ Len(r.status) \in {2, 4}
  <2>1. Len(r.status) \in {2, 4}
    BY <1>1 DEF IsFrame
  <2>2. Len(r.status) \in Nat
    BY <2>1
  <2>3. "status" \in {"status", "err", "rx"}
    OBVIOUS
  <2> QED BY <1>1, <2>1, <2>2, <2>3, WeightName, Zenon
<1>5. ASSUME r.status # "OK"
      PROVE  /\ IsField(Field("err", r.err))
             /\ Weight(Field("err", r.err)) \in Nat /\ Weight(Field("err", r.err)) <= 5 + e
  <2>1. Len(r.err) \in 0..e /\ e \in Nat
    BY <1>5 DEF IsFrame
  <2>2. IsField(Field("err", r.err)) /\ Weight(Field("err", r.err)) = 2 + 3 + Len(r.err)
    <3>1. Len(r.err) \in Nat /\ "err" \in {"status", "err", "rx"}
      BY <2>1
    <3> QED BY <1>1, <3>1, WeightName, Zenon
  <2>3. 2 + 3 + Len(r.err) \in Nat /\ 2 + 3 + Len(r.err) <= 5 + e
    BY <2>1
  <2> QED BY <2>2, <2>3, Zenon
<1>6. 2 + 6 + Len(r.status) \in Nat /\ 2 + 6 + Len(r.status) <= 12
  <2>1. \A x \in {2, 4} : 2 + 6 + x \in Nat /\ 2 + 6 + x <= 12
    OBVIOUS
  <2> QED BY <1>4, <2>1, Zenon
<1> QED BY <1>3, <1>4, <1>5, <1>6, Zenon

LEMMA FramedLine ==
  ASSUME NEW a, NEW r, NEW d, NEW e, Framed(a, r, d), IsFrame(r, e), IsText(d),
         \A i \in 1..Len(d) : IsField(d[i])
  PROVE  /\ IsLine(a) /\ Len(a) = Len(d) + (IF r.status = "OK" THEN 2 ELSE 3)
         /\ Ends(a)[2] <= 20 + Digits(r.seq)
<1>1. Len(d) \in Nat /\ Len(a) \in Nat /\ DOMAIN a = 1..Len(a)
  BY LenIs DEF Framed
<1>2. /\ Len(a) = Len(d) + (IF r.status = "OK" THEN 2 ELSE 3)
      /\ a[1] = Field("seq", r.seq) /\ a[2] = Field("status", r.status)
      /\ \A i \in 1..Len(d) : a[i + 2] = d[i]
      /\ r.status # "OK" => a[Len(d) + 3] = Field("err", r.err)
  BY DEF Framed
<1>3. ASSUME NEW i \in 1..Len(a) PROVE IsField(a[i])
  <2>1. CASE i = 1
    BY <1>2, <2>1, FrameFields
  <2>2. CASE i = 2
    BY <1>2, <2>2, FrameFields
  <2>3. CASE i - 2 \in 1..Len(d)
    <3>1. a[(i - 2) + 2] = d[i - 2] /\ (i - 2) + 2 = i
      BY <1>2, <2>3
    <3> QED BY <2>3, <3>1
  <2>4. CASE i = Len(d) + 3
    <3>1. r.status # "OK"
      BY <1>1, <1>2, <2>4
    <3> QED BY <1>2, <2>4, <3>1, FrameFields
  <2>5. i = 1 \/ i = 2 \/ i - 2 \in 1..Len(d) \/ i = Len(d) + 3
    <3>1. i <= Len(d) + 3
      BY <1>1, <1>2
    <3> QED BY <1>1, <3>1
  <2> QED BY <2>1, <2>2, <2>3, <2>4, <2>5
<1>4. IsLine(a)
  BY <1>1, <1>3 DEF IsLine, Framed, IsText
<1>5. Ends(a)[2] <= 20 + Digits(r.seq)
  <2> DEFINE s == Digits(r.seq)
  <2>1. Weight(a[1]) = 5 + s /\ s \in 1..11 /\ Weight(a[2]) <= 12
    BY <1>2, FrameFields
  <2> HIDE DEF s
  <2>2. 1 \in 1..Len(a) /\ 2 \in 1..Len(a)
    BY <1>1, <1>2
  <2>3. Ends(a)[1 - 1] <= 3
    BY <1>4, EndsAre
  <2>4. Ends(a)[1] <= 3 + (5 + s)
    <3>1. 5 + s \in Nat /\ Weight(a[1]) <= 5 + s /\ 3 \in Nat
      BY <2>1
    <3> QED BY <1>4, <2>2, <2>3, <3>1, SizeStep
  <2>5. Ends(a)[2] <= (8 + s) + 12
    <3>1. 8 + s \in Nat /\ 12 \in Nat /\ Ends(a)[2 - 1] <= 8 + s
      BY <2>1, <2>4
    <3> QED BY <1>4, <2>1, <2>2, <3>1, SizeStep
  <2>6. (8 + s) + 12 = 20 + s
    BY <2>1
  <2> QED BY <2>5, <2>6 DEF s
<1> QED BY <1>2, <1>4, <1>5

\* The end of an answer after its details.
LEMMA FramedSize ==
  ASSUME NEW a, NEW r, NEW d, NEW e, Framed(a, r, d), IsFrame(r, e), IsText(d), IsLine(a),
         NEW b \in Nat, Ends(a)[Len(d) + 2] <= b
  PROVE  LineSize(a) <= b + 5 + e
<1>1. Len(d) \in Nat /\ e \in Nat
  BY LenIs DEF IsFrame
<1>2. CASE r.status = "OK"
  <2>1. LineSize(a) = Ends(a)[Len(d) + 2]
    BY <1>2 DEF LineSize, Framed
  <2>2. Len(d) + 2 \in 0..Len(a)
    BY <1>1, <1>2 DEF Framed
  <2>3. Ends(a)[Len(d) + 2] \in Nat
    BY <2>2, EndsAre
  <2> QED BY <1>1, <2>1, <2>3
<1>3. CASE r.status # "OK"
  <2> DEFINE n == Len(d) + 3
  <2>1. n = Len(a) /\ n \in 1..Len(a) /\ n - 1 = Len(d) + 2 /\ a[n] = Field("err", r.err)
    BY <1>1, <1>3 DEF Framed
  <2>2. Weight(a[n]) <= 5 + e /\ 5 + e \in Nat
    BY <1>1, <1>3, <2>1, FrameFields
  <2> HIDE DEF n
  <2>3. Ends(a)[n - 1] <= b
    BY <2>1
  <2>4. Ends(a)[n] <= b + (5 + e)
    BY <2>1, <2>2, <2>3, SizeStep
  <2>5. LineSize(a) = Ends(a)[n]
    BY <2>1 DEF LineSize
  <2>6. b + (5 + e) = b + 5 + e
    BY <1>1
  <2> QED BY <2>4, <2>5, <2>6
<1> QED BY <1>2, <1>3

-----------------------------------------------------------------------------
(* What the values of a call are in its line *)

\* The field seq in front of a call changes no other value.
LEMMA LineValue ==
  ASSUME NEW n \in Nat, NEW c \in Calls, NEW key, key # "seq", NEW default
  PROVE  ValueOf(LineOf(n, c), {key}, default) = ValueOf(c, {key}, default)
<1> DEFINE line == LineOf(n, c)
           m    == Len(c) + 1
           keys == {key}
<1>1. /\ DOMAIN line = 1..m /\ DOMAIN c = 1..Len(c) /\ Len(c) \in Nat
      /\ line[1] = Field("seq", n) /\ \A i \in 1..Len(c) : line[i + 1] = c[i]
      /\ \A i \in 2..m : line[i] = c[i - 1]
      /\ \A i, j \in DOMAIN line : line[i].key = line[j].key => i = j
  BY LineIs DEF Lined
<1>2. m \in Nat /\ m = Len(c) + 1
  BY <1>1
<1> HIDE DEF line, m
<1>3. CASE \E i \in DOMAIN c : c[i].key = key
  <2>1. PICK i \in DOMAIN c : c[i].key = key
    BY <1>3
  <2>2. ValueOf(c, keys, default) = c[i].val
    BY <2>1, ArgIs
  <2> DEFINE k == i + 1
  <2>3. k \in 1..m /\ line[k] = c[i]
    BY <1>1, <1>2, <2>1
  <2>4. \A j \in (k + 1)..m : line[j].key \notin keys
    BY <1>1, <1>2, <2>1, <2>3, SMTT(30)
  <2>5. line[k].key \in keys
    BY <2>1, <2>3
  <2> HIDE DEF keys, k
  <2>6. ValueOf(line, keys, default) = line[k].val
    <3>1. DOMAIN line = 1..m
      BY <1>1
    <3> QED BY <1>2, <2>3, <2>4, <2>5, <3>1, ValueAt
  <2> QED BY <2>2, <2>3, <2>6 DEF keys, line
<1>4. CASE \A i \in DOMAIN c : c[i].key # key
  <2>1. ValueOf(c, keys, default) = default
    BY <1>4, ValueNone
  <2>2. ASSUME NEW j \in DOMAIN line PROVE line[j].key # key
    <3>1. CASE j = 1
      BY <1>1, <3>1 DEF Field
    <3>2. CASE j # 1
      <4>1. j - 1 \in DOMAIN c /\ line[j] = c[j - 1]
        BY <1>1, <1>2, <3>2
      <4> QED BY <1>4, <4>1, Zenon
    <3> QED BY <3>1, <3>2
  <2>3. ValueOf(line, keys, default) = default
    BY <2>2, ValueNone
  <2> QED BY <2>1, <2>3 DEF line
<1> QED BY <1>3, <1>4

LEMMA LineSeq ==
  ASSUME NEW n \in Nat, NEW c \in Calls, NEW default
  PROVE  ValueOf(LineOf(n, c), {"seq"}, default) = n
<1> DEFINE line == LineOf(n, c)
           m    == Len(c) + 1
           keys == {"seq"}
<1>1. /\ DOMAIN line = 1..m /\ Len(c) \in Nat /\ line[1] = Field("seq", n)
      /\ \A i, j \in DOMAIN line : line[i].key = line[j].key => i = j
  BY LineIs DEF Lined
<1>2. m \in Nat /\ m = Len(c) + 1
  BY <1>1
<1> HIDE DEF line, m
<1>3. PICK i \in 1..m : i = 1 /\ line[i].key = "seq" /\ line[i].val = n
  BY <1>1, <1>2 DEF Field
<1>4. line[i].key \in keys /\ \A j \in (i + 1)..m : line[j].key \notin keys
  BY <1>1, <1>2, <1>3
<1> HIDE DEF keys
<1>5. ValueOf(line, keys, default) = line[i].val
  <2>1. DOMAIN line = 1..m
    BY <1>1
  <2> QED BY <1>2, <1>4, <2>1, ValueAt
<1> QED BY <1>3, <1>5 DEF line, keys

LEMMA NumberIs ==
  ASSUME NEW c \in Calls, NEW key \in Numbers
  PROVE  ValueOf(c, {key}, 0) \in Int
<1>1. CASE \E i \in DOMAIN c : c[i].key = key
  <2>1. PICK i \in DOMAIN c : c[i].key = key
    BY <1>1
  <2>2. ValueOf(c, {key}, 0) = c[i].val
    BY <2>1, ArgIs
  <2>3. IsField(c[i])
    BY PathAssumption DEF IsCall, Range
  <2> QED BY <2>1, <2>2, <2>3 DEF IsField
<1>2. CASE \A i \in DOMAIN c : c[i].key # key
  BY <1>2, ValueNone
<1> QED BY <1>1, <1>2

\* The value of a key that is there depends on no default.
LEMMA Present ==
  ASSUME NEW c \in Calls, NEW key, {f \in Range(c) : f.key = key} # {}
  PROVE  \E v : \A default : ValueOf(c, {key}, default) = v
<1>1. PICK i \in DOMAIN c : c[i].key = key
  BY DEF Range
<1>2. \A default : ValueOf(c, {key}, default) = c[i].val
  BY <1>1, ArgIs
<1> QED BY <1>2

LEMMA FitsIs == Fits <=> LineSize(LineOf(seq, call)) <= LineRoom /\ TextsFit(call)
BY LineHere, Zenon DEF Fits, TextsFit

\* The command of a line that fits, if it is one.
LEMMA CommandWhole ==
  ASSUME seq \in Nat, call \in Calls, command = Taken(seq, call), Fits, Arg("cmd") \in Names
  PROVE  /\ Usable(command) /\ command.seq = seq /\ command.cmd = Arg("cmd")
         /\ command.expect = Arg("expect")
         /\ command.cmd = "GPIO_EXPECT" => command.val = Arg("val")
         /\ \A key \in {"frequency", "duty_cycle", "freq_tol_pct", "duty_tol_pp"} :
              command[key] = ValueOf(call, {key}, 0) /\ command[key] \in Int
<1>1. ASSUME NEW key \in DOMAIN Blank
      PROVE  command[key] = LET said == ValueOf(LineOf(seq, call), KeysOf(key), Blank[key])
                            IN  IF key = "cmd" /\ said \notin Names THEN "UNKNOWN" ELSE said
  BY FitsIs, TakenWhole
<1>2. ASSUME NEW key \in DOMAIN Blank, key \notin {"cmd", "ch", "seq"}
      PROVE  command[key] = ValueOf(call, {key}, Blank[key])
  <2>1. command[key] = ValueOf(LineOf(seq, call), {key}, Blank[key])
    BY <1>1, <1>2, Zenon DEF KeysOf
  <2> QED BY <1>2, <2>1, LineValue
<1>3. command.seq = seq
  <2>1. command["seq"] = ValueOf(LineOf(seq, call), {"seq"}, Blank["seq"])
    <3>1. "seq" \in DOMAIN Blank /\ KeysOf("seq") = {"seq"} /\ "seq" # "cmd"
      BY DEF Blank, KeysOf
    <3> QED BY <1>1, <3>1, Zenon
  <2> QED BY <2>1, LineSeq
<1>4. command.cmd = Arg("cmd")
  <2>1. "cmd" \in DOMAIN Blank /\ KeysOf("cmd") = {"cmd"} /\ "cmd" # "seq"
    BY DEF Blank, KeysOf
  <2>2. ValueOf(LineOf(seq, call), {"cmd"}, Blank["cmd"]) = ValueOf(call, {"cmd"}, Blank["cmd"])
    BY <2>1, LineValue
  <2>3. ValueOf(call, {"cmd"}, Blank["cmd"]) = Arg("cmd")
    <3>1. {f \in Range(call) : f.key = "cmd"} # {}
      BY PathAssumption, Zenon DEF IsCall
    <3>2. \E v : \A default : ValueOf(call, {"cmd"}, default) = v
      BY <3>1, Present
    <3> QED BY <3>2, Zenon DEF Arg
  <2>4. command["cmd"] = Arg("cmd")
    BY <1>1, <2>1, <2>2, <2>3, Zenon
  <2> QED BY <2>4
<1>5. Usable(command)
  BY <1>3, <1>4 DEF Usable, Names
<1>6. command.expect = Arg("expect")
  <2>1. "expect" \in DOMAIN Blank /\ Blank["expect"] = <<>>
    BY DEF Blank
  <2>2. "expect" \notin {"cmd", "ch", "seq"}
    OBVIOUS
  <2>3. command["expect"] = ValueOf(call, {"expect"}, <<>>)
    BY <1>2, <2>1, <2>2, Zenon
  <2> QED BY <2>3 DEF Arg
<1>7. ASSUME command.cmd = "GPIO_EXPECT" PROVE command.val = Arg("val")
  <2>1. "val" \in DOMAIN Blank
    BY DEF Blank
  <2>2. "val" \notin {"cmd", "ch", "seq"}
    OBVIOUS
  <2>3. command["val"] = ValueOf(call, {"val"}, Blank["val"])
    BY <1>2, <2>1, <2>2, Zenon
  <2>4. IsCall(call) /\ {f \in Range(call) : f.key = "cmd"} # {}
    BY PathAssumption, Zenon DEF IsCall
  <2>5. PICK i \in DOMAIN call : call[i].key = "cmd"
    BY <2>4 DEF Range
  <2>6. call[i].val = "GPIO_EXPECT"
    BY <1>4, <1>7, <2>5, ArgIs DEF Arg
  <2>7. Field("cmd", "GPIO_EXPECT") \in Range(call)
    BY <2>4, <2>5, <2>6 DEF IsCall, IsField, Range
  <2>8. {f \in Range(call) : f.key = "val"} # {}
    BY <2>4, <2>7, Zenon DEF IsCall
  <2>9. \E v : \A default : ValueOf(call, {"val"}, default) = v
    BY <2>8, Present
  <2> QED BY <2>3, <2>9 DEF Arg
<1>8. ASSUME NEW key \in {"frequency", "duty_cycle", "freq_tol_pct", "duty_tol_pp"}
      PROVE  command[key] = ValueOf(call, {key}, 0) /\ command[key] \in Int
  <2>1. key \in DOMAIN Blank /\ Blank[key] = 0
    <3>1. /\ Blank["frequency"] = 0 /\ Blank["duty_cycle"] = 0
          /\ Blank["freq_tol_pct"] = 0 /\ Blank["duty_tol_pp"] = 0
          /\ {"frequency", "duty_cycle", "freq_tol_pct", "duty_tol_pp"} \subseteq DOMAIN Blank
      BY DEF Blank
    <3> QED BY <3>1
  <2>2. key \notin {"cmd", "ch", "seq"} /\ key \in Numbers
    BY DEF Numbers, ArgNumbers
  <2>3. command[key] = ValueOf(call, {key}, 0)
    BY <1>2, <2>1, <2>2, Zenon
  <2> QED BY <2>2, <2>3, NumberIs
<1> QED BY <1>3, <1>4, <1>5, <1>6, <1>7, <1>8

-----------------------------------------------------------------------------
(* The answer *)

LEMMA KeyLengths ==
  /\ Len("freq_expected") = 13 /\ Len("duty_expected") = 13
  /\ Len("freq_measured") = 13 /\ Len("duty_measured") = 13
  /\ Len("freq_tol_pct") = 12 /\ Len("duty_tol_pp") = 11
  /\ Len("freq_set") = 8 /\ Len("duty_set") = 8
  /\ Len("expected") = 8 /\ Len("actual") = 6 /\ Len("val") = 3 /\ Len("rx") = 2
  /\ Len("PWM_MISMATCH") = 12
BY LengthAssumption, ZenonT(30) DEF Lengths

LEMMA NumberField ==
  ASSUME NEW key \in AnswerNumbers \cup {"val", "freq_tol_pct", "duty_tol_pp"},
         NEW val \in Int, NEW k \in Nat, 2 + Len(key) = k, Len(key) \in Nat
  PROVE  IsField(Field(key, val)) /\ Weight(Field(key, val)) <= k + Digits(val)
<1>1. key \in Numbers
  BY DEF Numbers, ArgNumbers
<1>2. IsField(Field(key, val)) /\ Weight(Field(key, val)) = 2 + Len(key) + Digits(val)
      /\ Digits(val) \in 1..11
  BY <1>1, WeightNumber
<1>3. \A x \in 1..11 : k + x <= k + x
  OBVIOUS
<1> QED BY <1>2, <1>3, Zenon

\* The numbers of answers.
LEMMA NumberFields ==
  ASSUME NEW val \in Int
  PROVE  LET Is(key, k) == IsField(Field(key, val)) /\ Weight(Field(key, val)) <= k + Digits(val)
         IN  /\ Is("freq_expected", 15) /\ Is("duty_expected", 15)
             /\ Is("freq_measured", 15) /\ Is("duty_measured", 15)
             /\ Is("freq_tol_pct", 14) /\ Is("duty_tol_pp", 13)
             /\ Is("freq_set", 10) /\ Is("duty_set", 10)
             /\ Is("expected", 10) /\ Is("actual", 8) /\ Is("val", 5)
<1> DEFINE Is(key, k) == IsField(Field(key, val)) /\ Weight(Field(key, val)) <= k + Digits(val)
           keys == {"freq_expected", "duty_expected", "freq_measured", "duty_measured", "freq_tol_pct",
                    "duty_tol_pp", "freq_set", "duty_set", "expected", "actual", "val"}
<1>1. ASSUME NEW key \in keys, NEW n \in Nat, Len(key) = n PROVE Is(key, 2 + n)
  <2>1. 2 + n \in Nat /\ 2 + Len(key) = 2 + n
    BY <1>1
  <2>2. key \in AnswerNumbers \cup {"val", "freq_tol_pct", "duty_tol_pp"}
    BY DEF AnswerNumbers
  <2> QED BY <1>1, <2>1, <2>2, NumberField
<1> HIDE DEF Is
<1>2. /\ 2 + 13 = 15 /\ 2 + 12 = 14 /\ 2 + 11 = 13 /\ 2 + 8 = 10 /\ 2 + 6 = 8 /\ 2 + 3 = 5
      /\ {13, 12, 11, 8, 6, 3} \subseteq Nat
  OBVIOUS
<1>3. Is("freq_expected", 15) /\ Is("duty_expected", 15)
  BY <1>1, <1>2, KeyLengths
<1>4. Is("freq_measured", 15) /\ Is("duty_measured", 15)
  BY <1>1, <1>2, KeyLengths
<1>5. Is("freq_tol_pct", 14) /\ Is("duty_tol_pp", 13)
  BY <1>1, <1>2, KeyLengths
<1>6. Is("freq_set", 10) /\ Is("duty_set", 10)
  BY <1>1, <1>2, KeyLengths
<1>7. Is("expected", 10) /\ Is("actual", 8) /\ Is("val", 5)
  BY <1>1, <1>2, KeyLengths
<1> QED BY <1>3, <1>4, <1>5, <1>6, <1>7 DEF Is

\* Whatever its command, an answer with one or two small numbers or a text fits.
LEMMA AnswerFits ==
  ASSUME Inv, pc = "answer", Fits, Arg("cmd") \in Names
  PROVE  Ended(Formatted(response, command.cmd))
<1> DEFINE a == Formatted(response, command.cmd)
           d == Details(response, command.cmd)
           s == Digits(seq)
<1>1. seq \in Nat /\ seq \in FirstSeq..(FirstSeq + MaxCalls - 1) /\ call \in Calls
      /\ command = Taken(seq, call)
  BY PathAssumption DEF Inv, Typed, Current
<1>2. /\ Usable(command) /\ command.seq = seq
      /\ \A key \in {"frequency", "duty_cycle", "freq_tol_pct", "duty_tol_pp"} :
           command[key] = ValueOf(call, {key}, 0) /\ command[key] \in Int
  BY <1>1, CommandWhole
<1>3. Found
  BY <1>2 DEF Inv, Outcome
<1>4. Framed(a, response, d) /\ IsText(d) /\ Detailed(d, response, command.cmd)
  BY FormattedIs, DetailsAre
<1>5. response.seq = seq /\ IsFrame(response, 17)
  <2>1. /\ response.seq = command.seq /\ response.status \in {"OK", "FAIL"}
        /\ response.status = "FAIL" => Len(response.err) \in 0..17
    BY <1>3, Zenon DEF Found
  <2> QED BY <1>1, <1>2, <2>1 DEF IsFrame
<1>6. s \in 1..11
  BY <1>1, DigitsType
<1>7. TextRoom + 60 <= AnswerRoom /\ 100 <= AnswerRoom /\ TextRoom \in Nat /\ AnswerRoom \in Nat
  BY AnswerAssumption, Room
<1> HIDE DEF a, d, s
<1>8. ASSUME NEW b \in Nat, NEW e \in Nat, IsFrame(response, e),
             \A i \in 1..Len(d) : IsField(d[i]), Ends(a)[Len(d) + 2] <= b,
             b + 7 + e <= AnswerRoom
      PROVE  Ended(a)
  <2>1. IsLine(a)
    BY <1>4, <1>8, FramedLine
  <2>2. LineSize(a) <= b + 5 + e
    BY <1>4, <1>8, <2>1, FramedSize
  <2>3. LineSize(a) \in Nat
    <3>1. Len(a) \in 0..Len(a)
      BY <2>1, Sequence DEF IsLine
    <3> QED BY <2>1, <3>1, EndsAre DEF LineSize
  <2> QED BY <1>7, <1>8, <2>2, <2>3 DEF Ended
\* The end of the first detail, and of the second.
<1>9. ASSUME \A i \in 1..Len(d) : IsField(d[i])
      PROVE  /\ IsLine(a) /\ Ends(a)[2] <= 20 + s
             /\ \A i \in 1..Len(d), b, w \in Nat :
                  Ends(a)[i + 1] <= b /\ Weight(d[i]) <= w => Ends(a)[i + 2] <= b + w
  <2>1. IsLine(a) /\ Ends(a)[2] <= 20 + s /\ Len(a) = Len(d) + (IF response.status = "OK" THEN 2 ELSE 3)
    BY <1>4, <1>5, <1>9, FramedLine DEF s
  <2>2. Len(d) \in Nat
    BY <1>4, LenIs
  <2>3. ASSUME NEW i \in 1..Len(d), NEW b \in Nat, NEW w \in Nat,
               Ends(a)[i + 1] <= b, Weight(d[i]) <= w
        PROVE  Ends(a)[i + 2] <= b + w
    <3> DEFINE k == i + 2
    <3>1. k \in 1..Len(a) /\ k - 1 = i + 1
      BY <2>1, <2>2
    <3>2. a[k] = d[i]
      BY <1>4 DEF Framed
    <3> HIDE DEF k
    <3>3. Ends(a)[k] <= b + w
      BY <2>1, <2>3, <3>1, <3>2, SizeStep
    <3> QED BY <3>3 DEF k
  <2> QED BY <2>1, <2>3
<1>10. CASE command.cmd = "PWM_READ_WITH_TOLERANCE"
  <2>1. /\ Len(d) = 6
        /\ d[1] = Field("freq_expected", response.freq_expected)
        /\ d[2] = Field("duty_expected", response.duty_expected)
        /\ d[3] = Field("freq_measured", response.freq_measured)
        /\ d[4] = Field("duty_measured", response.duty_measured)
        /\ d[5] = Field("freq_tol_pct", response.freq_tol_pct)
        /\ d[6] = Field("duty_tol_pp", response.duty_tol_pp)
    BY <1>4, <1>10 DEF Detailed
  <2>2. /\ response.freq_expected = command.frequency /\ response.duty_expected = command.duty_cycle
        /\ response.freq_tol_pct = command.freq_tol_pct
        /\ response.duty_tol_pp = command.duty_tol_pp
        /\ response.status = "FAIL" => response.err = "PWM_MISMATCH"
        /\ \E m \in Measures : response.freq_measured = m.freq /\ response.duty_measured = m.duty
    BY <1>3, <1>10 DEF Found
  <2>3. PICK m \in Measures : response.freq_measured = m.freq /\ response.duty_measured = m.duty
    BY <2>2
  <2>4. /\ command.frequency = ValueOf(call, {"frequency"}, 0) /\ command.frequency \in Int
        /\ command.duty_cycle = ValueOf(call, {"duty_cycle"}, 0) /\ command.duty_cycle \in Int
        /\ command.freq_tol_pct = ValueOf(call, {"freq_tol_pct"}, 0) /\ command.freq_tol_pct \in Int
        /\ command.duty_tol_pp = ValueOf(call, {"duty_tol_pp"}, 0) /\ command.duty_tol_pp \in Int
    BY <1>2
  <2>5. m.freq \in Int /\ m.duty \in Int
    BY PathAssumption
  <2> DEFINE n1 == Digits(command.frequency)
             n2 == Digits(command.duty_cycle)
             n3 == Digits(m.freq)
             n4 == Digits(m.duty)
             n5 == Digits(command.freq_tol_pct)
             n6 == Digits(command.duty_tol_pp)
  <2>6. 128 + s + n1 + n2 + n3 + n4 + n5 + n6 <= AnswerRoom
    BY <1>1, <2>4, AnswerAssumption, ZenonT(60) DEF s
  <2>7. /\ IsField(d[1]) /\ Weight(d[1]) <= 15 + n1 /\ n1 \in 1..11
        /\ IsField(d[2]) /\ Weight(d[2]) <= 15 + n2 /\ n2 \in 1..11
    BY <2>1, <2>2, <2>4, DigitsType, NumberFields, Zenon
  <2>8. /\ IsField(d[3]) /\ Weight(d[3]) <= 15 + n3 /\ n3 \in 1..11
        /\ IsField(d[4]) /\ Weight(d[4]) <= 15 + n4 /\ n4 \in 1..11
    BY <2>1, <2>3, <2>5, DigitsType, NumberFields, Zenon
  <2>9. /\ IsField(d[5]) /\ Weight(d[5]) <= 14 + n5 /\ n5 \in 1..11
        /\ IsField(d[6]) /\ Weight(d[6]) <= 13 + n6 /\ n6 \in 1..11
    BY <2>1, <2>2, <2>4, DigitsType, NumberFields, Zenon
  <2> HIDE DEF n1, n2, n3, n4, n5, n6
  <2>10. \A i \in 1..Len(d) : IsField(d[i])
    <3>1. \A i \in 1..6 : i = 1 \/ i = 2 \/ i = 3 \/ i = 4 \/ i = 5 \/ i = 6
      OBVIOUS
    <3> QED BY <2>1, <2>7, <2>8, <2>9, <3>1, Zenon
  <2>11. Ends(a)[3] <= 35 + s + n1
    BY <1>6, <1>9, <2>1, <2>7, <2>10
  <2>12. Ends(a)[4] <= 50 + s + n1 + n2
    BY <1>6, <1>9, <2>1, <2>7, <2>10, <2>11
  <2>13. Ends(a)[5] <= 65 + s + n1 + n2 + n3
    BY <1>6, <1>9, <2>1, <2>7, <2>8, <2>10, <2>12
  <2>14. Ends(a)[6] <= 80 + s + n1 + n2 + n3 + n4
    BY <1>6, <1>9, <2>1, <2>7, <2>8, <2>10, <2>13
  <2>15. Ends(a)[7] <= 94 + s + n1 + n2 + n3 + n4 + n5
    BY <1>6, <1>9, <2>1, <2>7, <2>8, <2>9, <2>10, <2>14
  <2> DEFINE size == 107 + s + n1 + n2 + n3 + n4 + n5 + n6
  <2>16. Ends(a)[8] <= size
    BY <1>6, <1>9, <2>1, <2>7, <2>8, <2>9, <2>10, <2>15
  <2>17. size \in Nat /\ size + 7 + 12 <= AnswerRoom /\ 12 \in Nat
    BY <1>6, <1>7, <2>6, <2>7, <2>8, <2>9
  <2>18. IsFrame(response, 12)
    <3>1. response.status = "FAIL" => Len(response.err) = 12
      BY <2>2, KeyLengths
    <3> QED BY <1>5, <3>1 DEF IsFrame
  <2>19. Len(d) + 2 = 8
    BY <2>1
  <2> HIDE DEF size
  <2>20. Ends(a)[Len(d) + 2] <= size
    BY <2>16, <2>19
  <2>21. \A b, e \in Nat : IsFrame(response, e) /\ (\A i \in 1..Len(d) : IsField(d[i]))
                             /\ Ends(a)[Len(d) + 2] <= b /\ b + 7 + e <= AnswerRoom => Ended(a)
    BY <1>8
  <2> QED BY <2>10, <2>17, <2>18, <2>20, <2>21, Zenon DEF a
<1>11. ASSUME \A i \in 1..Len(d) : IsField(d[i]),
              NEW b \in 20..65, Ends(a)[Len(d) + 2] <= b + s
       PROVE  Ended(a)
  <2> DEFINE c == b + s
  <2>1. c \in Nat /\ 17 \in Nat
    BY <1>6
  <2>2. c + 7 + 17 <= AnswerRoom
    BY <1>6, <1>7
  <2>3. Ends(a)[Len(d) + 2] <= c
    BY <1>11
  <2> HIDE DEF c
  <2> QED BY <1>5, <1>8, <1>11, <2>1, <2>2, <2>3, Zenon
\* One number, or two of them.
<1>12. ASSUME Len(d) \in {0, 1, 2}, NEW w1 \in 1..21, NEW w2 \in 0..21,
              Len(d) > 0 => IsField(d[1]) /\ Weight(d[1]) <= w1,
              Len(d) > 1 => IsField(d[2]) /\ Weight(d[2]) <= w2
       PROVE  Ended(a)
  <2>1. \A i \in 1..Len(d) : IsField(d[i])
    BY <1>12
  <2>2. CASE Len(d) = 0
    BY <1>6, <1>9, <1>11, <2>1, <2>2
  <2>3. CASE Len(d) = 1
    <3>1. Ends(a)[3] <= (20 + s) + w1
      BY <1>6, <1>9, <1>12, <2>1, <2>3
    <3>2. 20 + w1 \in 20..65 /\ (20 + s) + w1 = (20 + w1) + s
      BY <1>6
    <3> QED BY <1>11, <2>1, <2>3, <3>1, <3>2
  <2>4. CASE Len(d) = 2
    <3>1. Ends(a)[3] <= (20 + s) + w1
      BY <1>6, <1>9, <1>12, <2>1, <2>4
    <3>2. Ends(a)[4] <= ((20 + s) + w1) + w2
      BY <1>6, <1>9, <1>12, <2>1, <2>4, <3>1
    <3>3. 20 + w1 + w2 \in 20..65 /\ ((20 + s) + w1) + w2 = (20 + w1 + w2) + s
      BY <1>6
    <3> QED BY <1>11, <2>1, <2>4, <3>2, <3>3
  <2> QED BY <1>12, <2>2, <2>3, <2>4
<1>13. CASE command.cmd = "PWM_WRITE"
  <2>1. /\ Len(d) = 2 /\ d[1] = Field("freq_set", response.freq_expected)
        /\ d[2] = Field("duty_set", response.duty_expected)
    BY <1>4, <1>13 DEF Detailed
  <2>2. response.freq_expected = command.frequency /\ response.duty_expected = command.duty_cycle
    BY <1>3, <1>13 DEF Found
  <2>3. command.frequency \in Int /\ command.duty_cycle \in Int
    BY <1>2
  <2> DEFINE n1 == Digits(command.frequency)
             n2 == Digits(command.duty_cycle)
  <2>4. /\ IsField(d[1]) /\ Weight(d[1]) <= 10 + n1 /\ n1 \in 1..11
        /\ IsField(d[2]) /\ Weight(d[2]) <= 10 + n2 /\ n2 \in 1..11
    BY <2>1, <2>2, <2>3, DigitsType, NumberFields, Zenon
  <2> HIDE DEF n1, n2
  <2>5. 10 + n1 \in 1..21 /\ 10 + n2 \in 0..21 /\ Len(d) \in {0, 1, 2}
    BY <2>1, <2>4
  <2> QED BY <1>12, <2>4, <2>5 DEF a
<1>14. CASE command.cmd \notin {"PWM_READ_WITH_TOLERANCE", "PWM_WRITE"}
  <2>1. {response.val, response.expected, response.actual} \subseteq Int
    BY <1>3 DEF Found
  <2>2. \A val \in {response.val, response.expected, response.actual} : Digits(val) \in 1..11
    BY <2>1, DigitsType
  <2>3. CASE /\ Len(d) = 2 /\ d[1] = Field("expected", response.expected)
             /\ d[2] = Field("actual", response.actual)
    <3> DEFINE n1 == Digits(response.expected)
               n2 == Digits(response.actual)
    <3>1. /\ IsField(d[1]) /\ Weight(d[1]) <= 10 + n1 /\ n1 \in 1..11
          /\ IsField(d[2]) /\ Weight(d[2]) <= 8 + n2 /\ n2 \in 1..11
      BY <2>1, <2>2, <2>3, NumberFields, Zenon
    <3> HIDE DEF n1, n2
    <3>2. 10 + n1 \in 1..21 /\ 8 + n2 \in 0..21 /\ Len(d) \in {0, 1, 2}
      BY <2>3, <3>1
    <3> QED BY <1>12, <3>1, <3>2 DEF a
  <2>4. CASE Len(d) = 1 /\ d[1] = Field("val", response.val)
    <3> DEFINE n1 == Digits(response.val)
    <3>1. IsField(d[1]) /\ Weight(d[1]) <= 5 + n1 /\ n1 \in 1..11
      BY <2>1, <2>2, <2>4, NumberFields, Zenon
    <3> HIDE DEF n1
    <3>2. 5 + n1 \in 1..21 /\ Len(d) \in {0, 1, 2}
      BY <2>4, <3>1
    <3> QED BY <1>12, <2>4, <3>1, <3>2 DEF a
  <2>5. CASE Len(d) = 1 /\ d[1] = Field("rx", response.rx)
    <3>1. Len(response.rx) \in 0..TextRoom
      BY DEF Inv, Typed, TypeOK
    <3>2. Len(response.rx) \in Nat /\ "rx" \in {"status", "err", "rx"}
      BY <3>1, Room
    <3> DEFINE w == 2 + 2 + Len(response.rx)
    <3>3. IsField(d[1]) /\ Weight(d[1]) = w
      BY <2>5, <3>2, KeyLengths, WeightName, Zenon
    <3>4. \A i \in 1..Len(d) : IsField(d[i])
      BY <2>5, <3>3
    <3>5. w \in Nat /\ w <= 4 + TextRoom
      BY <3>1, Room
    <3> HIDE DEF w
    <3>6. Ends(a)[3] <= (20 + s) + w
      BY <1>6, <1>9, <2>5, <3>3, <3>4, <3>5
    <3> DEFINE size == (20 + s) + w
    <3>7. size \in Nat /\ 17 \in Nat
      BY <1>6, <3>5
    <3>8. size + 7 + 17 <= AnswerRoom
      BY <1>6, <1>7, <3>5
    <3>9. Ends(a)[Len(d) + 2] <= size
      BY <2>5, <3>6, SMTT(30)
    <3> HIDE DEF size
    <3> QED BY <1>5, <1>8, <3>4, <3>7, <3>8, <3>9, Zenon DEF a
  <2>6. CASE Len(d) = 0
    BY <1>12, <2>6 DEF a
  <2> QED BY <1>4, <1>14, <2>3, <2>4, <2>5, <2>6 DEF Detailed
<1> QED BY <1>10, <1>13, <1>14

\* The last field with one of the keys.
LastAt(fields, n, keys, i) ==
  /\ n \in Nat /\ DOMAIN fields = 1..n /\ i \in 1..n
  /\ fields[i].key \in keys /\ \A j \in (i + 1)..n : fields[j].key \notin keys

LEMMA ValueLast ==
  ASSUME NEW fields, NEW n, NEW keys, NEW default, NEW i, LastAt(fields, n, keys, i)
  PROVE  ValueOf(fields, keys, default) = fields[i].val
BY ValueAt DEF LastAt

\* What is read of an answer.
LEMMA StatusIs ==
  ASSUME NEW r, NEW cmd, NEW default
  PROVE  ValueOf(Formatted(r, cmd), {"status"}, default) = r.status
<1> DEFINE a == Formatted(r, cmd)
           d == Details(r, cmd)
           keys == {"status"}
<1>1. Framed(a, r, d) /\ IsText(d) /\ \A i \in 1..Len(d) : d[i].key \notin {"seq", "status", "err"}
  BY FormattedIs, DetailsAre
<1> HIDE DEF a, d
<1>2. Len(d) \in Nat /\ Len(a) \in Nat /\ DOMAIN a = 1..Len(a)
  BY <1>1, LenIs DEF Framed
<1>3. PICK i \in 1..Len(a) : i = 2 /\ a[i].key = "status" /\ a[i].val = r.status
  BY <1>1, <1>2 DEF Framed, Field
<1>4. ASSUME NEW j \in (i + 1)..Len(a) PROVE a[j].key \notin keys
  <2>1. CASE j - 2 \in 1..Len(d)
    <3>1. a[(j - 2) + 2] = d[j - 2] /\ (j - 2) + 2 = j
      BY <1>1, <2>1 DEF Framed
    <3> QED BY <1>1, <2>1, <3>1
  <2>2. CASE ~(j - 2 \in 1..Len(d))
    <3>1. j = Len(d) + 3 /\ r.status # "OK"
      BY <1>1, <1>2, <1>3, <2>2 DEF Framed
    <3> QED BY <1>1, <3>1 DEF Framed, Field
  <2> QED BY <2>1, <2>2
<1>5. a[i].key \in keys
  BY <1>3
<1> HIDE DEF keys
<1>6. ValueOf(a, keys, default) = a[i].val
  <2> DEFINE m == Len(a)
  <2>1. m \in Nat /\ DOMAIN a = 1..m /\ i \in 1..m
    BY <1>2, <1>3, <1>4
  <2>2. \A j \in (i + 1)..m : a[j].key \notin keys
    BY <1>2, <1>4
  <2> HIDE DEF m
  <2>3. LastAt(a, m, keys, i)
    BY <1>5, <2>1, <2>2 DEF LastAt
  <2> QED BY <2>3, ValueLast, Zenon
<1> QED BY <1>3, <1>6 DEF keys, a

\* The host reads a detail of an answer unless another one with its key follows.
LEMMA DetailIs ==
  ASSUME NEW r, NEW cmd, NEW i \in 1..Len(Details(r, cmd)), NEW default,
         \A j \in (i + 1)..Len(Details(r, cmd)) : Details(r, cmd)[j].key # Details(r, cmd)[i].key
  PROVE  ValueOf(Formatted(r, cmd), {Details(r, cmd)[i].key}, default) = Details(r, cmd)[i].val
<1> DEFINE a == Formatted(r, cmd)
           d == Details(r, cmd)
           keys == {d[i].key}
<1>1. Framed(a, r, d) /\ IsText(d) /\ \A j \in 1..Len(d) : d[j].key \notin {"seq", "status", "err"}
  BY FormattedIs, DetailsAre
<1>2. \A j \in (i + 1)..Len(d) : d[j].key # d[i].key
  OBVIOUS
<1> HIDE DEF a, d
<1>3. Len(d) \in Nat /\ Len(a) \in Nat /\ DOMAIN a = 1..Len(a) /\ i \in 1..Len(d)
  BY <1>1, LenIs DEF Framed, d
<1> DEFINE k == i + 2
<1>4. k \in 1..Len(a) /\ a[k] = d[i] /\ k = i + 2
  BY <1>1, <1>3 DEF Framed
<1> HIDE DEF k
<1>5. ASSUME NEW j \in (k + 1)..Len(a) PROVE a[j].key \notin keys
  <2>1. CASE j - 2 \in 1..Len(d)
    <3>1. a[(j - 2) + 2] = d[j - 2] /\ (j - 2) + 2 = j
      BY <1>1, <2>1 DEF Framed
    <3>2. j - 2 \in (i + 1)..Len(d)
      BY <1>3, <1>4, <2>1
    <3> QED BY <1>2, <3>1, <3>2
  <2>2. CASE ~(j - 2 \in 1..Len(d))
    <3>1. j = Len(d) + 3 /\ r.status # "OK"
      BY <1>1, <1>3, <1>4, <2>2 DEF Framed
    <3>2. a[j].key = "err" /\ d[i].key # "err"
      BY <1>1, <1>3, <3>1 DEF Framed, Field
    <3> QED BY <3>2
  <2> QED BY <2>1, <2>2
<1>6. a[k].key \in keys
  BY <1>4
<1> HIDE DEF keys
<1>7. ValueOf(a, keys, default) = a[k].val
  <2> DEFINE m == Len(a)
  <2>1. m \in Nat /\ DOMAIN a = 1..m /\ k \in 1..m
    BY <1>2, <1>3, <1>4
  <2>2. \A j \in (k + 1)..m : a[j].key \notin keys
    BY <1>3, <1>4, <1>5
  <2> HIDE DEF m
  <2>3. LastAt(a, m, keys, k)
    BY <1>6, <2>1, <2>2 DEF LastAt
  <2> QED BY <2>3, ValueLast, Zenon
<1> QED BY <1>4, <1>7 DEF keys, a, d

\* What the keyword requires is a matter of the response.
LEMMA MeetsIs ==
  ASSUME command.cmd = Arg("cmd"), Found
  PROVE  LET answer == Formatted(response, command.cmd)
         IN  /\ Arg("cmd") = "GPIO_EXPECT" =>
                  (Meets(answer) <=> response.expected = Arg("val") /\ response.actual = Arg("val"))
             /\ Arg("cmd") \in {"UART_SEND_EXPECT", "SPI_SEND_EXPECT"} =>
                  (Meets(answer) <=> Begins(response.rx, Arg("expect")))
             /\ Arg("cmd") \notin {"GPIO_EXPECT", "UART_SEND_EXPECT", "SPI_SEND_EXPECT"} => Meets(answer)
<1> DEFINE a == Formatted(response, command.cmd)
           d == Details(response, command.cmd)
<1>1. IsText(d) /\ Detailed(d, response, command.cmd)
  BY DetailsAre
<1>2. ASSUME NEW i \in 1..Len(d), \A j \in (i + 1)..Len(d) : d[j].key # d[i].key
      PROVE  ValueOf(a, {d[i].key}, <<>>) = d[i].val
  BY <1>2, DetailIs
<1> HIDE DEF a, d
<1>3. CASE Arg("cmd") = "GPIO_EXPECT"
  <2>1. Len(d) = 2 /\ d[1] = Field("expected", response.expected) /\ d[2] = Field("actual", response.actual)
    BY <1>1, <1>3 DEF Detailed, Found
  <2>2. /\ d[1].key = "expected" /\ d[1].val = response.expected
        /\ d[2].key = "actual" /\ d[2].val = response.actual
    BY <2>1 DEF Field
  <2>3. \A i \in 1..Len(d) : \A j \in (i + 1)..Len(d) : d[j].key # d[i].key
    BY <2>1, <2>2
  <2>4. 1 \in 1..Len(d) /\ 2 \in 1..Len(d)
    BY <2>1
  <2>5. ValueOf(a, {d[1].key}, <<>>) = d[1].val /\ ValueOf(a, {d[2].key}, <<>>) = d[2].val
    BY <1>2, <2>3, <2>4, Zenon
  <2>6. /\ ValueOf(a, {"expected"}, <<>>) = response.expected
        /\ ValueOf(a, {"actual"}, <<>>) = response.actual
    BY <2>2, <2>5, Zenon
  <2>7. Meets(a) <=> /\ ValueOf(a, {"expected"}, <<>>) = Arg("val")
                     /\ ValueOf(a, {"actual"}, <<>>) = Arg("val")
    BY <1>3 DEF Meets
  <2> QED BY <1>3, <2>6, <2>7 DEF a
<1>4. CASE Arg("cmd") \in {"UART_SEND_EXPECT", "SPI_SEND_EXPECT"}
  <2>1. response.has_rx /\ ~response.has_expected_actual /\ ~response.has_val
    BY <1>4, Zenon DEF Found, FoundText
  <2>2. Len(d) = 1 /\ d[1] = Field("rx", response.rx)
    BY <1>1, <1>4, <2>1 DEF Detailed
  <2>3. d[1].key = "rx" /\ d[1].val = response.rx
    BY <2>2 DEF Field
  <2>4. 1 \in 1..Len(d) /\ \A i \in 1..Len(d) : \A j \in (i + 1)..Len(d) : d[j].key # d[i].key
    BY <2>2
  <2>5. ValueOf(a, {d[1].key}, <<>>) = d[1].val
    BY <1>2, <2>4, Zenon
  <2>6. ValueOf(a, {"rx"}, <<>>) = response.rx
    BY <2>3, <2>5, Zenon
  <2>7. Meets(a) <=> Begins(ValueOf(a, {"rx"}, <<>>), Arg("expect"))
    BY <1>4 DEF Meets
  <2> QED BY <1>4, <2>6, <2>7 DEF a
<1>5. CASE Arg("cmd") \notin {"GPIO_EXPECT", "UART_SEND_EXPECT", "SPI_SEND_EXPECT"}
  BY <1>5 DEF Meets
<1> QED BY <1>3, <1>4, <1>5 DEF a

LEMMA ExpectIs ==
  ASSUME NEW c \in Calls
  PROVE  Nul \notin Range(ValueOf(c, {"expect"}, <<>>))
<1>1. CASE \E i \in DOMAIN c : c[i].key = "expect"
  <2>1. PICK i \in DOMAIN c : c[i].key = "expect"
    BY <1>1
  <2>2. ValueOf(c, {"expect"}, <<>>) = c[i].val
    BY <2>1, ArgIs
  <2>3. c[i] \in {f \in Range(c) : f.key = "expect"}
    BY <2>1 DEF Range
  <2>4. Nul \notin Range(c[i].val)
    BY <2>3, PathAssumption, Zenon DEF IsCall
  <2> QED BY <2>2, <2>4
<1>2. CASE \A i \in DOMAIN c : c[i].key # "expect"
  <2>1. ValueOf(c, {"expect"}, <<>>) = <<>>
    BY <1>2, ValueNone
  <2> QED BY <2>1 DEF Range
<1> QED BY <1>1, <1>2

LEMMA BeginsIs ==
  ASSUME NEW s, NEW t, IsText(s), IsText(t)
  PROVE  Begins(t, s) <=> Begin(s, t)
BY PrefixIs DEF Begins

\* Nobody passes unless it is right.
LEMMA RightGiven ==
  ASSUME Inv, pc = "answer", Usable(command), response.status = "OK",
         Meets(Formatted(response, command.cmd))
  PROVE  Right
<1> DEFINE expect == Arg("expect")
           text   == shown.text
<1>1. Found /\ shown.ok
  BY DEF Inv, Outcome, Found
<1>2. /\ command.cmd = Arg("cmd") /\ IsText(command.expect)
      /\ IsText(expect) /\ Begin(command.expect, expect)
  BY CommandHere
<1>3. IsText(text)
  BY DEF Inv, Typed
<1> HIDE DEF expect, text
<1>4. CASE Arg("cmd") = "SPI_SEND_EXPECT"
  <2>1. Begins(response.rx, expect) /\ response.rx = KeptText(Text(text))
    BY <1>1, <1>2, <1>4, MeetsIs DEF Found, FoundText, expect, text
  <2>2. IsText(Text(text)) /\ Begin(Text(text), text)
    BY <1>3, TextIs
  <2>3. IsText(KeptText(Text(text))) /\ Begin(KeptText(Text(text)), Text(text))
    BY <2>2, KeptIs
  <2>4. Begin(expect, KeptText(Text(text)))
    BY <1>2, <2>1, <2>3, BeginsIs
  <2>5. Begin(expect, text)
    BY <1>2, <1>3, <2>2, <2>3, <2>4, BeginOf
  <2>6. Begins(text, expect)
    BY <1>2, <1>3, <2>5, BeginsIs
  <2> QED BY <1>1, <1>4, <2>6 DEF Right, expect, text
<1>5. CASE Arg("cmd") = "UART_SEND_EXPECT"
  <2> DEFINE read == UartRead(text)
  <2>1. Begins(response.rx, expect) /\ response.rx = KeptText(read) /\ read = command.expect
    BY <1>1, <1>2, <1>5, MeetsIs DEF Found, FoundText, expect, text
  <2>2. IsText(read)
    BY <1>3, UartReadIs
  <2> HIDE DEF read
  <2>3. IsText(KeptText(read)) /\ Begin(KeptText(read), read)
    BY <2>2, KeptIs
  <2>4. Begin(expect, KeptText(read))
    BY <1>2, <2>1, <2>3, BeginsIs
  <2>5. Begin(expect, read)
    BY <1>2, <2>2, <2>3, <2>4, BeginOf
  <2>6. read = expect
    BY <1>2, <2>1, <2>2, <2>5, BeginBoth
  <2> QED BY <1>1, <1>5, <2>6 DEF Right, expect, text, read
<1>6. CASE Arg("cmd") \notin {"SPI_SEND_EXPECT", "UART_SEND_EXPECT"}
  BY <1>1, <1>6 DEF Right
<1> QED BY <1>4, <1>5, <1>6

\* Nobody who is right fails if its line fits.
LEMMA PassGiven ==
  ASSUME Inv, pc = "answer", Fits, Arg("cmd") \in Names, Right
  PROVE  response.status = "OK" /\ Meets(Formatted(response, command.cmd))
<1> DEFINE expect == Arg("expect")
           text   == shown.text
<1>1. seq \in Nat /\ call \in Calls /\ command = Taken(seq, call)
  BY PathAssumption DEF Inv, Typed, Current
<1>2. /\ Usable(command) /\ command.cmd = Arg("cmd") /\ command.expect = expect
      /\ command.cmd = "GPIO_EXPECT" => command.val = Arg("val")
  BY <1>1, CommandWhole
<1>3. Found /\ shown.ok
  BY <1>2 DEF Inv, Outcome, Right
<1>4. IsText(text) /\ IsText(expect) /\ Len(expect) \in 0..TextRoom
  BY <1>2, CommandHere DEF Inv, Typed
<1> HIDE DEF expect, text
<1>5. CASE Arg("cmd") = "SPI_SEND_EXPECT"
  <2>1. Begins(text, expect)
    BY <1>5 DEF Right, expect, text
  <2>2. Begin(expect, text)
    BY <1>4, <2>1, BeginsIs
  <2>3. Nul \notin Range(expect)
    BY <1>1, ExpectIs DEF expect, Arg
  <2>4. IsText(Text(text)) /\ Begin(expect, Text(text))
    BY <1>4, <2>2, <2>3, TextIs
  <2>5. IsText(KeptText(Text(text))) /\ Begin(expect, KeptText(Text(text)))
    BY <1>4, <2>4, KeptIs
  <2>6. Begins(Text(text), expect) /\ Begins(KeptText(Text(text)), expect)
    BY <1>4, <2>4, <2>5, BeginsIs
  <2>7. /\ response.rx = KeptText(Text(text))
        /\ response.status = "OK" <=> Begins(Text(text), expect)
    BY <1>2, <1>3, <1>5 DEF Found, FoundText, text
  <2> QED BY <1>2, <1>3, <1>5, <2>6, <2>7, MeetsIs DEF expect
<1>6. CASE Arg("cmd") = "UART_SEND_EXPECT"
  <2> DEFINE read == UartRead(text)
  <2>1. read = expect
    BY <1>6 DEF Right, expect, text
  <2>2. IsText(read)
    BY <1>4, UartReadIs
  <2>3. response.rx = KeptText(read) /\ (response.status = "OK" <=> read = command.expect)
    BY <1>2, <1>3, <1>6 DEF Found, FoundText, text
  <2> HIDE DEF read
  <2>4. KeptText(read) = read
    BY <1>4, <2>1, <2>2, Room, CutIs DEF KeptText
  <2>5. Begins(read, expect)
    <3>1. Begin(expect, read)
      <4>1. Len(expect) \in Nat
        BY <1>4, LenIs
      <4> QED BY <2>1, <4>1 DEF Begin
    <3> QED BY <1>4, <2>2, <3>1, BeginsIs
  <2>6. response.rx = read /\ response.status = "OK"
    BY <1>2, <2>1, <2>3, <2>4
  <2> QED BY <1>2, <1>3, <1>6, <2>5, <2>6, MeetsIs DEF expect
<1>7. CASE Arg("cmd") \notin {"SPI_SEND_EXPECT", "UART_SEND_EXPECT"}
  <2>1. response.status = "OK"
    BY <1>2, <1>3, <1>7 DEF Found
  <2>2. Arg("cmd") = "GPIO_EXPECT" => response.expected = Arg("val") /\ response.actual = Arg("val")
    BY <1>2, <1>3 DEF Found
  <2> QED BY <1>2, <1>3, <1>7, <2>1, <2>2, MeetsIs
<1> QED BY <1>5, <1>6, <1>7

LEMMA AnswerInv ==
  ASSUME Inv, Answer
  PROVE  Inv'
<1> DEFINE a == Formatted(response, command.cmd)
<1>1. /\ pc = "answer" /\ pc' = "host" /\ UNCHANGED <<host, board, dut2>>
      /\ verdict' = IF ~Ended(a) \/ response.seq # seq THEN "none"
                    ELSE IF ValueOf(a, {"status"}, "") = "OK" /\ Meets(a) THEN "pass"
                    ELSE "fail"
  BY DEF Answer
<1>2. seq \in Nat /\ call \in Calls /\ command = Taken(seq, call)
  <2>1. pc = "answer"
    BY <1>1
  <2> QED BY <2>1, PathAssumption DEF Inv, Typed, Current
<1>3. ValueOf(a, {"status"}, "") = response.status
  BY StatusIs
<1> HIDE DEF a
<1>4. verdict' \in {"pass", "fail", "none"}
  BY <1>1
<1>5. Typed'
  BY <1>1, <1>4 DEF Inv, Typed, TypeOK, host, board, dut2
<1>6. Current' /\ Outcome' /\ Phase' /\ AnswerInStep'
  BY <1>1 DEF Inv, Current, Outcome, Phase, Sofar, AnswerInStep, host, board, dut2, Arg
<1>7. ASSUME verdict' = "pass" PROVE Right
  <2>1. Ended(a) /\ response.seq = seq /\ response.status = "OK" /\ Meets(a)
    BY <1>1, <1>3, <1>7
  <2>2. Usable(command)
    <3> SUFFICES ASSUME ~Usable(command) PROVE FALSE
      OBVIOUS
    <3>1. response = FailResponse(-1, "PARSE_ERROR")
      BY <1>1 DEF Inv, Outcome, Refused
    <3>2. response.seq = -1
      BY <3>1 DEF FailResponse, OkResponse, NoResponse
    <3> QED BY <1>2, <2>1, <3>2
  <2> QED BY <1>1, <2>1, <2>2, RightGiven DEF a
<1>8. ASSUME Fits, Arg("cmd") \in Names PROVE verdict' = IF Right THEN "pass" ELSE "fail"
  <2>1. Ended(a)
    BY <1>1, <1>8, AnswerFits DEF a
  <2>2. response.seq = seq
    <3>1. Usable(command) /\ command.seq = seq
      BY <1>2, <1>8, CommandWhole
    <3> QED BY <1>1, <3>1 DEF Inv, Outcome, Found
  <2>3. CASE Right
    <3>1. response.status = "OK" /\ Meets(a)
      BY <1>1, <1>8, <2>3, PassGiven DEF a
    <3> QED BY <1>1, <1>3, <2>1, <2>2, <2>3, <3>1
  <2>4. CASE ~Right
    BY <1>1, <1>7, <2>1, <2>2, <2>4
  <2> QED BY <2>3, <2>4
<1>9. (Fits' <=> Fits) /\ (Right' <=> Right) /\ Arg("cmd")' = Arg("cmd")
  BY <1>1 DEF Fits, Right, Line, Arg, host, board
<1>10. VerdictIsTrue'
  BY <1>7, <1>8, <1>9 DEF VerdictIsTrue
<1> QED BY <1>5, <1>6, <1>10 DEF Inv

-----------------------------------------------------------------------------
(* The theorems *)

LEMMA InvStep ==
  ASSUME Inv, [Next]_vars
  PROVE  Inv'
<1>1. CASE \E c \in Calls : Send(c)
  BY <1>1, SendInv
<1>2. CASE ReadLine
  BY <1>2, ReadLineInv
<1>3. CASE Execute
  BY <1>3, ExecuteWriteInv, ExecuteGpioReadInv, ExecuteGpioExpectInv, ExecuteUartReadInv,
     ExecuteUartSendExpectInv, ExecutePwmWriteInv, ExecutePwmReadInv, ExecuteSpiSendExpectInv,
     ExecuteSpiFailsInv DEF Execute
<1>4. CASE Answer
  BY <1>4, AnswerInv
<1>5. CASE Arm
  BY <1>5, ArmInv
<1>6. CASE UNCHANGED vars
  BY <1>6 DEF vars, host, board, dut2, Inv, Typed, TypeOK, Current, Outcome, Found, FoundText,
              Refused, Phase, Sofar, AnswerInStep, VerdictIsTrue, Fits, Right, Line, Arg
<1> QED BY <1>1, <1>2, <1>3, <1>4, <1>5, <1>6 DEF Next

\* What main() executes and answers is, at every step, what this call asked for
\* (main.c:161-192).
THEOREM Invariance == Spec => []Inv
<1>1. Inv /\ [Next]_vars => Inv'
  BY InvStep
<1> QED BY <1>1, InitInv, PTL DEF Spec

\* A command, its texts and the text of a response keep within their arrays of main()
\* (main.c:119-165), and DUT2 never has more to send than its transfer.
THEOREM TypeCorrect == Spec => []TypeOK
<1>1. Inv => TypeOK
  BY DEF Inv, Typed
<1> QED BY <1>1, Invariance, PTL

\* Of a line that fits, the executor gets every value as the keyword wrote it and the
\* defaults for the rest, whatever the command before had (ztb_protocol.c:58-125).
THEOREM ParsedRight == Spec => []ParsedAsWritten
<1>1. Inv => ParsedAsWritten
  <2> SUFFICES ASSUME Inv, pc = "exec", Fits, NEW key \in DOMAIN Blank
               PROVE  command[key] = ValueOf(Line, KeysOf(key), Blank[key])
    BY DEF ParsedAsWritten, KeysOf
  <2> DEFINE said == ValueOf(LineOf(seq, call), KeysOf(key), Blank[key])
  <2>1. command = Taken(seq, call) /\ Usable(command) /\ seq \in Nat /\ call \in Calls
    BY CommandHere DEF Inv, Current
  <2>2. command[key] = IF key = "cmd" /\ said \notin Names THEN "UNKNOWN" ELSE said
    BY <2>1, FitsIs, TakenWhole
  <2>3. ~(key = "cmd" /\ said \notin Names)
    BY <2>1, <2>2 DEF Usable
  <2> QED BY <2>2, <2>3, LineHere
<1> QED BY <1>1, Invariance, PTL

\* However the master divides DUT2's answers into transfers, as long as DUT2 had
\* begun and none goes beyond the end of an answer, each brings what comes next of
\* it (spi_slave.c:25-49).  The invariant behind it is Phase: what the master has
\* taken over all earlier transfers and what DUT2 has left make up one answer.
THEOREM InStep == Spec => []AnswerInStep
<1>1. Inv => AnswerInStep
  BY DEF Inv
<1> QED BY <1>1, Invariance, PTL

\* No keyword passes unless the DUT did what was expected of it, however its line
\* was cut and whatever was on the stack; and if its line fits, it gets an answer
\* and the true verdict (test_executor.c:34-170; ztb_protocol.c:58-330).  Of a line
\* that a DUT sends over UART, what it did is what uart_read_line has room for.
THEOREM VerdictRight == Spec => []VerdictIsTrue
<1>1. Inv => VerdictIsTrue
  BY DEF Inv
<1> QED BY <1>1, Invariance, PTL
=============================================================================
