------------------------------ MODULE CrcProofs -----------------------------
(***************************************************************************)
(* The table-driven checksum is the remainder of a polynomial division, for *)
(* every input.  A word of crc_calc() is 32 shifts ahead of the remainder:  *)
(* shifts are linear, a byte brought in from below comes to the top after   *)
(* 24 of them, and there it selects the table entry, its next eight shifts. *)
(* What the recursive functions compute follows by induction over the       *)
(* naturals, got from their being well-founded.                             *)
(***************************************************************************)
EXTENDS Crc, WellFoundedInduction, TLAPS

-----------------------------------------------------------------------------
(* Induction and recursion.                                                *)

\* Induction over the naturals, for the members of a set.
LEMMA SetInduction ==
  ASSUME NEW S, 0 \in S, \A n \in Nat : n \in S => n + 1 \in S
  PROVE  Nat \subseteq S
<1> DEFINE T == Nat \ S
<1> SUFFICES ASSUME T # {} PROVE FALSE
  OBVIOUS
<1>1. PICK x \in T : \A y \in T : ~ (<<y, x>> \in OpToRel(<, Nat))
  <2>1. T \subseteq Nat
    OBVIOUS
  <2> HIDE DEF T
  <2> QED BY <2>1, NatLessThanWellFounded, WFMin, Zenon
<1>2. \A y \in T : ~ (y < x)
  BY <1>1 DEF OpToRel
<1>3. x # 0 /\ x - 1 \in Nat /\ x - 1 < x
  OBVIOUS
<1> QED BY <1>2, <1>3

\* f is defined by recursion up to N: its value at x is got from an earlier one.
Recursion(f, T, N, base, prev, step) ==
  /\ f \in [0 .. N -> T] /\ f[0] = base
  /\ \A x \in 1 .. N : f[x] = step[x][f[prev[x]]]

\* There are such functions.
LEMMA RecursionExists ==
  ASSUME NEW T, NEW base \in T, NEW N \in Nat,
         NEW prev \in [1 .. N -> Nat], \A x \in 1 .. N : prev[x] < x,
         NEW step \in [1 .. N -> [T -> T]]
  PROVE  \E f : Recursion(f, T, N, base, prev, step)
<1> DEFINE Upto(n) == \E f \in [0 .. n -> T] :
                        f[0] = base /\ \A x \in 1 .. n : f[x] = step[x][f[prev[x]]]
           S == {n \in Nat : n <= N => Upto(n)}
<1>1. Upto(0)
  <2> DEFINE g == [x \in 0 .. 0 |-> base]
  <2>1. g \in [0 .. 0 -> T] /\ g[0] = base /\ \A x \in 1 .. 0 : FALSE
    OBVIOUS
  <2> HIDE DEF g
  <2>2. \A x \in 1 .. 0 : g[x] = step[x][g[prev[x]]]
    BY <2>1
  <2> QED BY <2>1, <2>2
<1>2. ASSUME NEW n \in Nat, n + 1 <= N, Upto(n)
      PROVE  Upto(n + 1)
  <2>1. PICK f \in [0 .. n -> T] :
               f[0] = base /\ \A x \in 1 .. n : f[x] = step[x][f[prev[x]]]
    BY <1>2
  <2> DEFINE g == [x \in 0 .. n + 1 |-> IF x <= n THEN f[x]
                                                  ELSE step[n + 1][f[prev[n + 1]]]]
  <2>2. n + 1 \in 1 .. N /\ prev[n + 1] \in 0 .. n
    BY <1>2
  <2>3. g \in [0 .. n + 1 -> T]
    BY <2>1, <2>2
  <2>4. ASSUME NEW x \in 1 .. n + 1
        PROVE  g[x] = step[x][g[prev[x]]]
    <3>1. x \in 1 .. N /\ prev[x] \in Nat /\ prev[x] < x
      BY <1>2
    <3>2. prev[x] \in 0 .. n /\ g[prev[x]] = f[prev[x]]
      BY <3>1
    <3> QED BY <2>1, <2>2, <3>1, <3>2
  <2>5. g[0] = base
    BY <2>1
  <2> HIDE DEF g
  <2> QED BY <2>3, <2>4, <2>5
<1> HIDE DEF Upto
<1>3. 0 \in S
  BY <1>1
<1>4. \A n \in Nat : n \in S => n + 1 \in S
  BY <1>2
<1>5. Nat \subseteq S
  <2> HIDE DEF S
  <2> QED BY <1>3, <1>4, SetInduction
<1>6. Upto(N)
  BY <1>5
<1> QED BY <1>6 DEF Upto, Recursion

-----------------------------------------------------------------------------
(* Words: shifts and ^ bit by bit.                                         *)

\* A word is known by its bits.
LEMMA SameBits ==
  ASSUME NEW a \in Word, NEW b \in Word,
         \A i \in 0 .. CRCBITS - 1 : i \in a <=> i \in b
  PROVE  a = b
  BY DEF Word

\* ^ takes the bits that are in one of two words.
LEMMA XorBits ==
  ASSUME NEW a, NEW b
  PROVE  /\ Xor(a, b) \in Word
         /\ \A i \in 0 .. CRCBITS - 1 : i \in Xor(a, b) <=> ~ (i \in a <=> i \in b)
  BY DEF Xor, Word

\* << n moves every bit up by n, and drops those past the top.
LEMMA ShlBits ==
  ASSUME NEW a \in Word, NEW n \in Nat
  PROVE  /\ Shl(a, n) \in Word
         /\ \A i \in 0 .. CRCBITS - 1 : i \in Shl(a, n) <=> i >= n /\ i - n \in a
<1>1. Shl(a, n) \in Word
  BY DEF Shl, Word, CRCBITS
<1>2. ASSUME NEW i \in 0 .. CRCBITS - 1, i >= n, i - n \in a
      PROVE  i \in Shl(a, n)
  <2>1. i - n \in {j \in a : j + n < CRCBITS} /\ (i - n) + n = i
    BY <1>2 DEF CRCBITS
  <2> QED BY <2>1 DEF Shl
<1>3. ASSUME NEW i \in Shl(a, n)
      PROVE  i >= n /\ i - n \in a
  BY <1>3 DEF Shl, Word, CRCBITS
<1> QED BY <1>1, <1>2, <1>3

\* The divisor is a word.
LEMMA PolyType == poly \in Word
  BY DEF poly, Word, CRCBITS

\* crc_init() shifts a word as the division does with a zero bit.
LEMMA PushBits ==
  ASSUME NEW a \in Word
  PROVE  /\ Push(a) \in Word
         /\ \A i \in 0 .. CRCBITS - 1 :
              i \in Push(a) <=> ~ ((i >= 1 /\ i - 1 \in a) <=> (CRCBITS - 1 \in a /\ i \in poly))
  BY ShlBits, XorBits DEF Push

\* A step of the division is a shift like crc_init()'s, with a bit added below.
LEMMA BringBits ==
  ASSUME NEW a \in Word, NEW bit \in {{}, {0}}
  PROVE  Bring[a][bit] = Xor(Push(a), bit) /\ Bring[a][bit] \in Word
<1>1. Bring[a][bit] = Xor(Shl(a, 1) \union bit, IF CRCBITS - 1 \in a THEN poly ELSE {})
  BY DEF Bring
<1>2. Bring[a][bit] \in Word /\ Xor(Push(a), bit) \in Word
  BY <1>1, XorBits
<1>3. ASSUME NEW i \in 0 .. CRCBITS - 1
      PROVE  i \in Bring[a][bit] <=> i \in Xor(Push(a), bit)
  <2>1. i \in bit => i = 0
    OBVIOUS
  <2>2. i \in Shl(a, 1) <=> i >= 1 /\ i - 1 \in a
    BY ShlBits
  <2> QED BY <1>1, <2>1, <2>2, PushBits, XorBits
<1> QED BY <1>2, <1>3, SameBits

\* ^ commutes and associates, and 0 changes nothing.
LEMMA XorIsWord ==
  ASSUME NEW a \in Word, NEW b \in Word, NEW c \in Word
  PROVE  /\ Xor(a, b) = Xor(b, a) /\ Xor(a, {}) = a
         /\ Xor(Xor(a, b), c) = Xor(a, Xor(b, c))
<1>1. {} \in Word
  BY DEF Word
<1>2. Xor(a, b) = Xor(b, a)
  BY XorBits, SameBits
<1>3. Xor(a, {}) = a
  BY <1>1, XorBits, SameBits
<1>4. Xor(Xor(a, b), c) = Xor(a, Xor(b, c))
  <2>1. ASSUME NEW i \in 0 .. CRCBITS - 1
        PROVE  i \in Xor(Xor(a, b), c) <=> i \in Xor(a, Xor(b, c))
    BY XorBits
  <2> QED BY <2>1, XorBits, SameBits
<1> QED BY <1>2, <1>3, <1>4

\* A shift of a ^ b is the ^ of the shifts.
LEMMA PushLinear ==
  ASSUME NEW a \in Word, NEW b \in Word
  PROVE  Push(Xor(a, b)) = Xor(Push(a), Push(b))
<1>1. Xor(a, b) \in Word /\ Push(Xor(a, b)) \in Word /\ Xor(Push(a), Push(b)) \in Word
  BY XorBits, PushBits
<1>2. CRCBITS - 1 \in 0 .. CRCBITS - 1 /\ \A i \in 0 .. CRCBITS - 1 : i >= 1 => i - 1 \in 0 .. CRCBITS - 1
  BY DEF CRCBITS
<1>3. ASSUME NEW i \in 0 .. CRCBITS - 1
      PROVE  i \in Push(Xor(a, b)) <=> i \in Xor(Push(a), Push(b))
  BY <1>1, <1>2, XorBits, PushBits
<1> QED BY <1>1, <1>3, SameBits

-----------------------------------------------------------------------------
(* Eight shifts.                                                           *)

Push8(a) == Push(Push(Push(Push(Push(Push(Push(Push(a))))))))

\* So are eight.
LEMMA Push8Linear ==
  ASSUME NEW a \in Word, NEW b \in Word
  PROVE  Push8(Xor(a, b)) = Xor(Push8(a), Push8(b)) /\ Push8(a) \in Word
<1>1. \A x \in Word : Push(x) \in Word
  BY PushBits
<1>2. \A x, y \in Word : Push(Xor(x, y)) = Xor(Push(x), Push(y))
  BY PushLinear
<1> QED BY <1>1, <1>2 DEF Push8

\* What is below the top byte is only shifted.
LEMMA Push8Shifts ==
  ASSUME NEW a \in Word, \A i \in a : i < CRCBITS - 8
  PROVE  Push8(a) = Shl(a, 8)
<1>1. ASSUME NEW n \in 0 .. 7
      PROVE  Push(Shl(a, n)) = Shl(a, n + 1)
  <2>1. ~ (CRCBITS - 1 \in Shl(a, n))
    <3>1. CRCBITS - 1 \in Shl(a, n) => CRCBITS - 1 - n \in a
      BY ShlBits DEF CRCBITS
    <3> QED BY <3>1 DEF CRCBITS
  <2>2. Shl(a, n) \in Word /\ Shl(a, n + 1) \in Word /\ Push(Shl(a, n)) \in Word
    BY ShlBits, PushBits
  <2>3. ASSUME NEW i \in 0 .. CRCBITS - 1
        PROVE  i \in Push(Shl(a, n)) <=> i \in Shl(a, n + 1)
    <3>1. i \in Push(Shl(a, n)) <=> i >= 1 /\ i - 1 \in Shl(a, n)
      BY <2>1, <2>2, PushBits
    <3>2. i >= 1 => i - 1 \in 0 .. CRCBITS - 1
      BY DEF CRCBITS
    <3>3. i >= 1 => (i - 1 \in Shl(a, n) <=> i - 1 >= n /\ (i - 1) - n \in a)
      BY <3>2, ShlBits
    <3>4. i \in Shl(a, n + 1) <=> i >= n + 1 /\ i - (n + 1) \in a
      BY ShlBits
    <3>5. (i - 1) - n = i - (n + 1)
      OBVIOUS
    <3> QED BY <3>1, <3>3, <3>4, <3>5
  <2> QED BY <2>2, <2>3, SameBits
<1>2. Shl(a, 0) = a
  <2>1. Shl(a, 0) \in Word
    BY ShlBits
  <2>2. ASSUME NEW i \in 0 .. CRCBITS - 1
        PROVE  i \in Shl(a, 0) <=> i \in a
    <3>1. i \in Shl(a, 0) <=> i >= 0 /\ i - 0 \in a
      BY ShlBits
    <3> QED BY <3>1 DEF CRCBITS
  <2> QED BY <2>1, <2>2, SameBits
<1>3. /\ Push(a) = Shl(a, 1) /\ Push(Shl(a, 1)) = Shl(a, 2) /\ Push(Shl(a, 2)) = Shl(a, 3)
      /\ Push(Shl(a, 3)) = Shl(a, 4) /\ Push(Shl(a, 4)) = Shl(a, 5)
  BY <1>1, <1>2
<1>4. Push(Shl(a, 5)) = Shl(a, 6) /\ Push(Shl(a, 6)) = Shl(a, 7) /\ Push(Shl(a, 7)) = Shl(a, 8)
  BY <1>1
<1> QED BY <1>3, <1>4 DEF Push8

-----------------------------------------------------------------------------
(* One byte: of the division, and of crc_calc() with the table.            *)

ByteWord(d) == Shl(d, CRCBITS - 8)

\* A byte is a word as it is, and so is none.
LEMMA ByteIsWord ==
  ASSUME NEW d \in Byte
  PROVE  d \in Word /\ {} \in Word /\ {} \in Byte
  BY DEF Byte, Word, CRCBITS

\* Eight steps of the division, with the bits of a byte from the highest one.
High(d, j) == IF 7 - j \in d THEN {0} ELSE {}

Feed(r, d) ==
  Bring[Bring[Bring[Bring[Bring[Bring[Bring[Bring[r]
    [High(d, 0)]][High(d, 1)]][High(d, 2)]][High(d, 3)]]
    [High(d, 4)]][High(d, 5)]][High(d, 6)]][High(d, 7)]

\* They shift the remainder, and bring in the byte as it is.
LEMMA FeedIsPush ==
  ASSUME NEW r \in Word, NEW d \in Byte
  PROVE  Feed(r, d) = Xor(Push8(r), d) /\ Feed(r, d) \in Word
<1> DEFINE B(j) == High(d, j)
           In(j) == {i \in 0 .. 7 : i + 8 - j \in d}
<1>1. ASSUME NEW j \in 0 .. 7, NEW a \in Word
      PROVE  Bring[Xor(a, In(j))][B(j)] = Xor(Push(a), In(j + 1))
  <2>1. In(j) \in Word /\ In(j + 1) \in Word /\ ~ (CRCBITS - 1 \in In(j))
    BY DEF Word, CRCBITS
  <2>2. Xor(a, In(j)) \in Word /\ B(j) \in {{}, {0}} /\ B(j) \in Word
    BY XorBits DEF Word, CRCBITS, High
  <2>3. Bring[Xor(a, In(j))][B(j)] = Xor(Xor(Push(a), Push(In(j))), B(j))
    BY <2>1, <2>2, BringBits, PushLinear
  <2>4. Xor(Push(In(j)), B(j)) = In(j + 1)
    <3>1. ASSUME NEW i \in 0 .. CRCBITS - 1
          PROVE  i \in Xor(Push(In(j)), B(j)) <=> i \in In(j + 1)
      <4>1. i \in Push(In(j)) <=> i >= 1 /\ i - 1 \in In(j)
        BY <2>1, PushBits
      <4>2. i \in B(j) <=> i = 0 /\ 7 - j \in d
        BY DEF High
      <4>3. i >= 1 => (i - 1 \in In(j) <=> i \in In(j + 1))
        <5>1. i >= 1 => (i - 1) + 8 - j = i + 8 - (j + 1)
          OBVIOUS
        <5>2. i >= 8 => ~ (i + 8 - (j + 1) \in d)
          BY DEF Byte
        <5>3. i >= 1 => (i - 1 \in In(j) <=> i - 1 \in 0 .. 7 /\ i + 8 - (j + 1) \in d)
          BY <5>1
        <5>4. i \in In(j + 1) <=> i \in 0 .. 7 /\ i + 8 - (j + 1) \in d
          OBVIOUS
        <5> QED BY <5>2, <5>3, <5>4 DEF CRCBITS
      <4>4. 0 \in In(j + 1) <=> 7 - j \in d
        <5>1. 0 + 8 - (j + 1) = 7 - j
          OBVIOUS
        <5> QED BY <5>1
      <4>5. i \in Xor(Push(In(j)), B(j)) <=> ~ (i \in Push(In(j)) <=> i \in B(j))
        BY XorBits
      <4> HIDE DEF B, In
      <4> QED BY <4>1, <4>2, <4>3, <4>4, <4>5
    <3> QED BY <2>1, <3>1, XorBits, SameBits
  <2>5. Push(a) \in Word /\ Push(In(j)) \in Word
    BY <2>1, PushBits
  <2> HIDE DEF B, In
  <2> QED BY <2>2, <2>3, <2>4, <2>5, XorIsWord
<1>2. In(0) = {} /\ In(8) = d
  <2>1. \A i \in 0 .. 7 : ~ (i + 8 - 0 \in d) /\ (i + 8 - 8 \in d <=> i \in d)
    BY DEF Byte
  <2> QED BY <2>1 DEF Byte
<1>3. \A a \in Word : Push(a) \in Word
  BY PushBits
<1>4. Xor(r, In(0)) = r
  BY <1>2, XorIsWord, ByteIsWord
<1> DEFINE r1 == Push(r)  r2 == Push(r1) r3 == Push(r2) r4 == Push(r3)
           r5 == Push(r4) r6 == Push(r5) r7 == Push(r6) r8 == Push(r7)
<1>5. /\ r1 \in Word /\ r2 \in Word /\ r3 \in Word /\ r4 \in Word
      /\ r5 \in Word /\ r6 \in Word /\ r7 \in Word /\ r8 \in Word
  BY <1>3
<1>6. Push8(r) = r8
  BY DEF Push8
<1>7. /\ Bring[r][B(0)] = Xor(r1, In(1)) /\ Bring[Xor(r1, In(1))][B(1)] = Xor(r2, In(2))
      /\ Bring[Xor(r2, In(2))][B(2)] = Xor(r3, In(3))
      /\ Bring[Xor(r3, In(3))][B(3)] = Xor(r4, In(4))
      /\ Bring[Xor(r4, In(4))][B(4)] = Xor(r5, In(5))
      /\ Bring[Xor(r5, In(5))][B(5)] = Xor(r6, In(6))
      /\ Bring[Xor(r6, In(6))][B(6)] = Xor(r7, In(7))
      /\ Bring[Xor(r7, In(7))][B(7)] = Xor(r8, In(8))
  <2>1. \A j \in 0 .. 7 : \A a \in Word : Bring[Xor(a, In(j))][B(j)] = Xor(Push(a), In(j + 1))
    BY <1>1
  <2> HIDE DEF B, In
  <2> QED BY <1>4, <1>5, <2>1
<1>8. Feed(r, d) = Xor(r8, In(8))
  <2> HIDE DEF In, r1, r2, r3, r4, r5, r6, r7, r8
  <2> QED BY <1>7 DEF Feed
<1> QED BY <1>2, <1>6, <1>8, XorBits

\* A table entry: eight shifts of its index.
LEMMA TableEntry ==
  ASSUME NEW d \in Byte
  PROVE  ctab[d] = Push8(ByteWord(d)) /\ ctab[d] \in Word
<1> DEFINE Equation(c) == c = [j \in 0 .. 8 |-> IF j = 0 THEN Shl(d, CRCBITS - 8)
                                                        ELSE Push(c[j - 1])]
           c8 == CHOOSE c : Equation(c)
<1>1. ByteWord(d) \in Word /\ ByteWord(d) = Shl(d, CRCBITS - 8)
  BY ByteIsWord, ShlBits DEF ByteWord, CRCBITS
<1>2. \A a \in Word : Push(a) \in Word
  BY PushBits
<1>3. \E c : Equation(c)
  <2> DEFINE step == [k \in 1 .. 8 |-> [a \in Word |-> Push(a)]]
             prev == [k \in 1 .. 8 |-> k - 1]
  <2>1. /\ step \in [1 .. 8 -> [Word -> Word]] /\ prev \in [1 .. 8 -> Nat]
        /\ \A k \in 1 .. 8 : prev[k] < k
    BY <1>2
  <2>2. PICK c : Recursion(c, Word, 8, ByteWord(d), prev, step)
    <3>1. 8 \in Nat
      OBVIOUS
    <3> HIDE DEF step, prev
    <3> QED BY <1>1, <2>1, <3>1, RecursionExists, Zenon
  <2>3. ASSUME NEW k \in 1 .. 8
        PROVE  c[k] = Push(c[k - 1])
    BY <2>2 DEF Recursion
  <2>4. Equation(c)
    BY <1>1, <2>2, <2>3 DEF Recursion
  <2> QED BY <2>4
<1>4. Equation(c8)
  <2> HIDE DEF Equation
  <2> QED BY <1>3
<1>5. c8[0] = ByteWord(d) /\ \A j \in 1 .. 8 : c8[j] = Push(c8[j - 1])
  <2> DEFINE g == [j \in 0 .. 8 |-> IF j = 0 THEN Shl(d, CRCBITS - 8)
                                            ELSE Push(c8[j - 1])]
  <2>1. c8 = g
    BY <1>4
  <2>2. g[0] = ByteWord(d) /\ \A j \in 1 .. 8 : g[j] = Push(c8[j - 1])
    BY <1>1
  <2> HIDE DEF c8, g
  <2> QED BY <2>1, <2>2
<1>6. ctab[d] = c8[8]
  BY DEF ctab
<1>7. c8[8] = Push8(ByteWord(d))
  <2> HIDE DEF c8
  <2>1. /\ c8[1] = Push(c8[0]) /\ c8[2] = Push(c8[1]) /\ c8[3] = Push(c8[2])
        /\ c8[4] = Push(c8[3]) /\ c8[5] = Push(c8[4]) /\ c8[6] = Push(c8[5])
        /\ c8[7] = Push(c8[6]) /\ c8[8] = Push(c8[7])
    BY <1>5
  <2> QED BY <1>5, <2>1 DEF Push8
<1> HIDE DEF c8
<1> QED BY <1>1, <1>6, <1>7, Push8Linear

\* One round of crc_calc(): the byte is added at the top, and shifted out.
LEMMA UpdateIsPush ==
  ASSUME NEW c \in Word, NEW d \in Byte
  PROVE  Update[c][d] = Push8(Xor(c, ByteWord(d))) /\ Update[c][d] \in Word
<1> DEFINE low == {i \in c : i < CRCBITS - 8}
           top == Xor(TopByte(c), d)
<1>1. TopByte(c) \in Byte /\ low \in Word
  <2>1. \A i \in c : i \in 0 .. CRCBITS - 1
    BY DEF Word
  <2>2. ASSUME NEW i \in TopByte(c)
        PROVE  i \in 0 .. 7
    BY <2>1, <2>2 DEF TopByte, CRCBITS
  <2> QED BY <2>1, <2>2 DEF Byte, Word
<1>2. \A i \in 0 .. 7 : i \in TopByte(c) <=> i + (CRCBITS - 8) \in c
  <2>1. ASSUME NEW i \in 0 .. 7, i + (CRCBITS - 8) \in c
        PROVE  i \in TopByte(c)
    <3>1. i + (CRCBITS - 8) \in {j \in c : j >= CRCBITS - 8} /\ (i + (CRCBITS - 8)) - (CRCBITS - 8) = i
      BY <2>1 DEF CRCBITS
    <3> QED BY <3>1 DEF TopByte
  <2>2. ASSUME NEW i \in TopByte(c)
        PROVE  i + (CRCBITS - 8) \in c
    BY <2>2 DEF TopByte, Word, CRCBITS
  <2> QED BY <2>1, <2>2
<1>3. top \in Byte /\ \A i \in 0 .. 7 : i \in top <=> ~ (i \in TopByte(c) <=> i \in d)
  BY <1>1 DEF Xor, Byte, CRCBITS
<1>4. Xor(c, ByteWord(d)) = Xor(low, ByteWord(top))
  <2>1. ASSUME NEW i \in 0 .. CRCBITS - 1
        PROVE  i \in Xor(c, ByteWord(d)) <=> i \in Xor(low, ByteWord(top))
    <3>1. i \in Xor(c, ByteWord(d)) <=> ~ (i \in c <=> i \in ByteWord(d))
      BY XorBits
    <3>2. i \in Xor(low, ByteWord(top)) <=> ~ (i \in low <=> i \in ByteWord(top))
      BY XorBits
    <3>3. CRCBITS - 8 \in Nat
      BY DEF CRCBITS
    <3>4. i \in ByteWord(d) <=> i >= CRCBITS - 8 /\ i - (CRCBITS - 8) \in d
      BY <3>3, ByteIsWord, ShlBits DEF ByteWord
    <3>5. i \in ByteWord(top) <=> i >= CRCBITS - 8 /\ i - (CRCBITS - 8) \in top
      <4> HIDE DEF top
      <4> QED BY <1>3, <3>3, ByteIsWord, ShlBits DEF ByteWord
    <3>6. i \in low <=> i < CRCBITS - 8 /\ i \in c
      BY DEF Word
    <3>7. CASE i < CRCBITS - 8
      BY <3>1, <3>2, <3>4, <3>5, <3>6, <3>7 DEF CRCBITS
    <3>8. CASE i >= CRCBITS - 8
      <4>1. i - (CRCBITS - 8) \in 0 .. 7 /\ (i - (CRCBITS - 8)) + (CRCBITS - 8) = i
        BY <3>8 DEF CRCBITS
      <4>2. i - (CRCBITS - 8) \in top <=> ~ (i \in c <=> i - (CRCBITS - 8) \in d)
        <5> HIDE DEF top
        <5> QED BY <1>2, <1>3, <4>1
      <4>3. ~ (i < CRCBITS - 8)
        BY <3>8 DEF CRCBITS
      <4> HIDE DEF top, low
      <4> QED BY <3>1, <3>2, <3>4, <3>5, <3>6, <3>8, <4>2, <4>3
    <3> QED BY <3>7, <3>8 DEF CRCBITS
  <2> HIDE DEF low, top
  <2> QED BY <2>1, XorBits, SameBits
<1>5. Push8(low) = Shl(c, 8)
  <2>1. Push8(low) = Shl(low, 8)
    BY <1>1, Push8Shifts
  <2>2. ASSUME NEW i \in 0 .. CRCBITS - 1
        PROVE  i \in Shl(low, 8) <=> i \in Shl(c, 8)
    <3>1. i - 8 < CRCBITS - 8
      BY DEF CRCBITS
    <3>2. i - 8 \in low <=> i - 8 \in c
      BY <3>1
    <3> HIDE DEF low
    <3> QED BY <1>1, <3>2, ShlBits
  <2>3. Shl(low, 8) \in Word /\ Shl(c, 8) \in Word
    BY <1>1, ShlBits
  <2> HIDE DEF low
  <2> QED BY <2>1, <2>2, <2>3, SameBits
<1>6. ByteWord(top) \in Word /\ ctab[top] = Push8(ByteWord(top))
  <2>1. CRCBITS - 8 \in Nat
    BY DEF CRCBITS
  <2> HIDE DEF top
  <2> QED BY <1>3, <2>1, ByteIsWord, ShlBits, TableEntry DEF ByteWord
<1>7. Update[c][d] = Xor(Shl(c, 8), ctab[top])
  BY DEF Update
<1>8. Push8(Xor(low, ByteWord(top))) = Xor(Push8(low), Push8(ByteWord(top)))
  <2> HIDE DEF low, top
  <2> QED BY <1>1, <1>6, Push8Linear
<1> HIDE DEF low, top
<1> QED BY <1>4, <1>5, <1>6, <1>7, <1>8, XorBits

\* Four bytes of zeros are 32 shifts.
Push32(a) == Push8(Push8(Push8(Push8(a))))

\* They too are linear.
LEMMA Push32Linear ==
  ASSUME NEW a \in Word, NEW b \in Word
  PROVE  Push32(Xor(a, b)) = Xor(Push32(a), Push32(b)) /\ Push32(a) \in Word
<1>1. \A x \in Word : Push8(x) \in Word
  BY Push8Linear
<1>2. \A x, y \in Word : Push8(Xor(x, y)) = Xor(Push8(x), Push8(y))
  BY Push8Linear
<1> QED BY <1>1, <1>2 DEF Push32

\* A byte that went through the division and 32 shifts more is what one round of
\* crc_calc() makes of it.
LEMMA RoundIsFeed ==
  ASSUME NEW r \in Word, NEW d \in Byte
  PROVE  Update[Push32(r)][d] = Push32(Feed(r, d))
<1>1. d \in Word /\ Push8(r) \in Word /\ Push32(r) \in Word /\ ByteWord(d) \in Word
  BY ByteIsWord, Push8Linear, Push32Linear, ShlBits DEF ByteWord, CRCBITS
<1>2. Push32(Feed(r, d)) = Xor(Push32(Push8(r)), Push32(d))
  BY <1>1, FeedIsPush, Push32Linear
<1>3. Push32(Push8(r)) = Push8(Push32(r))
  BY DEF Push32
<1>4. Push32(d) = Push8(ByteWord(d))
  <2>1. ASSUME NEW n \in {0, 8, 16}
        PROVE  Push8(Shl(d, n)) = Shl(d, n + 8)
    <3>1. Shl(d, n) \in Word /\ Shl(d, n + 8) \in Word /\ Shl(Shl(d, n), 8) \in Word
      BY <1>1, ShlBits
    <3>2. \A i \in Shl(d, n) : i < CRCBITS - 8
      <4>1. \A i \in Shl(d, n) : i \in 0 .. CRCBITS - 1 /\ i - n \in 0 .. 7
        BY <1>1, <3>1, ShlBits DEF Byte, Word
      <4> QED BY <4>1 DEF CRCBITS
    <3>3. ASSUME NEW i \in 0 .. CRCBITS - 1
          PROVE  i \in Shl(Shl(d, n), 8) <=> i \in Shl(d, n + 8)
      <4>1. i \in Shl(Shl(d, n), 8) <=> i >= 8 /\ i - 8 \in Shl(d, n)
        BY <3>1, ShlBits
      <4>2. i >= 8 => (i - 8 \in Shl(d, n) <=> i - 8 >= n /\ (i - 8) - n \in d)
        <5>1. i >= 8 => i - 8 \in 0 .. CRCBITS - 1
          BY DEF CRCBITS
        <5>2. n \in Nat
          OBVIOUS
        <5>3. \A k \in 0 .. CRCBITS - 1 : k \in Shl(d, n) <=> k >= n /\ k - n \in d
          BY <1>1, <5>2, ShlBits
        <5> QED BY <5>1, <5>3
      <4>3. i \in Shl(d, n + 8) <=> i >= n + 8 /\ i - (n + 8) \in d
        BY <1>1, ShlBits
      <4>4. (i - 8) - n = i - (n + 8)
        OBVIOUS
      <4> QED BY <4>1, <4>2, <4>3, <4>4
    <3> QED BY <3>1, <3>2, <3>3, Push8Shifts, SameBits
  <2>2. Shl(d, 0) = d
    <3>1. ASSUME NEW i \in 0 .. CRCBITS - 1
          PROVE  i \in Shl(d, 0) <=> i \in d
      <4>1. i \in Shl(d, 0) <=> i >= 0 /\ i - 0 \in d
        BY <1>1, ShlBits
      <4> QED BY <4>1 DEF CRCBITS
    <3> QED BY <1>1, <3>1, ShlBits, SameBits
  <2>3. Push8(d) = Shl(d, 8) /\ Push8(Shl(d, 8)) = Shl(d, 16) /\ Push8(Shl(d, 16)) = Shl(d, 24)
    BY <2>1, <2>2
  <2> QED BY <2>3 DEF Push32, ByteWord, CRCBITS
<1>5. Update[Push32(r)][d] = Xor(Push8(Push32(r)), Push8(ByteWord(d)))
  BY <1>1, UpdateIsPush, Push8Linear
<1> QED BY <1>2, <1>3, <1>4, <1>5

-----------------------------------------------------------------------------
(* Sequences of bytes.                                                     *)

\* q has the remainders after each byte of s, or the values of crc_calc().
FeedRun(q, rest_, s) ==
  /\ q \in [0 .. Len(s) -> Word] /\ q[0] = rest_
  /\ \A k \in 1 .. Len(s) : q[k] = Feed(q[k - 1], s[k])

CalcRun(q, c, s) ==
  /\ q \in [0 .. Len(s) -> Word] /\ q[0] = c
  /\ \A k \in 1 .. Len(s) : q[k] = Update[q[k - 1]][s[k]]

\* The remainders after each byte exist.
LEMMA FeedRunExists ==
  ASSUME NEW r \in Word, NEW s \in Seq(Byte)
  PROVE  \E q : FeedRun(q, r, s)
<1> DEFINE N == Len(s)
           step == [k \in 1 .. N |-> [a \in Word |-> Feed(a, s[k])]]
           prev == [k \in 1 .. N |-> k - 1]
<1>1. N \in Nat /\ \A k \in 1 .. N : s[k] \in Byte
  OBVIOUS
<1>2. \A k \in 1 .. N : \A a \in Word : Feed(a, s[k]) \in Word
  BY <1>1, FeedIsPush
<1>3. /\ step \in [1 .. N -> [Word -> Word]] /\ prev \in [1 .. N -> Nat]
      /\ \A k \in 1 .. N : prev[k] < k
  <2> HIDE DEF N
  <2> QED BY <1>1, <1>2
<1>4. PICK q : Recursion(q, Word, N, r, prev, step)
  <2> HIDE DEF N, step, prev
  <2> QED BY <1>1, <1>3, RecursionExists, Zenon
<1>5. ASSUME NEW k \in 1 .. N
      PROVE  q[k] = Feed(q[k - 1], s[k])
  <2>1. k - 1 \in 0 .. N /\ q[k - 1] \in Word
    BY <1>1, <1>4 DEF Recursion
  <2>2. q[k] = step[k][q[k - 1]]
    BY <1>4 DEF Recursion
  <2> HIDE DEF N
  <2> QED BY <2>1, <2>2
<1> QED BY <1>4, <1>5 DEF FeedRun, Recursion

\* crc_calc() returns the last of its values.
LEMMA CalcIs ==
  ASSUME NEW c \in Word, NEW s \in Seq(Byte), NEW q, CalcRun(q, c, s)
  PROVE  crc_calc(c, s) = q[Len(s)]
<1> DEFINE N == Len(s)
           Equation(f) == f = [k \in 0 .. N |-> IF k = 0 THEN c
                                                ELSE Update[f[k - 1]][s[k]]]
           r == CHOOSE f : Equation(f)
<1>1. N \in Nat
  OBVIOUS
<1>2. Equation(q)
  BY DEF CalcRun
<1>3. Equation(r)
  <2> HIDE DEF Equation
  <2> QED BY <1>2
<1>4. r[0] = c /\ \A k \in 1 .. N : r[k] = Update[r[k - 1]][s[k]]
  <2> DEFINE g == [k \in 0 .. N |-> IF k = 0 THEN c ELSE Update[r[k - 1]][s[k]]]
  <2>1. r = g
    BY <1>3
  <2>2. g[0] = c /\ \A k \in 1 .. N : g[k] = Update[r[k - 1]][s[k]]
    BY <1>1
  <2> HIDE DEF r, g
  <2> QED BY <2>1, <2>2
<1>5. crc_calc(c, s) = r[N]
  BY DEF crc_calc
<1> DEFINE S == {k \in Nat : k <= N => r[k] = q[k]}
<1> HIDE DEF r
<1>6. 0 \in S
  BY <1>4 DEF CalcRun
<1>7. ASSUME NEW k \in Nat, k \in S
      PROVE  k + 1 \in S
  <2>1. k + 1 <= N => k + 1 \in 1 .. N /\ (k + 1) - 1 = k /\ r[k] = q[k]
    BY <1>7
  <2> QED BY <1>4, <2>1 DEF CalcRun
<1>8. N \in S
  <2> HIDE DEF S
  <2> QED BY <1>1, <1>6, <1>7, SetInduction
<1> QED BY <1>5, <1>8

\* The bits of one byte are the next eight that Divide takes.
LEMMA BitOfByte ==
  ASSUME NEW s, NEW k \in Nat, NEW j \in 0 .. 7
  PROVE  Bit(s, 8 * k + j + 1) = High(s[k + 1], j)
<1>1. ((8 * k + j + 1) - 1) % 8 = j /\ ((8 * k + j + 1) - 1) \div 8 = k
  OBVIOUS
<1> QED BY <1>1 DEF Bit, High

\* The division, bit by bit, has the remainders of FeedRun after each byte.
LEMMA DivideIs ==
  ASSUME NEW a \in Word, NEW s \in Seq(Byte), NEW q, FeedRun(q, a, s)
  PROVE  Divide(a, s) = q[Len(s)]
<1> DEFINE N == Len(s)
           Equation(f) == f = [k \in 0 .. 8 * N |-> IF k = 0 THEN a
                                                    ELSE Bring[f[k - 1]][Bit(s, k)]]
           r == CHOOSE f : Equation(f)
<1>1. N \in Nat /\ 8 * N \in Nat
  OBVIOUS
<1>2. \E f : Equation(f)
  <2> DEFINE M == 8 * N
             step == [k \in 1 .. M |-> [x \in Word |-> Bring[x][Bit(s, k)]]]
             prev == [k \in 1 .. M |-> k - 1]
  <2>1. \A k \in 1 .. M : \A x \in Word : Bring[x][Bit(s, k)] \in Word
    <3>1. \A k \in 1 .. M : Bit(s, k) \in {{}, {0}}
      BY DEF Bit
    <3> HIDE DEF M
    <3> QED BY <3>1, BringBits
  <2>2. /\ step \in [1 .. M -> [Word -> Word]] /\ prev \in [1 .. M -> Nat]
        /\ \A k \in 1 .. M : prev[k] < k
    <3>1. M \in Nat
      BY <1>1
    <3> HIDE DEF M
    <3> QED BY <2>1, <3>1
  <2>3. PICK f : Recursion(f, Word, M, a, prev, step)
    <3>1. M \in Nat
      BY <1>1
    <3> HIDE DEF M, step, prev
    <3> QED BY <2>2, <3>1, RecursionExists, Zenon
  <2>4. ASSUME NEW k \in 1 .. M
        PROVE  f[k] = Bring[f[k - 1]][Bit(s, k)]
    <3>1. k - 1 \in 0 .. M /\ f[k - 1] \in Word
      BY <1>1, <2>3 DEF Recursion
    <3>2. f[k] = step[k][f[k - 1]]
      BY <2>3 DEF Recursion
    <3> HIDE DEF M
    <3> QED BY <3>1, <3>2
  <2>5. Equation(f)
    <3>1. f \in [0 .. M -> Word] /\ f[0] = a
      BY <2>3 DEF Recursion
    <3> HIDE DEF N
    <3> QED BY <1>1, <2>4, <3>1
  <2> QED BY <2>5
<1>3. Equation(r)
  <2> HIDE DEF Equation
  <2> QED BY <1>2
<1>4. r[0] = a /\ \A k \in 1 .. 8 * N : r[k] = Bring[r[k - 1]][Bit(s, k)]
  <2> DEFINE g == [k \in 0 .. 8 * N |-> IF k = 0 THEN a ELSE Bring[r[k - 1]][Bit(s, k)]]
  <2>1. r = g
    BY <1>3
  <2>2. g[0] = a /\ \A k \in 1 .. 8 * N : g[k] = Bring[r[k - 1]][Bit(s, k)]
    <3> HIDE DEF r, N
    <3> QED BY <1>1
  <2> HIDE DEF r, g
  <2> QED BY <2>1, <2>2
<1>5. Divide(a, s) = r[8 * N]
  BY DEF Divide
<1> DEFINE S == {k \in Nat : k <= N => r[8 * k] = q[k]}
<1> HIDE DEF r
<1>6. 0 \in S
  BY <1>4 DEF FeedRun
<1>7. ASSUME NEW k \in Nat, k \in S
      PROVE  k + 1 \in S
  <2> SUFFICES ASSUME k + 1 <= N
               PROVE  r[8 * (k + 1)] = q[k + 1]
    OBVIOUS
  <2>1. r[8 * k] = q[k] /\ q[k + 1] = Feed(q[k], s[k + 1])
    <3>1. k + 1 \in 1 .. N /\ (k + 1) - 1 = k /\ k <= N
      OBVIOUS
    <3> QED BY <1>7, <3>1 DEF FeedRun
  <2> DEFINE B(j) == High(s[k + 1], j)
  <2>2. ASSUME NEW j \in 0 .. 7
        PROVE  r[8 * k + j + 1] = Bring[r[8 * k + j]][B(j)]
    <3>1. 8 * k + j + 1 \in 1 .. 8 * N /\ (8 * k + j + 1) - 1 = 8 * k + j
      BY <1>1
    <3>2. r[8 * k + j + 1] = Bring[r[8 * k + j]][Bit(s, 8 * k + j + 1)]
      BY <1>4, <3>1
    <3> QED BY <3>2, BitOfByte
  <2>3. /\ r[8 * k + 1] = Bring[r[8 * k]][B(0)] /\ r[8 * k + 2] = Bring[r[8 * k + 1]][B(1)]
        /\ r[8 * k + 3] = Bring[r[8 * k + 2]][B(2)] /\ r[8 * k + 4] = Bring[r[8 * k + 3]][B(3)]
        /\ r[8 * k + 5] = Bring[r[8 * k + 4]][B(4)] /\ r[8 * k + 6] = Bring[r[8 * k + 5]][B(5)]
        /\ r[8 * k + 7] = Bring[r[8 * k + 6]][B(6)] /\ r[8 * k + 8] = Bring[r[8 * k + 7]][B(7)]
    <3>1. \A j \in 0 .. 7 : r[8 * k + j + 1] = Bring[r[8 * k + j]][B(j)]
      BY <2>2
    <3>2. /\ 8 * k + 0 = 8 * k /\ 8 * k + 0 + 1 = 8 * k + 1 /\ 8 * k + 1 + 1 = 8 * k + 2
          /\ 8 * k + 2 + 1 = 8 * k + 3 /\ 8 * k + 3 + 1 = 8 * k + 4
          /\ 8 * k + 4 + 1 = 8 * k + 5 /\ 8 * k + 5 + 1 = 8 * k + 6
          /\ 8 * k + 6 + 1 = 8 * k + 7 /\ 8 * k + 7 + 1 = 8 * k + 8
      OBVIOUS
    <3> HIDE DEF B
    <3> QED BY <3>1, <3>2
  <2>4. r[8 * k + 8] = Feed(r[8 * k], s[k + 1])
    BY <2>3 DEF Feed
  <2>5. 8 * (k + 1) = 8 * k + 8
    OBVIOUS
  <2> QED BY <2>1, <2>4, <2>5
<1>8. N \in S
  <2> HIDE DEF S
  <2> QED BY <1>1, <1>6, <1>7, SetInduction
<1> QED BY <1>5, <1>8

\* A division over more bytes goes on from the remainder it had.
LEMMA DivideParts ==
  ASSUME NEW a \in Word, NEW s \in Seq(Byte), NEW t \in Seq(Byte)
  PROVE  Divide(a, s \o t) = Divide(Divide(a, s), t) /\ Divide(a, s) \in Word
<1> DEFINE N == Len(s)
           M == Len(t)
<1>1. s \o t \in Seq(Byte) /\ Len(s \o t) = N + M /\ N \in Nat /\ M \in Nat
  OBVIOUS
<1>2. PICK q : FeedRun(q, a, s \o t)
  BY <1>1, FeedRunExists
<1> DEFINE qs == [k \in 0 .. N |-> q[k]]
           qt == [k \in 0 .. M |-> q[N + k]]
<1>3. FeedRun(qs, a, s)
  <2>1. \A k \in 1 .. N : (s \o t)[k] = s[k]
    OBVIOUS
  <2>2. qs \in [0 .. N -> Word] /\ qs[0] = a
    <3> HIDE DEF N, M
    <3> QED BY <1>1, <1>2 DEF FeedRun
  <2>3. ASSUME NEW k \in 1 .. N
        PROVE  qs[k] = Feed(qs[k - 1], s[k])
    <3>1. k \in 1 .. N + M /\ k - 1 \in 0 .. N /\ k \in 0 .. N
      BY <1>1
    <3>2. q[k] = Feed(q[k - 1], (s \o t)[k])
      BY <1>1, <1>2, <3>1 DEF FeedRun
    <3> HIDE DEF N, M
    <3> QED BY <2>1, <3>1, <3>2
  <2> HIDE DEF qs
  <2> QED BY <2>2, <2>3 DEF FeedRun
<1>4. FeedRun(qt, q[N], t)
  <2>1. \A k \in 1 .. M : (s \o t)[N + k] = t[k]
    OBVIOUS
  <2>2. qt \in [0 .. M -> Word] /\ qt[0] = q[N]
    <3>1. \A k \in 0 .. M : N + k \in 0 .. N + M
      BY <1>1
    <3>2. \A k \in 0 .. N + M : q[k] \in Word
      BY <1>1, <1>2 DEF FeedRun
    <3>3. 0 \in 0 .. M /\ N + 0 = N
      BY <1>1
    <3> HIDE DEF N, M
    <3> QED BY <3>1, <3>2, <3>3
  <2>3. ASSUME NEW k \in 1 .. M
        PROVE  qt[k] = Feed(qt[k - 1], t[k])
    <3>1. /\ N + k \in 1 .. N + M /\ k - 1 \in 0 .. M /\ k \in 0 .. M
          /\ (N + k) - 1 = N + (k - 1)
      BY <1>1
    <3>2. q[N + k] = Feed(q[(N + k) - 1], (s \o t)[N + k])
      BY <1>1, <1>2, <3>1 DEF FeedRun
    <3> HIDE DEF N, M
    <3> QED BY <2>1, <3>1, <3>2
  <2> HIDE DEF qt
  <2> QED BY <2>2, <2>3 DEF FeedRun
<1>5. q[N] \in Word
  BY <1>1, <1>2 DEF FeedRun
<1>6. Divide(a, s) = q[N]
  <2>1. Divide(a, s) = qs[N]
    <3> HIDE DEF qs
    <3> QED BY <1>3, DivideIs
  <2> QED BY <1>1, <2>1
<1>7. Divide(q[N], t) = q[N + M]
  <2>1. Divide(q[N], t) = qt[M]
    <3> HIDE DEF qt
    <3> QED BY <1>4, <1>5, DivideIs
  <2>2. M \in 0 .. M
    BY <1>1
  <2> HIDE DEF N, M
  <2> QED BY <2>1, <2>2
<1>8. Divide(a, s \o t) = q[N + M]
  BY <1>1, <1>2, DivideIs
<1> QED BY <1>5, <1>6, <1>7, <1>8

\* Zeros only shift.
LEMMA DivideZeros ==
  ASSUME NEW a \in Word
  PROVE  Divide(a, Zeros) = Push32(a)
<1> DEFINE q == [k \in 0 .. 4 |-> IF k = 0 THEN a
                                  ELSE IF k = 1 THEN Push8(a)
                                  ELSE IF k = 2 THEN Push8(Push8(a))
                                  ELSE IF k = 3 THEN Push8(Push8(Push8(a)))
                                  ELSE Push32(a)]
<1>1. \A b \in Word : Push8(b) \in Word /\ Feed(b, {}) = Push8(b)
  <2>1. {} \in Byte /\ {} \in Word
    BY DEF Byte, Word
  <2>2. \A b \in Word : Push8(b) \in Word
    BY Push8Linear
  <2>3. \A b \in Word : Xor(Push8(b), {}) = Push8(b)
    BY <2>1, <2>2, XorIsWord
  <2> QED BY <2>1, <2>2, <2>3, FeedIsPush
<1>2. Zeros \in Seq(Byte) /\ Len(Zeros) = 4 /\ \A k \in 1 .. 4 : Zeros[k] = {}
  <2>1. {} \in Byte
    BY DEF Byte
  <2> QED BY <2>1 DEF Zeros
<1>3. q \in [0 .. 4 -> Word] /\ q[0] = a
  BY <1>1 DEF Push32
<1>4. \A k \in 1 .. 4 : q[k] = Push8(q[k - 1])
  BY DEF Push32
<1>5. FeedRun(q, a, Zeros)
  <2>1. \A k \in 1 .. 4 : k - 1 \in 0 .. 4
    OBVIOUS
  <2> HIDE DEF q
  <2> QED BY <1>1, <1>2, <1>3, <1>4, <2>1 DEF FeedRun
<1>6. Divide(a, Zeros) = q[4]
  <2> HIDE DEF q
  <2> QED BY <1>2, <1>5, DivideIs
<1> QED BY <1>6

\* crc_calc() over any bytes goes on with the division of which it is 32 shifts
\* ahead.
LEMMA CalcDivides ==
  ASSUME NEW a \in Word, NEW s \in Seq(Byte)
  PROVE  crc_calc(Divide(a, Zeros), s) = Divide(Divide(a, s), Zeros)
<1>1. PICK q : FeedRun(q, a, s)
  BY FeedRunExists
<1> DEFINE r == [k \in 0 .. Len(s) |-> Push32(q[k])]
<1>2. \A k \in 0 .. Len(s) : q[k] \in Word
  BY <1>1 DEF FeedRun
<1>3. CalcRun(r, Push32(a), s)
  <2>1. r \in [0 .. Len(s) -> Word]
    BY <1>2, Push32Linear
  <2>2. r[0] = Push32(a)
    BY <1>1 DEF FeedRun
  <2>3. ASSUME NEW k \in 1 .. Len(s)
        PROVE  r[k] = Update[r[k - 1]][s[k]]
    <3>1. k - 1 \in 0 .. Len(s) /\ s[k] \in Byte /\ k \in 0 .. Len(s)
      OBVIOUS
    <3>2. q[k] = Feed(q[k - 1], s[k])
      BY <1>1 DEF FeedRun
    <3>3. Update[Push32(q[k - 1])][s[k]] = Push32(Feed(q[k - 1], s[k]))
      BY <1>2, <3>1, RoundIsFeed
    <3> QED BY <3>1, <3>2, <3>3
  <2> HIDE DEF r
  <2> QED BY <2>1, <2>2, <2>3 DEF CalcRun
<1>4. crc_calc(Push32(a), s) = r[Len(s)]
  <2> HIDE DEF r
  <2> QED BY <1>3, CalcIs, Push32Linear
<1>5. Divide(a, s) = q[Len(s)] /\ Divide(a, s) \in Word
  BY <1>1, <1>2, DivideIs
<1> QED BY <1>4, <1>5, DivideZeros

-----------------------------------------------------------------------------
(* The bytes of the length.                                                *)

\* b & 0xFF is a byte, and its value is the remainder by 256.
LEMMA ByteValue ==
  ASSUME NEW n \in Nat
  PROVE  ToByte(n) \in Byte /\ Value(ToByte(n)) = n % 256
<1> DEFINE h1 == n \div 2   h2 == h1 \div 2  h3 == h2 \div 2  h4 == h3 \div 2
           h5 == h4 \div 2  h6 == h5 \div 2  h7 == h6 \div 2  h8 == h7 \div 2
           W(i) == IF i \in ToByte(n) THEN 2 ^ i ELSE 0
<1>1. /\ n \div 2 ^ 0 = n /\ n \div 2 ^ 1 = h1 /\ n \div 2 ^ 2 = h2 /\ n \div 2 ^ 3 = h3
      /\ n \div 2 ^ 4 = h4 /\ n \div 2 ^ 5 = h5 /\ n \div 2 ^ 6 = h6 /\ n \div 2 ^ 7 = h7
  OBVIOUS
<1>2. n \div 256 = h8 /\ n = 256 * (n \div 256) + (n % 256)
  OBVIOUS
<1>3. \A i \in 0 .. 7 : i \in ToByte(n) <=> (n \div 2 ^ i) % 2 = 1
  BY DEF ToByte
<1>4. /\ W(0) = n % 2 /\ W(1) = 2 * (h1 % 2) /\ W(2) = 4 * (h2 % 2) /\ W(3) = 8 * (h3 % 2)
      /\ W(4) = 16 * (h4 % 2) /\ W(5) = 32 * (h5 % 2) /\ W(6) = 64 * (h6 % 2)
      /\ W(7) = 128 * (h7 % 2)
  <2>1. /\ h1 \in Nat /\ h2 \in Nat /\ h3 \in Nat /\ h4 \in Nat
        /\ h5 \in Nat /\ h6 \in Nat /\ h7 \in Nat
    OBVIOUS
  <2>2. \A h \in Nat : h % 2 = 0 \/ h % 2 = 1
    OBVIOUS
  <2>3. /\ 0 \in ToByte(n) <=> n % 2 = 1
        /\ 1 \in ToByte(n) <=> h1 % 2 = 1 
        /\ 2 \in ToByte(n) <=> h2 % 2 = 1
        /\ 3 \in ToByte(n) <=> h3 % 2 = 1
        /\ 4 \in ToByte(n) <=> h4 % 2 = 1
        /\ 5 \in ToByte(n) <=> h5 % 2 = 1
        /\ 6 \in ToByte(n) <=> h6 % 2 = 1
        /\ 7 \in ToByte(n) <=> h7 % 2 = 1
    <3> HIDE DEF h1, h2, h3, h4, h5, h6, h7
    <3> QED BY <1>1, <1>3
  <2> HIDE DEF h1, h2, h3, h4, h5, h6, h7
  <2> QED BY <2>1, <2>2, <2>3
<1>5. n = (n % 2) + 2 * (h1 % 2) + 4 * (h2 % 2) + 8 * (h3 % 2) + 16 * (h4 % 2)
            + 32 * (h5 % 2) + 64 * (h6 % 2) + 128 * (h7 % 2) + 256 * h8
  OBVIOUS
<1>6. Value(ToByte(n)) = W(0) + W(1) + W(2) + W(3) + W(4) + W(5) + W(6) + W(7)
  BY DEF Value
<1>7. /\ h8 \in Nat /\ n % 2 \in 0 .. 1 /\ h1 % 2 \in 0 .. 1 /\ h2 % 2 \in 0 .. 1 /\ h3 % 2 \in 0 .. 1
      /\ h4 % 2 \in 0 .. 1 /\ h5 % 2 \in 0 .. 1 /\ h6 % 2 \in 0 .. 1 /\ h7 % 2 \in 0 .. 1
      /\ n % 256 \in Nat
  OBVIOUS
<1>8. Value(ToByte(n)) = n % 256
  <2> HIDE DEF W
  <2>1. Value(ToByte(n)) =
          (n % 2) + 2 * (h1 % 2) + 4 * (h2 % 2) + 8 * (h3 % 2) + 16 * (h4 % 2)
            + 32 * (h5 % 2) + 64 * (h6 % 2) + 128 * (h7 % 2)
    <3> HIDE DEF h1, h2, h3, h4, h5, h6, h7
    <3> QED BY <1>4, <1>6
  <2>2. n = Value(ToByte(n)) + 256 * h8
    <3> HIDE DEF h1, h2, h3, h4, h5, h6, h7, h8
    <3> QED BY <1>5, <2>1
  <2>3. Value(ToByte(n)) \in Nat /\ Value(ToByte(n)) < 256
    <3> HIDE DEF h1, h2, h3, h4, h5, h6, h7, h8
    <3> QED BY <1>7, <2>1
  <2> HIDE DEF h8
  <2> QED BY <1>2, <1>7, <2>2, <2>3
<1>9. ToByte(n) \in Byte
  BY DEF ToByte, Byte
<1> QED BY <1>8, <1>9

\* A byte stands for a natural number.
LEMMA ValueType ==
  ASSUME NEW b \in Byte
  PROVE  Value(b) \in Nat
  BY DEF Value

\* v has the numbers that the last bytes of s stand for.
ValueRun(v, s) ==
  /\ v \in [0 .. Len(s) -> Nat] /\ v[0] = 0
  /\ \A k \in 1 .. Len(s) : v[k] = Value(s[Len(s) - k + 1]) + 256 * v[k - 1]

\* The numbers of the last bytes exist.
LEMMA ValueRunExists ==
  ASSUME NEW s \in Seq(Byte)
  PROVE  \E v : ValueRun(v, s)
<1> DEFINE N == Len(s)
           step == [k \in 1 .. N |-> [a \in Nat |-> Value(s[N - k + 1]) + 256 * a]]
           prev == [k \in 1 .. N |-> k - 1]
<1>1. N \in Nat
  OBVIOUS
<1>2. \A k \in 1 .. N : Value(s[N - k + 1]) \in Nat
  <2>1. \A k \in 1 .. N : N - k + 1 \in 1 .. N /\ s[N - k + 1] \in Byte
    OBVIOUS
  <2> HIDE DEF N
  <2> QED BY <2>1, ValueType
<1>3. /\ step \in [1 .. N -> [Nat -> Nat]] /\ prev \in [1 .. N -> Nat]
      /\ \A k \in 1 .. N : prev[k] < k
  <2> HIDE DEF N
  <2> QED BY <1>1, <1>2
<1>4. PICK v : Recursion(v, Nat, N, 0, prev, step)
  <2>1. 0 \in Nat
    OBVIOUS
  <2> HIDE DEF N, step, prev
  <2> QED BY <1>1, <1>3, <2>1, RecursionExists, Zenon
<1>5. ASSUME NEW k \in 1 .. N
      PROVE  v[k] = Value(s[N - k + 1]) + 256 * v[k - 1]
  <2>1. k - 1 \in 0 .. N /\ v[k - 1] \in Nat
    BY <1>1, <1>4 DEF Recursion
  <2>2. v[k] = step[k][v[k - 1]]
    BY <1>4 DEF Recursion
  <2> HIDE DEF N
  <2> QED BY <2>1, <2>2
<1> QED BY <1>4, <1>5 DEF ValueRun, Recursion

\* Number is the last of them.
LEMMA NumberIs ==
  ASSUME NEW s \in Seq(Byte), NEW v, ValueRun(v, s)
  PROVE  Number(s) = v[Len(s)]
<1> DEFINE N == Len(s)
           Equation(f) == f = [k \in 0 .. N |-> IF k = 0 THEN 0
                                ELSE Value(s[N - k + 1]) + 256 * f[k - 1]]
           r == CHOOSE f : Equation(f)
<1>1. N \in Nat
  OBVIOUS
<1>2. Equation(v)
  BY DEF ValueRun
<1>3. Equation(r)
  <2> HIDE DEF Equation
  <2> QED BY <1>2
<1>4. r[0] = 0 /\ \A k \in 1 .. N : r[k] = Value(s[N - k + 1]) + 256 * r[k - 1]
  <2> DEFINE g == [k \in 0 .. N |-> IF k = 0 THEN 0
                                    ELSE Value(s[N - k + 1]) + 256 * r[k - 1]]
  <2>1. r = g
    BY <1>3
  <2>2. g[0] = 0 /\ \A k \in 1 .. N : g[k] = Value(s[N - k + 1]) + 256 * r[k - 1]
    <3> HIDE DEF r, N
    <3> QED BY <1>1
  <2> HIDE DEF r, g
  <2> QED BY <2>1, <2>2
<1>5. Number(s) = r[N]
  BY DEF Number
<1> DEFINE S == {k \in Nat : k <= N => r[k] = v[k]}
<1> HIDE DEF r
<1>6. 0 \in S
  BY <1>4 DEF ValueRun
<1>7. ASSUME NEW k \in Nat, k \in S
      PROVE  k + 1 \in S
  <2>1. k + 1 <= N => k + 1 \in 1 .. N /\ (k + 1) - 1 = k /\ r[k] = v[k]
    BY <1>7
  <2> QED BY <1>4, <2>1 DEF ValueRun
<1>8. N \in S
  <2> HIDE DEF S
  <2> QED BY <1>1, <1>6, <1>7, SetInduction
<1> QED BY <1>5, <1>8

\* A byte in front adds itself to 256 times the rest.
LEMMA NumberCons ==
  ASSUME NEW d \in Byte, NEW t \in Seq(Byte)
  PROVE  Number(<<d>> \o t) = Value(d) + 256 * Number(t) /\ Number(t) \in Nat
<1> DEFINE M == Len(t)
           s == <<d>> \o t
<1>1. /\ M \in Nat /\ s \in Seq(Byte) /\ Len(s) = M + 1 /\ s[1] = d
      /\ \A k \in 1 .. M : s[k + 1] = t[k]
  OBVIOUS
<1>2. PICK v : ValueRun(v, t)
  BY ValueRunExists
<1>3. v \in [0 .. M -> Nat] /\ Number(t) = v[M] /\ Number(t) \in Nat
  BY <1>1, <1>2, NumberIs DEF ValueRun
<1> DEFINE w == [k \in 0 .. M + 1 |-> IF k <= M THEN v[k] ELSE Value(d) + 256 * v[M]]
<1>4. ValueRun(w, s)
  <2>1. w \in [0 .. M + 1 -> Nat] /\ w[0] = 0
    <3>1. Value(d) \in Nat /\ v[0] = 0
      BY <1>2, ValueType DEF ValueRun
    <3> HIDE DEF M
    <3> QED BY <1>1, <1>3, <3>1
  <2>2. ASSUME NEW k \in 1 .. M + 1
        PROVE  w[k] = Value(s[(M + 1) - k + 1]) + 256 * w[k - 1]
    <3>1. CASE k = M + 1
      <4>1. (M + 1) - k + 1 = 1 /\ w[k - 1] = v[M] /\ w[k] = Value(d) + 256 * v[M]
        <5> HIDE DEF M
        <5> QED BY <1>1, <3>1
      <4> QED BY <1>1, <4>1
    <3>2. CASE k # M + 1
      <4>1. /\ k \in 1 .. M /\ M - k + 1 \in 1 .. M /\ (M + 1) - k + 1 = (M - k + 1) + 1
            /\ k - 1 \in 0 .. M
        BY <1>1, <3>2
      <4>2. w[k] = v[k] /\ w[k - 1] = v[k - 1]
        <5> HIDE DEF M
        <5> QED BY <1>1, <4>1
      <4>3. v[k] = Value(t[M - k + 1]) + 256 * v[k - 1]
        BY <1>2, <4>1 DEF ValueRun
      <4> HIDE DEF M, w
      <4> QED BY <1>1, <4>1, <4>2, <4>3
    <3> QED BY <3>1, <3>2
  <2> HIDE DEF w, s, M
  <2> QED BY <1>1, <2>1, <2>2 DEF ValueRun
<1>5. Number(s) = w[M + 1]
  <2> HIDE DEF w, s, M
  <2> QED BY <1>1, <1>4, NumberIs
<1>6. w[M + 1] = Value(d) + 256 * v[M]
  <2> HIDE DEF M
  <2> QED BY <1>1
<1> QED BY <1>3, <1>5, <1>6

\* The bytes that crc_cksum() takes are those of the number, and no more.
LEMMA LengthIs ==
  ASSUME NEW n \in Nat
  PROVE  /\ LengthBytes(n) \in Seq(Byte) /\ Number(LengthBytes(n)) = n
         /\ n # 0 => LengthBytes(n)[Len(LengthBytes(n))] # {}
<1> DEFINE Equation(b) == b = [x \in 0 .. n |-> IF x = 0 THEN << >>
                                                ELSE <<ToByte(x)>> \o b[x \div 256]]
           r == CHOOSE b : Equation(b)
           Fits(s, x) == /\ s \in Seq(Byte) /\ Number(s) = x
                         /\ x # 0 => s[Len(s)] # {}
<1>1. \A x \in 1 .. n : ToByte(x) \in Byte /\ x \div 256 \in 0 .. n /\ x \div 256 < x
  <2>1. \A x \in 1 .. n : ToByte(x) \in Byte
    BY ByteValue
  <2> QED BY <2>1
<1>2. \E b : Equation(b)
  <2> DEFINE step == [x \in 1 .. n |-> [t \in Seq(Byte) |-> <<ToByte(x)>> \o t]]
             prev == [x \in 1 .. n |-> x \div 256]
  <2>1. /\ step \in [1 .. n -> [Seq(Byte) -> Seq(Byte)]] /\ prev \in [1 .. n -> Nat]
        /\ \A x \in 1 .. n : prev[x] < x
    <3>1. \A x \in 1 .. n : \A t \in Seq(Byte) : <<ToByte(x)>> \o t \in Seq(Byte)
      BY <1>1
    <3> QED BY <1>1, <3>1
  <2>2. PICK b : Recursion(b, Seq(Byte), n, << >>, prev, step)
    <3>1. << >> \in Seq(Byte)
      OBVIOUS
    <3> HIDE DEF step, prev
    <3> QED BY <2>1, <3>1, RecursionExists, Zenon
  <2>3. ASSUME NEW x \in 1 .. n
        PROVE  b[x] = <<ToByte(x)>> \o b[x \div 256]
    <3>1. b[x \div 256] \in Seq(Byte)
      BY <1>1, <2>2 DEF Recursion
    <3>2. b[x] = step[x][b[x \div 256]]
      BY <2>2 DEF Recursion
    <3> QED BY <3>1, <3>2
  <2>4. Equation(b)
    <3>1. b \in [0 .. n -> Seq(Byte)] /\ b[0] = << >>
      BY <2>2 DEF Recursion
    <3> QED BY <2>3, <3>1
  <2> QED BY <2>4
<1>3. Equation(r)
  <2> HIDE DEF Equation
  <2> QED BY <1>2
<1>4. r[0] = << >> /\ \A x \in 1 .. n : r[x] = <<ToByte(x)>> \o r[x \div 256]
  <2> DEFINE g == [x \in 0 .. n |-> IF x = 0 THEN << >> ELSE <<ToByte(x)>> \o r[x \div 256]]
  <2>1. r = g
    BY <1>3
  <2>2. g[0] = << >> /\ \A x \in 1 .. n : g[x] = <<ToByte(x)>> \o r[x \div 256]
    <3> HIDE DEF r
    <3> QED OBVIOUS
  <2> HIDE DEF r, g
  <2> QED BY <2>1, <2>2
<1>5. LengthBytes(n) = r[n]
  BY DEF LengthBytes
<1> HIDE DEF r
<1>6. Fits(r[0], 0)
  <2>1. << >> \in Seq(Byte) /\ Len(<< >>) = 0
    OBVIOUS
  <2>2. PICK v : ValueRun(v, << >>)
    BY <2>1, ValueRunExists
  <2>3. Number(<< >>) = 0
    BY <2>1, <2>2, NumberIs DEF ValueRun
  <2> QED BY <1>4, <2>1, <2>3
<1>7. ASSUME NEW x \in 1 .. n, Fits(r[x \div 256], x \div 256)
      PROVE  Fits(r[x], x)
  <2> DEFINE t == r[x \div 256]
  <2>1. t \in Seq(Byte) /\ Number(t) = x \div 256 /\ r[x] = <<ToByte(x)>> \o t
    BY <1>4, <1>7
  <2>2. ToByte(x) \in Byte /\ Value(ToByte(x)) = x % 256
    BY ByteValue
  <2>3. Number(r[x]) = x
    <3>1. Number(r[x]) = (x % 256) + 256 * (x \div 256)
      <4> HIDE DEF t
      <4> QED BY <2>1, <2>2, NumberCons
    <3> QED BY <3>1
  <2>4. r[x] \in Seq(Byte) /\ Len(r[x]) = Len(t) + 1
    <3> HIDE DEF t
    <3> QED BY <2>1, <2>2
  <2>5. r[x][Len(r[x])] # {}
    <3>1. CASE x \div 256 = 0
      <4>1. t = << >>
        BY <1>4, <3>1
      <4>2. Len(r[x]) = 1 /\ r[x][1] = ToByte(x)
        <5> HIDE DEF t
        <5> QED BY <2>1, <2>2, <4>1
      <4>3. ToByte(x) # {}
        <5>1. x % 256 # 0
          BY <3>1
        <5>2. Value({}) = 0
          BY DEF Value
        <5> QED BY <2>2, <5>1, <5>2
      <4> QED BY <4>2, <4>3
    <3>2. CASE x \div 256 # 0
      <4>1. t[Len(t)] # {}
        BY <1>7, <3>2
      <4>2. t # << >>
        <5>1. x \div 256 \in 1 .. n
          BY <3>2
        <5>2. r[x \div 256] = <<ToByte(x \div 256)>> \o r[(x \div 256) \div 256]
          BY <1>4, <5>1
        <5>3. Number(<< >>) = 0
          BY <1>4, <1>6
        <5> QED BY <2>1, <3>2, <5>3
      <4>3. Len(t) \in Nat \ {0} /\ (<<ToByte(x)>> \o t)[Len(t) + 1] = t[Len(t)]
        <5> HIDE DEF t
        <5> QED BY <2>1, <4>2
      <4> HIDE DEF t
      <4> QED BY <2>1, <2>4, <4>1, <4>3
    <3> QED BY <3>1, <3>2
  <2> QED BY <2>3, <2>4, <2>5
<1> DEFINE S == {k \in Nat : \A x \in 0 .. k : x <= n => Fits(r[x], x)}
<1> HIDE DEF Fits
<1>8. 0 \in S
  BY <1>6
<1>9. ASSUME NEW k \in Nat, k \in S
      PROVE  k + 1 \in S
  <2> SUFFICES ASSUME NEW x \in 0 .. k + 1, x <= n
               PROVE  Fits(r[x], x)
    OBVIOUS
  <2>1. CASE x \in 0 .. k
    BY <1>9, <2>1
  <2>2. CASE x = k + 1
    <3>1. x \in 1 .. n /\ x \div 256 \in 0 .. k /\ x \div 256 <= n
      BY <2>2
    <3> QED BY <1>7, <1>9, <3>1
  <2> QED BY <2>1, <2>2
<1>10. n \in S
  <2> HIDE DEF S
  <2> QED BY <1>8, <1>9, SetInduction
<1>11. Fits(r[n], n)
  BY <1>10
<1> QED BY <1>5, <1>11 DEF Fits

-----------------------------------------------------------------------------
(* The theorems.                                                           *)

\* The running value is 32 shifts ahead of the division of the bytes committed.
CrcInv ==
  /\ data \in Seq(Byte) /\ allin \in 0 .. Len(data)
  /\ rest = Divide({}, SubSeq(data, 1, allin)) /\ rest \in Word
  /\ crc = Divide(rest, Zeros)

\* Every commit keeps that: buf_commit_r() and buf_commit_w() hand crc_calc()
\* the bytes that follow those it has had.
LEMMA CommitCrc ==
  ASSUME CrcInv, NEW n \in Blocks, Commit(n)
  PROVE  CrcInv'
<1> DEFINE chunk == SubSeq(data, allin + 1, allin + n)
           done == SubSeq(data, 1, allin)
<1>1. n \in Nat /\ n <= Len(data) - allin /\ allin' = allin + n /\ data' = data
  BY InputsAssumption DEF Commit
<1>2. chunk \in Seq(Byte) /\ done \in Seq(Byte) /\ {} \in Word
  BY <1>1 DEF CrcInv, Word
<1>3. SubSeq(data, 1, allin + n) = done \o chunk
  BY <1>1 DEF CrcInv
<1>4. rest' = Divide(rest, chunk) /\ crc' = crc_calc(crc, chunk)
  BY DEF Commit
<1>5. rest' = Divide({}, SubSeq(data, 1, allin + n)) /\ rest' \in Word
  <2> HIDE DEF chunk, done
  <2>1. rest = Divide({}, done) /\ rest \in Word
    BY DEF CrcInv, done
  <2>2. Divide({}, done \o chunk) = Divide(rest, chunk)
    BY <1>2, <2>1, DivideParts
  <2>3. Divide(rest, chunk) \in Word
    BY <1>2, <2>1, DivideParts
  <2> QED BY <1>3, <1>4, <2>2, <2>3
<1>6. crc' = Divide(rest', Zeros)
  <2> HIDE DEF chunk
  <2> QED BY <1>2, <1>4, CalcDivides DEF CrcInv
<1>7. allin' \in 0 .. Len(data')
  BY <1>1 DEF CrcInv
<1> QED BY <1>1, <1>5, <1>6, <1>7 DEF CrcInv

\* CrcInv holds whenever a chunk has been committed (buffer.h:89-111).
THEOREM CrcInductive == Spec => []CrcInv
<1>1. Init => CrcInv
  <2> SUFFICES ASSUME Init PROVE CrcInv
    OBVIOUS
  <2>1. data \in Seq(Byte) /\ allin = 0 /\ crc = {} /\ rest = {} /\ {} \in Word
    BY InputsAssumption DEF Init, crc_beg, Word
  <2>2. SubSeq(data, 1, 0) = << >> /\ << >> \in Seq(Byte) /\ << >> \o << >> = << >>
    BY <2>1
  <2>3. Divide({}, << >>) = {}
    <3>1. FeedRun([k \in 0 .. 0 |-> {}], {}, << >>)
      BY <2>1 DEF FeedRun
    <3> QED BY <2>1, <2>2, <3>1, DivideIs
  <2>4. Push32({}) = {}
    <3>1. Push8({}) = {}
      <4>1. Shl({}, 8) = {}
        BY DEF Shl
      <4> QED BY <2>1, <4>1, Push8Shifts
    <3> QED BY <3>1 DEF Push32
  <2>5. crc = Divide(rest, Zeros)
    BY <2>1, <2>4, DivideZeros
  <2>6. SubSeq(data, 1, allin) = << >> /\ allin \in 0 .. Len(data)
    BY <2>1, <2>2
  <2>7. rest = Divide({}, SubSeq(data, 1, allin))
    BY <2>1, <2>3, <2>6
  <2> QED BY <2>1, <2>5, <2>6, <2>7 DEF CrcInv
<1>2. CrcInv /\ [Next]_vars => CrcInv'
  <2> SUFFICES ASSUME CrcInv, [Next]_vars PROVE CrcInv'
    OBVIOUS
  <2>1. CASE Next
    BY <2>1, CommitCrc DEF Next
  <2>2. CASE UNCHANGED vars
    BY <2>2 DEF CrcInv, vars
  <2> QED BY <2>1, <2>2
<1> QED BY <1>1, <1>2, PTL DEF Spec

\* The value kept is the remainder of the bytes committed times x^32, for every
\* input and every way to cut it into chunks (crc.h:46).
THEOREM CrcDivides == Spec => []CrcIsRemainder
<1>1. CrcInv => CrcIsRemainder
  BY DEF CrcInv, CrcIsRemainder
<1> QED BY <1>1, CrcInductive, PTL

\* Put without the history variable: however the input was cut, the value
\* depends on the bytes committed alone, so that the crc of -c and that of -C
\* are equal when all that was read has been written (buffer.h:95, 106).
THEOREM CrcOfWhole ==
  Spec => [](crc = Divide({}, SubSeq(data, 1, allin) \o Zeros))
<1>1. CrcInv => crc = Divide({}, SubSeq(data, 1, allin) \o Zeros)
  <2> SUFFICES ASSUME CrcInv PROVE crc = Divide({}, SubSeq(data, 1, allin) \o Zeros)
    OBVIOUS
  <2>1. SubSeq(data, 1, allin) \in Seq(Byte) /\ {} \in Word /\ Zeros \in Seq(Byte)
    BY DEF CrcInv, Word, Byte, Zeros
  <2> QED BY <2>1, DivideParts DEF CrcInv
<1> QED BY <1>1, CrcInductive, PTL

\* The number reported is that of the data followed by the bytes of its length:
\* the bytes stand for the length, the least first and the last one not zero, of
\* whatever length the data is (crc.c:78).
THEOREM CksumDivides == Spec => []CksumIsRemainder
<1>1. CrcInv => CksumIsRemainder
  <2> SUFFICES ASSUME CrcInv PROVE CksumIsRemainder
    OBVIOUS
  <2> DEFINE len == LengthBytes(allin)
  <2>1. allin \in Nat
    BY DEF CrcInv
  <2>2. len \in Seq(Byte) /\ Number(len) = allin /\ (allin # 0 => len[Len(len)] # {})
    BY <2>1, LengthIs
  <2>3. Zeros \in Seq(Byte)
    BY DEF Byte, Zeros
  <2>4. crc_cksum(crc, allin) = Divide(Divide(rest, len), Zeros)
    <3> HIDE DEF len
    <3>1. crc_calc(Divide(rest, Zeros), len) = Divide(Divide(rest, len), Zeros)
      BY <2>2, CalcDivides DEF CrcInv
    <3> QED BY <3>1 DEF crc_cksum, CrcInv, len
  <2>5. Divide(rest, len \o Zeros) = Divide(Divide(rest, len), Zeros)
    <3> HIDE DEF len
    <3> QED BY <2>2, <2>3, DivideParts DEF CrcInv
  <2> HIDE DEF len
  <2> QED BY <2>2, <2>4, <2>5 DEF CksumIsRemainder, len
<1> QED BY <1>1, CrcInductive, PTL
=============================================================================
