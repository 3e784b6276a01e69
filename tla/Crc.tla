-------------------------------- MODULE Crc --------------------------------
(***************************************************************************)
(* The checksums of -c and -C (crc.c, crc.h): the table, the update of the *)
(* running value by each committed chunk, and the two numbers reported at  *)
(* the end.  A word is the set of its one bits, so that ^ is the symmetric *)
(* difference and the 32-bit width is that of the sets.                    *)
(***************************************************************************)
EXTENDS Naturals, SequencesExt

CONSTANTS
  Inputs,     \* what there is to transfer: sequences of bytes
  Blocks      \* how much of it one read() or write() may transfer

CRCBITS == 32

Word == SUBSET (0 .. CRCBITS - 1)
Byte == SUBSET (0 .. 7)

ASSUME InputsAssumption == Inputs \subseteq Seq(Byte) /\ Blocks \subseteq Nat \ {0}

\* 0x04C11DB7
poly == {26, 23, 22, 16, 12, 11, 10, 8, 7, 5, 4, 2, 1, 0}

Xor(a, b) == {i \in 0 .. CRCBITS - 1 : (i \in a) # (i \in b)}
Shl(a, n) == {i + n : i \in {j \in a : j + n < CRCBITS}}

\* a >> (CRCBITS - 8)
TopByte(a) == {i - (CRCBITS - 8) : i \in {j \in a : j >= CRCBITS - 8}}

\* crc_init(): eight times a shift, and poly when a one falls out; first with
\* poly taken when the bit that has become the top one is set.
PushLate(c) ==
  IF CRCBITS - 1 \in Shl(c, 1) THEN Xor(Shl(c, 1), poly) ELSE Shl(c, 1)
Push(c) == IF CRCBITS - 1 \in c THEN Xor(Shl(c, 1), poly) ELSE Shl(c, 1)

ctab ==
  [i \in Byte |->
     LET c[j \in 0 .. 8] == IF j = 0 THEN Shl(i, CRCBITS - 8) ELSE Push(c[j - 1])
     IN  c[8]]

\* crc_calc(): one byte, and all bytes of a chunk.
Update ==
  [c \in Word |-> [d \in Byte |-> Xor(Shl(c, 8), ctab[Xor(TopByte(c), d)])]]
crc_calc(c, s) ==
  LET r[k \in 0 .. Len(s)] == IF k = 0 THEN c ELSE Update[r[k - 1]][s[k]]
  IN  r[Len(s)]

crc_beg == {}
crc_end(c) == Xor(c, 0 .. CRCBITS - 1)

\* crc_cksum(): the bytes of the length, the least one first and no more than
\* it has (first the other way round).
ToByte(n) == {i \in 0 .. 7 : (n \div 2 ^ i) % 2 = 1}

LengthBytesHighFirst(n) ==
  LET b[x \in 0 .. n] == IF x = 0 THEN << >> ELSE b[x \div 256] \o <<ToByte(x)>>
  IN  b[n]
LengthBytes(n) ==
  LET b[x \in 0 .. n] == IF x = 0 THEN << >> ELSE <<ToByte(x)>> \o b[x \div 256]
  IN  b[n]

crc_cksum(c, n) == crc_calc(c, LengthBytes(n))

-----------------------------------------------------------------------------
(* The reference: long division over GF(2).                                *)

\* Bring down the next bit, and subtract the divisor x^32 + poly when the
\* remainder had reached its degree.
Bring ==
  [r \in Word |-> [bit \in {{}, {0}} |->
     Xor(Shl(r, 1) \union bit, IF CRCBITS - 1 \in r THEN poly ELSE {})]]

\* Bit k of the bytes s, the highest bit of each first, as a word.
Bit(s, k) == IF 7 - ((k - 1) % 8) \in s[((k - 1) \div 8) + 1] THEN {0} ELSE {}

\* The division goes on over the bytes s.
Divide(rest, s) ==
  LET r[k \in 0 .. 8 * Len(s)] ==
        IF k = 0 THEN rest ELSE Bring[r[k - 1]][Bit(s, k)]
  IN  r[8 * Len(s)]

\* 32 zero bits, for the factor x^32.
Zeros == <<{}, {}, {}, {}>>

-----------------------------------------------------------------------------
(* The running value of one side, over the chunks it commits.              *)

VARIABLES
  data,       \* the input
  allin,      \* buf->allin (or allout): how much of it is committed
  crc,        \* buf->rcrc (or wcrc)
  rest        \* history: what the division of these bytes leaves

vars == <<data, allin, crc, rest>>

Init == data \in Inputs /\ allin = 0 /\ crc = crc_beg /\ rest = {}

\* buf_commit_r(), buf_commit_w()
Commit(n) ==
  /\ n <= Len(data) - allin
  /\ LET chunk == SubSeq(data, allin + 1, allin + n)
     IN  crc' = crc_calc(crc, chunk) /\ rest' = Divide(rest, chunk)
  /\ allin' = allin + n
  /\ UNCHANGED data

Next == \E n \in Blocks : Commit(n)

Spec == Init /\ [][Next]_vars

-----------------------------------------------------------------------------

\* However the data was cut into chunks, the value kept is the remainder of
\* the whole data times x^32: both sides report the same crc for the same
\* data, although they read and write it in different blocks.
CrcIsRemainder == crc = Divide(rest, Zeros)

\* The number that bytes stand for, the least one first.
Value(b) == LET Weight(i) == IF i \in b THEN 2 ^ i ELSE 0
            IN  Weight(0) + Weight(1) + Weight(2) + Weight(3)
                  + Weight(4) + Weight(5) + Weight(6) + Weight(7)
Number(s) ==
  LET v[k \in 0 .. Len(s)] ==
        IF k = 0 THEN 0 ELSE Value(s[Len(s) - k + 1]) + 256 * v[k - 1]
  IN  v[Len(s)]

\* The cksum reported is that of the data followed by the bytes of its length,
\* the low one first and without leading zeros, as cksum computes it.
CksumIsRemainder ==
  LET len == LengthBytes(allin)
  IN  /\ Number(len) = allin /\ (allin # 0 => len[Len(len)] # {})
      /\ crc_cksum(crc, allin) = Divide(rest, len \o Zeros)
=============================================================================
