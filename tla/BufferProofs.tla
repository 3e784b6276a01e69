---------------------------- MODULE BufferProofs ----------------------------
(***************************************************************************)
(* Facts about the ring of Buffer, for every size and every accepted       *)
(* configuration with a block-mode reader.                                 *)
(***************************************************************************)
EXTENDS Buffer, Sequences, TLAPS

\* A configuration buf_ctor() and buf_setextra() accept, typed.
Accepted(o) ==
  /\ ValidOptions(o)
  /\ o.rsp \in Nat /\ o.wsp \in Nat
  /\ o.rline \in BOOLEAN /\ o.wline \in BOOLEAN

-----------------------------------------------------------------------------
(* Cursors.                                                                *)

\* What x & mask does to a cursor that moved by less than a lap.
LEMMA MaskWraps ==
  /\ \A x \in Int : Mask(x) \in Slots
  /\ \A x \in Slots : Mask(x) = x
  /\ \A x \in Int : -Size <= x /\ x < 0 => Mask(x) = x + Size
  /\ \A x \in Int : Size <= x /\ x < 2 * Size => Mask(x) = x - Size
BY SizeAssumption, SMTT(30) DEF Mask, Slots

\* The fill level is less than the size, and what is not filled is empty.
LEMMA FillLevel ==
  ASSUME NEW g \in Slots, NEW d \in Slots
  PROVE  /\ Hav(g, d) \in 0 .. Size - 1
         /\ Emp(g, d) = Size - Hav(g, d)
<1>1. CASE g < d
  BY <1>1, MaskWraps, SizeAssumption DEF Hav, Emp, Slots
<1>2. CASE g = d
  BY <1>2, MaskWraps, SizeAssumption DEF Hav, Emp, Slots
<1>3. CASE g > d
  BY <1>3, MaskWraps, SizeAssumption DEF Hav, Emp, Slots
<1> QED BY <1>1, <1>2, <1>3, SizeAssumption DEF Slots

\* buf_commit_rf(): the fill level rises by what was read, if it fitted.
LEMMA FillRises ==
  ASSUME NEW g \in Slots, NEW d \in Slots, NEW n \in Nat,
         n + Hav(g, d) < Size
  PROVE  /\ Mask(g + n) \in Slots
         /\ Hav(Mask(g + n), d) = Hav(g, d) + n
<1>1. CASE g < d
  BY <1>1, MaskWraps, SizeAssumption DEF Hav, Slots
<1>2. CASE g >= d /\ g + n < Size
  BY <1>2, MaskWraps, SizeAssumption DEF Hav, Slots
<1>3. CASE g >= d /\ g + n >= Size
  BY <1>3, MaskWraps, SizeAssumption DEF Hav, Slots
<1> QED BY <1>1, <1>2, <1>3, SizeAssumption DEF Slots

\* buf_commit_wf(): the fill level falls by what was written, if it was there.
LEMMA FillFalls ==
  ASSUME NEW g \in Slots, NEW d \in Slots, NEW n \in Nat,
         n <= Hav(g, d)
  PROVE  /\ Mask(d + n) \in Slots
         /\ Hav(g, Mask(d + n)) = Hav(g, d) - n
<1>1. CASE g >= d
  BY <1>1, MaskWraps, SizeAssumption DEF Hav, Slots
<1>2. CASE g < d /\ d + n < Size
  BY <1>2, MaskWraps, SizeAssumption DEF Hav, Slots
<1>3. CASE g < d /\ d + n >= Size
  BY <1>3, MaskWraps, SizeAssumption DEF Hav, Slots
<1> QED BY <1>1, <1>2, <1>3, SizeAssumption DEF Slots

-----------------------------------------------------------------------------
(* The two decisions, in terms of the fill level h.                        *)

\* What the TODO of buf_ctor() asks for: a ring of more than two blocks, with
\* resume points between the blocks, has no fill level at which both sides
\* are refused, suspended or not, unless both are suspended at once.
THEOREM SharpSizesSuffice ==
  ASSUME NEW o, Accepted(o), NEW h \in 0 .. Size - 1,
         NEW rs \in BOOLEAN, rs => o.rsp # 0,
         NEW ws \in BOOLEAN, ws => o.wsp # 0,
         ~(rs /\ ws)
  PROVE  GrantR(o, Size - h, rs) > 0 \/ GrantW(o, h, ws, WMin(o), o.wsp) > 0
<1> USE SizeAssumption DEF Accepted, ValidOptions
<1>1. CASE rs
  \* h > rsp > wblk, so the writer has a block.
  <2>1. CASE ReadSuspended(o, Size - h)
    <3>1. h > o.rsp /\ o.rsp > o.wblk BY <1>1, <2>1 DEF ReadSuspended
    <3>2. GrantW(o, h, ws, WMin(o), o.wsp) = o.wblk BY <1>1, <3>1 DEF GrantW
    <3> QED BY <3>2
  <2>2. CASE ~ReadSuspended(o, Size - h)
    <3>1. GrantR(o, Size - h, rs) = o.rblk BY <1>1, <2>2 DEF GrantR
    <3> QED BY <3>1
  <2> QED BY <2>1, <2>2
<1>2. CASE ~rs /\ Size - h > o.rblk
  <2>1. GrantR(o, Size - h, rs) = o.rblk BY <1>2 DEF GrantR
  <2> QED BY <2>1
<1>3. CASE ~rs /\ Size - h <= o.rblk
  \* h >= Size - rblk, which is at least a block and above the resume point.
  <2>1. h >= o.wblk /\ (ws => h >= o.wsp) BY <1>3
  <2>2. GrantW(o, h, ws, WMin(o), o.wsp) = o.wblk
    BY <2>1 DEF GrantW, WriteSuspended
  <2> QED BY <2>2
<1> QED BY <1>1, <1>2, <1>3

\* What buf_can_r() grants fits and leaves one byte free; a reader it sends
\* to sleep would be refused again, and is only stalled with a resume point.
LEMMA GrantRFits ==
  ASSUME NEW o, Accepted(o), RMin(o) = o.rblk, NEW h \in 0 .. Size - 1,
         NEW rs \in BOOLEAN, rs => o.rsp # 0
  PROVE  LET n == GrantR(o, Size - h, rs)
             s == StallsR(o, Size - h, rs)
         IN  /\ n \in Nat
             /\ n # 0 => n > 0 /\ n + h < Size
             /\ n = 0 => GrantR(o, Size - h, s) = 0
             /\ n # 0 => ~s
             /\ s \in BOOLEAN /\ (s => o.rsp # 0)
             /\ n = 0 /\ rs => h > o.rsp
             /\ n = 0 /\ ~rs => Size - h <= o.rblk
<1>1. /\ o.rblk \in Nat /\ o.rblk > 0 /\ 2 * o.rblk < Size
      /\ o.rsp \in Nat /\ (o.rsp # 0 => o.rsp < Size - o.rblk)
  BY DEF Accepted, ValidOptions
<1>2. RMin(o) = o.rblk
  OBVIOUS
<1>3. \A e \in 1 .. Size :
        GrantR(o, e, rs) = IF rs THEN IF e < Size - o.rsp THEN 0 ELSE o.rblk
                           ELSE IF e > o.rblk THEN o.rblk ELSE 0
  BY <1>1, <1>2, SizeAssumption DEF GrantR, ReadSuspended
<1>4. \A e \in 1 .. Size :
        GrantR(o, e, TRUE) = IF e < Size - o.rsp THEN 0 ELSE o.rblk
  BY <1>1, <1>2, SizeAssumption DEF GrantR, ReadSuspended
<1> DEFINE e == Size - h
           n == GrantR(o, e, rs)
           s == StallsR(o, e, rs)
<1>5. e \in 1 .. Size
  BY SizeAssumption
<1>6. s = (n = 0 /\ (rs \/ o.rsp # 0))
  BY DEF StallsR
<1>7. n = IF rs THEN IF e < Size - o.rsp THEN 0 ELSE o.rblk
          ELSE IF e > o.rblk THEN o.rblk ELSE 0
  BY <1>3, <1>5
<1>8. n = 0 => GrantR(o, e, s) = 0
  <2> SUFFICES ASSUME n = 0 PROVE GrantR(o, e, s) = 0
    OBVIOUS
  <2>1. CASE s
    <3>1. s = TRUE
      BY <2>1, <1>6
    <3>2. GrantR(o, e, s) = IF e < Size - o.rsp THEN 0 ELSE o.rblk
      BY <3>1, <1>4, <1>5
    <3>3. o.rsp # 0
      BY <2>1, <1>6
    <3>4. e < Size - o.rsp
      BY <3>3, <1>1, <1>5, <1>7, SizeAssumption
    <3> QED BY <3>2, <3>4
  <2>2. CASE ~s
    BY <2>2, <1>6
  <2> QED BY <2>1, <2>2
<1>9. s \in BOOLEAN /\ (s => o.rsp # 0) /\ (n # 0 => ~s)
  BY <1>6
<1>10. /\ n \in Nat
       /\ n # 0 => n > 0 /\ n + h < Size
       /\ n = 0 /\ rs => h > o.rsp
       /\ n = 0 /\ ~rs => Size - h <= o.rblk
  BY <1>1, <1>5, <1>7, SizeAssumption
<1> QED BY <1>8, <1>9, <1>10

\* What buf_can_w() grants is there; a writer it sends to sleep would be
\* refused again, and is only stalled with a resume point.
LEMMA GrantWThere ==
  ASSUME NEW o, Accepted(o), NEW h \in 0 .. Size - 1,
         NEW ws \in BOOLEAN, NEW wmin \in Nat, NEW wsp \in Nat,
         wmin <= o.wblk, wsp # 0 => o.wblk < wsp, ws => wsp # 0, wmin > 0
  PROVE  LET n == GrantW(o, h, ws, wmin, wsp)
             s == StallsW(o, h, ws, wmin, wsp)
         IN  /\ n \in Nat
             /\ n # 0 => n > 0 /\ n <= h
             /\ n = 0 => GrantW(o, h, s, wmin, wsp) = 0
             /\ n # 0 => ~s
             /\ s \in BOOLEAN /\ (s => wsp # 0)
             /\ n = 0 /\ ws => h < wsp
             /\ n = 0 /\ ~ws => h < wmin
<1>1. o.wblk \in Nat /\ o.wblk > 0
  BY DEF Accepted, ValidOptions
<1>2. GrantW(o, h, ws, wmin, wsp) =
        IF ws THEN IF h < wsp THEN 0 ELSE o.wblk
        ELSE IF h >= o.wblk THEN o.wblk ELSE IF h >= wmin THEN h ELSE 0
  BY <1>1, SizeAssumption DEF GrantW, WriteSuspended
<1>3. GrantW(o, h, TRUE, wmin, wsp) = IF h < wsp THEN 0 ELSE o.wblk
  BY <1>1, SizeAssumption DEF GrantW, WriteSuspended
<1> DEFINE n == GrantW(o, h, ws, wmin, wsp)
           s == StallsW(o, h, ws, wmin, wsp)
<1>4. s = (n = 0 /\ (ws \/ wsp # 0))
  BY DEF StallsW
<1>5. /\ n \in Nat
      /\ n # 0 => n > 0 /\ n <= h
      /\ n = 0 /\ ws => h < wsp
      /\ n = 0 /\ ~ws => h < wmin
  BY <1>1, <1>2, SizeAssumption
<1>6. n = 0 => GrantW(o, h, s, wmin, wsp) = 0
  <2> SUFFICES ASSUME n = 0 PROVE GrantW(o, h, s, wmin, wsp) = 0
    OBVIOUS
  <2>1. CASE s
    <3>1. s = TRUE
      BY <2>1, <1>4
    <3>2. GrantW(o, h, s, wmin, wsp) = IF h < wsp THEN 0 ELSE o.wblk
      BY <3>1, <1>3
    <3>3. h < wsp
      BY <2>1, <1>1, <1>4, <1>5, SizeAssumption
    <3> QED BY <3>2, <3>3
  <2>2. CASE ~s
    BY <2>2, <1>4
  <2> QED BY <2>1, <2>2
<1>7. s \in BOOLEAN /\ (s => wsp # 0) /\ (n # 0 => ~s)
  BY <1>4
<1> QED BY <1>5, <1>6, <1>7

-----------------------------------------------------------------------------
(* What an access moves stays within the bytes it is made of.              *)

\* A read() straight into the ring.
LEMMA StoreType ==
  ASSUME NEW o, NEW B, NEW m \in [Slots -> B], NEW g \in Slots, NEW n \in Nat,
         NEW c \in [0 .. n - 1 -> B]
  PROVE  Store(o, m, g, n, c) \in [Slots -> B]
<1> SUFFICES ASSUME NEW s \in Slots,
                    NEW k, k = IF o.iscir THEN Mask(s - g) ELSE s - g
             PROVE  (IF k \in 0 .. n - 1 THEN c[k] ELSE m[s]) \in B
  BY DEF Store
<1> QED OBVIOUS

\* The two copies of ibuf_commit_rbounce().
LEMMA BounceInType ==
  ASSUME NEW B, NEW m \in [Slots -> B], NEW g \in Slots, NEW n \in Nat,
         NEW c \in [0 .. n - 1 -> B]
  PROVE  BounceIn(m, g, n, c) \in [Slots -> B]
<1> DEFINE siz1 == Least(Size - g, n)
           siz2 == n - siz1
<1>1. siz1 \in Nat /\ siz1 <= n /\ siz1 <= Size - g /\ siz2 \in Nat
  BY SizeAssumption DEF Least, Slots
<1> SUFFICES ASSUME NEW s \in Slots
             PROVE  (IF s \in g .. g + siz1 - 1 THEN c[s - g]
                     ELSE IF s < siz2 THEN c[siz1 + s] ELSE m[s]) \in B
  BY DEF BounceIn
<1> HIDE DEF siz1
<1>2. s \in g .. g + siz1 - 1 => s - g \in 0 .. n - 1
  BY <1>1, SizeAssumption DEF Slots
<1>3. s < siz2 => siz1 + s \in 0 .. n - 1
  BY <1>1, SizeAssumption DEF Slots
<1> QED BY <1>2, <1>3

\* A write() straight from the ring, which has to lie there in a row.
LEMMA LoadType ==
  ASSUME NEW o, NEW B, NEW m \in [Slots -> B], NEW d \in Slots, NEW n \in Nat,
         Direct(o, d, n)
  PROVE  Load(o, m, d, n) \in [0 .. n - 1 -> B]
<1> SUFFICES ASSUME NEW k \in 0 .. n - 1
             PROVE  Cell(o, d + k) \in Slots
  BY DEF Load
<1>1. d + k \in Int /\ d + k >= 0 /\ d + k < d + n
  BY SizeAssumption DEF Slots
<1>2. CASE o.iscir
  BY <1>1, <1>2, MaskWraps DEF Cell
<1>3. CASE ~o.iscir
  BY <1>1, <1>3, SizeAssumption DEF Cell, Direct, Slots
<1> QED BY <1>2, <1>3

\* The two copies of ibuf_fetch_wbounce().
LEMMA BounceOutType ==
  ASSUME NEW B, NEW m \in [Slots -> B], NEW d \in Slots, NEW n \in Nat, n <= Size
  PROVE  BounceOut(m, d, n) \in [0 .. n - 1 -> B]
<1> DEFINE siz1 == Least(Size - d, n)
<1>1. siz1 \in Nat /\ siz1 <= n /\ siz1 <= Size - d /\ (siz1 = Size - d \/ siz1 = n)
  BY SizeAssumption DEF Least, Slots
<1> SUFFICES ASSUME NEW k \in 0 .. n - 1
             PROVE  (IF k < siz1 THEN m[d + k] ELSE m[k - siz1]) \in B
  BY DEF BounceOut
<1> HIDE DEF siz1
<1>2. k < siz1 => d + k \in Slots
  BY <1>1, SizeAssumption DEF Slots
<1>3. ~(k < siz1) => k - siz1 \in Slots
  BY <1>1, SizeAssumption DEF Slots
<1> QED BY <1>2, <1>3

\* buf_fetch_w(), whichever of them it takes.
LEMMA FetchWType ==
  ASSUME NEW o, NEW B, NEW m \in [Slots -> B], NEW d \in Slots, NEW n \in Nat,
         n <= Size
  PROVE  FetchW(o, m, d, n) \in [0 .. n - 1 -> B]
BY LoadType, BounceOutType DEF FetchW

\* A padded block is data followed by zeros.
LEMMA FetchPaddedType ==
  ASSUME NEW o, NEW m, NEW b \in Nat, m \in [Slots -> 0 .. b], NEW d \in Slots,
         NEW n \in Nat, n <= Size, o.wblk \in Nat
  PROVE  /\ Padding(o, n) \in Nat
         /\ FetchPadded(o, m, d, n) \in [0 .. n + Padding(o, n) - 1 -> 0 .. b]
<1>1. Padding(o, n) \in Nat
  BY DEF Padding
<1>2. BounceOut(m, d, n) \in [0 .. n - 1 -> 0 .. b]
  BY BounceOutType
<1>3. FetchW(o, m, d, n) \in [0 .. n - 1 -> 0 .. b]
  BY FetchWType
<1> DEFINE c == IF Padding(o, n) > 0 THEN BounceOut(m, d, n) ELSE FetchW(o, m, d, n)
<1>4. c \in [0 .. n - 1 -> 0 .. b]
  BY <1>2, <1>3
<1> HIDE DEF c
<1>5. \A k \in 0 .. n + Padding(o, n) - 1 : (IF k < n THEN c[k] ELSE 0) \in 0 .. b
  BY <1>1, <1>4
<1>6. FetchPadded(o, m, d, n) =
        [k \in 0 .. n + Padding(o, n) - 1 |-> IF k < n THEN c[k] ELSE 0]
  BY DEF FetchPadded, c
<1> QED BY <1>1, <1>5, <1>6

\* The first n bytes of a chunk as a sequence.
LEMMA AsSeqType ==
  ASSUME NEW B, NEW k \in Nat, NEW n \in Nat, n <= k, NEW c \in [0 .. k - 1 -> B]
  PROVE  AsSeq(c, n) \in Seq(B) /\ Len(AsSeq(c, n)) = n
<1>1. \A i \in 1 .. n : c[i - 1] \in B
  OBVIOUS
<1> QED BY <1>1 DEF AsSeq

-----------------------------------------------------------------------------
(* Where an access finds or puts each byte: n bytes behind h, counted from  *)
(* the consumer's cursor d, whichever way the ring is reached.              *)

\* The producer's cursor is as far ahead as the ring is filled.
LEMMA CursorAhead ==
  ASSUME NEW g \in Slots, NEW d \in Slots
  PROVE  g = Mask(d + Hav(g, d))
<1>1. CASE g < d
  BY <1>1, MaskWraps, SizeAssumption DEF Hav, Slots
<1>2. CASE g >= d
  BY <1>2, MaskWraps, SizeAssumption DEF Hav, Slots
<1> QED BY <1>1, <1>2, SizeAssumption DEF Slots

\* Two moves of less than a lap are one.
LEMMA MovesAdd ==
  ASSUME NEW d \in Slots, NEW a \in Nat, NEW b \in Nat, a + b <= Size
  PROVE  /\ Mask(d + a) \in Slots
         /\ Mask(Mask(d + a) + b) = Mask(d + a + b)
<1>1. CASE d + a < Size
  BY <1>1, MaskWraps, SizeAssumption DEF Slots
<1>2. CASE d + a >= Size /\ d + a < 2 * Size
  BY <1>2, MaskWraps, SizeAssumption DEF Slots
<1>3. CASE d + a >= 2 * Size
  BY <1>3, SizeAssumption DEF Slots
<1> QED BY <1>1, <1>2, <1>3, SizeAssumption DEF Slots

\* The distance between two places, seen from the nearer one.
LEMMA Distance ==
  ASSUME NEW d \in Slots, NEW h \in Slots, NEW j \in Slots
  PROVE  Mask(Mask(d + j) - Mask(d + h)) = IF j >= h THEN j - h ELSE j - h + Size
<1>1. /\ Mask(d + j) = IF d + j < Size THEN d + j ELSE d + j - Size
      /\ Mask(d + h) = IF d + h < Size THEN d + h ELSE d + h - Size
  BY MaskWraps, SizeAssumption DEF Slots
<1>2. CASE Mask(d + j) - Mask(d + h) = j - h
  BY <1>2, MaskWraps, SizeAssumption DEF Slots
<1>3. CASE Mask(d + j) - Mask(d + h) = j - h + Size
  BY <1>1, <1>3, MaskWraps, SizeAssumption DEF Slots
<1>4. CASE Mask(d + j) - Mask(d + h) = j - h - Size
  BY <1>1, <1>4, MaskWraps, SizeAssumption DEF Slots
<1> QED BY <1>1, <1>2, <1>3, <1>4, SizeAssumption DEF Slots

\* Where in the chunk a direct read() finds the byte for the place j behind the
\* consumer's cursor.
LEMMA StorePlace ==
  ASSUME NEW o, NEW d \in Slots, NEW h \in Nat, NEW n \in Nat,
         h + n < Size, Direct(o, Mask(d + h), n),
         NEW j \in 0 .. h + n - 1
  PROVE  LET k == IF o.iscir THEN Mask(Mask(d + j) - Mask(d + h))
                  ELSE Mask(d + j) - Mask(d + h)
         IN  /\ k \in 0 .. n - 1 <=> j >= h
             /\ j >= h => k = j - h
<1> DEFINE g == Mask(d + h)
           s == Mask(d + j)
           k == IF o.iscir THEN Mask(s - g) ELSE s - g
<1>1. h \in Slots /\ j \in Slots /\ s \in Slots /\ g \in Slots
  BY MaskWraps, SizeAssumption DEF Slots
<1>2. CASE o.iscir
  <2>1. k = IF j >= h THEN j - h ELSE j - h + Size
    BY <1>2, <1>1, Distance
  <2> HIDE DEF k
  <2>2. (k \in 0 .. n - 1 <=> j >= h) /\ (j >= h => k = j - h)
    BY <2>1, <1>1, SizeAssumption DEF Slots
  <2> QED BY <2>2 DEF k, s, g
<1>3. CASE ~o.iscir
  <2>1. g + n <= Size
    BY <1>3, <1>1, SizeAssumption DEF Direct, Slots
  <2>2. k = s - g
    BY <1>3
  <2>3. /\ s = IF d + j < Size THEN d + j ELSE d + j - Size
        /\ g = IF d + h < Size THEN d + h ELSE d + h - Size
    BY <1>1, MaskWraps, SizeAssumption DEF Slots
  <2> HIDE DEF s, g, k
  <2>4. (k \in 0 .. n - 1 <=> j >= h) /\ (j >= h => k = j - h)
    BY <2>1, <2>2, <2>3, <1>1, SizeAssumption DEF Slots
  <2> QED BY <2>4 DEF k, s, g
<1> QED BY <1>2, <1>3

\* A direct read() behind h bytes leaves them ...
LEMMA StoreKeeps ==
  ASSUME NEW o, NEW m, NEW c, NEW d \in Slots, NEW h \in Nat, NEW n \in Nat,
         h + n < Size, Direct(o, Mask(d + h), n),
         NEW j \in 0 .. h - 1
  PROVE  Store(o, m, Mask(d + h), n, c)[Mask(d + j)] = m[Mask(d + j)]
<1> DEFINE g == Mask(d + h)
           s == Mask(d + j)
           k == IF o.iscir THEN Mask(s - g) ELSE s - g
<1>1. s \in Slots
  BY MaskWraps DEF Slots
<1>2. Store(o, m, g, n, c)[s] = IF k \in 0 .. n - 1 THEN c[k] ELSE m[s]
  BY <1>1 DEF Store
<1>3. j \in 0 .. h + n - 1 /\ ~(j >= h)
  OBVIOUS
<1>4. k \notin 0 .. n - 1
  BY <1>3, StorePlace
<1> QED BY <1>2, <1>4

\* ... and puts its own in a row.
LEMMA StorePuts ==
  ASSUME NEW o, NEW m, NEW c, NEW d \in Slots, NEW h \in Nat, NEW n \in Nat,
         h + n < Size, Direct(o, Mask(d + h), n),
         NEW i \in 0 .. n - 1
  PROVE  Store(o, m, Mask(d + h), n, c)[Mask(d + h + i)] = c[i]
<1> DEFINE g == Mask(d + h)
           j == h + i
           s == Mask(d + j)
           k == IF o.iscir THEN Mask(s - g) ELSE s - g
<1>1. j \in 0 .. h + n - 1 /\ j >= h /\ j - h = i /\ d + h + i = d + j
  BY SizeAssumption DEF Slots
<1>2. s \in Slots
  BY <1>1, MaskWraps DEF Slots
<1>3. Store(o, m, g, n, c)[s] = IF k \in 0 .. n - 1 THEN c[k] ELSE m[s]
  BY <1>2 DEF Store
<1> HIDE DEF j
<1>4. k = j - h
  BY <1>1, StorePlace
<1> QED BY <1>1, <1>3, <1>4

\* Where ibuf_commit_rbounce() finds it: before or behind the split.
LEMMA BouncePlace ==
  ASSUME NEW d \in Slots, NEW h \in Nat, NEW n \in Nat, h + n < Size,
         NEW j \in 0 .. h + n - 1
  PROVE  LET g    == Mask(d + h)
             s    == Mask(d + j)
             siz1 == Least(Size - g, n)
         IN  /\ s \in Slots
             /\ j < h => ~(s \in g .. g + siz1 - 1) /\ ~(s < n - siz1)
             /\ j >= h /\ s \in g .. g + siz1 - 1 => s - g = j - h
             /\ j >= h /\ ~(s \in g .. g + siz1 - 1) =>
                  s < n - siz1 /\ siz1 + s = j - h
<1> DEFINE g == Mask(d + h)
           s == Mask(d + j)
           siz1 == Least(Size - g, n)
<1>1. h \in Slots /\ j \in Slots /\ s \in Slots /\ g \in Slots
  BY MaskWraps, SizeAssumption DEF Slots
<1>2. siz1 \in Nat /\ siz1 = IF Size - g <= n THEN Size - g ELSE n
  BY <1>1, SizeAssumption DEF Least, Slots
<1>3. /\ s = IF d + j < Size THEN d + j ELSE d + j - Size
      /\ g = IF d + h < Size THEN d + h ELSE d + h - Size
  BY <1>1, MaskWraps, SizeAssumption DEF Slots
<1> HIDE DEF s, g, siz1
<1>4. j < h => ~(s \in g .. g + siz1 - 1) /\ ~(s < n - siz1)
  BY <1>1, <1>2, <1>3, SizeAssumption DEF Slots
<1>5. j >= h /\ s \in g .. g + siz1 - 1 => s - g = j - h
  BY <1>1, <1>2, <1>3, SizeAssumption DEF Slots
<1>6. j >= h /\ ~(s \in g .. g + siz1 - 1) => s < n - siz1 /\ siz1 + s = j - h
  BY <1>1, <1>2, <1>3, SizeAssumption DEF Slots
<1> QED BY <1>1, <1>4, <1>5, <1>6 DEF s, g, siz1

\* ibuf_commit_rbounce() does the same with the bytes of the bounce area.
LEMMA BounceInKeeps ==
  ASSUME NEW m, NEW c, NEW d \in Slots, NEW h \in Nat, NEW n \in Nat,
         h + n < Size, NEW j \in 0 .. h - 1
  PROVE  BounceIn(m, Mask(d + h), n, c)[Mask(d + j)] = m[Mask(d + j)]
<1> DEFINE g == Mask(d + h)
           s == Mask(d + j)
           siz1 == Least(Size - g, n)
<1>1. j \in 0 .. h + n - 1 /\ j < h
  OBVIOUS
<1>2. s \in Slots /\ ~(s \in g .. g + siz1 - 1) /\ ~(s < n - siz1)
  BY <1>1, BouncePlace
<1> QED BY <1>2 DEF BounceIn

\* ... and are put in a row behind it, across the end of the ring.
LEMMA BounceInPuts ==
  ASSUME NEW m, NEW c, NEW d \in Slots, NEW h \in Nat, NEW n \in Nat,
         h + n < Size, NEW i \in 0 .. n - 1
  PROVE  BounceIn(m, Mask(d + h), n, c)[Mask(d + h + i)] = c[i]
<1> DEFINE g == Mask(d + h)
           j == h + i
           s == Mask(d + j)
           siz1 == Least(Size - g, n)
<1>1. j \in 0 .. h + n - 1 /\ j >= h /\ j - h = i /\ d + h + i = d + j
  BY SizeAssumption DEF Slots
<1> HIDE DEF j
<1>2. /\ s \in Slots
      /\ s \in g .. g + siz1 - 1 => s - g = i
      /\ ~(s \in g .. g + siz1 - 1) => s < n - siz1 /\ siz1 + s = i
  BY <1>1, BouncePlace
<1>3. BounceIn(m, g, n, c)[s] =
        IF s \in g .. g + siz1 - 1 THEN c[s - g]
        ELSE IF s < n - siz1 THEN c[siz1 + s] ELSE m[s]
  BY <1>2 DEF BounceIn
<1> HIDE DEF s, g, siz1
<1>4. BounceIn(m, g, n, c)[s] = c[i]
  BY <1>2, <1>3
<1> QED BY <1>1, <1>4 DEF s, g

\* buf_fetch_w(): the block is the next bytes of the ring, in one piece or
\* put together by ibuf_fetch_wbounce().
LEMMA LoadRing ==
  ASSUME NEW o, NEW m, NEW d \in Slots, NEW n \in Nat, n <= Size,
         Direct(o, d, n), NEW k \in 0 .. n - 1
  PROVE  Load(o, m, d, n)[k] = m[Mask(d + k)]
<1>1. Cell(o, d + k) = Mask(d + k)
  <2>1. CASE o.iscir
    BY <2>1 DEF Cell
  <2>2. CASE ~o.iscir
    BY <2>2, MaskWraps, SizeAssumption DEF Cell, Direct, Slots
  <2> QED BY <2>1, <2>2
<1>2. Mask(d + k) \in Slots
  BY MaskWraps DEF Slots
<1> QED BY <1>1, <1>2 DEF Load

\* ibuf_fetch_wbounce() finds the next bytes across the end of the ring.
LEMMA BounceOutRing ==
  ASSUME NEW m, NEW d \in Slots, NEW n \in Nat, n <= Size, NEW k \in 0 .. n - 1
  PROVE  BounceOut(m, d, n)[k] = m[Mask(d + k)]
<1> DEFINE siz1 == Least(Size - d, n)
<1>1. siz1 \in Nat /\ siz1 = IF Size - d <= n THEN Size - d ELSE n
  BY SizeAssumption DEF Least, Slots
<1>2. BounceOut(m, d, n)[k] = IF k < siz1 THEN m[d + k] ELSE m[k - siz1]
  BY DEF BounceOut
<1> HIDE DEF siz1
<1>3. CASE k < siz1
  <2>1. Mask(d + k) = d + k
    BY <1>1, <1>3, MaskWraps, SizeAssumption DEF Slots
  <2> QED BY <2>1, <1>2, <1>3
<1>4. CASE ~(k < siz1)
  <2>1. Mask(d + k) = k - siz1
    BY <1>1, <1>4, MaskWraps, SizeAssumption DEF Slots
  <2> QED BY <2>1, <1>2, <1>4
<1> QED BY <1>3, <1>4

\* So buf_fetch_w() finds them either way.
LEMMA FetchWRing ==
  ASSUME NEW o, NEW m, NEW d \in Slots, NEW n \in Nat, n <= Size,
         NEW k \in 0 .. n - 1
  PROVE  FetchW(o, m, d, n)[k] = m[Mask(d + k)]
<1>1. CASE Direct(o, d, n)
  BY <1>1, LoadRing DEF FetchW
<1>2. CASE ~Direct(o, d, n)
  BY <1>2, BounceOutRing DEF FetchW
<1> QED BY <1>1, <1>2

\* transfer_writer_epi(): the same, completed with zeros.
LEMMA PaddedData ==
  ASSUME NEW o, NEW m, NEW d \in Slots, NEW n \in Nat, n <= Size, o.wblk \in Nat,
         NEW k \in 0 .. n - 1
  PROVE  FetchPadded(o, m, d, n)[k] = m[Mask(d + k)]
<1> DEFINE c == IF Padding(o, n) > 0 THEN BounceOut(m, d, n) ELSE FetchW(o, m, d, n)
<1>1. Padding(o, n) \in Nat
  BY DEF Padding
<1>2. c[k] = m[Mask(d + k)]
  BY BounceOutRing, FetchWRing
<1>3. FetchPadded(o, m, d, n) =
        [i \in 0 .. n + Padding(o, n) - 1 |-> IF i < n THEN c[i] ELSE 0]
  BY DEF FetchPadded
<1> HIDE DEF c
<1> QED BY <1>1, <1>2, <1>3

\* ... with zeros behind the data.
LEMMA PaddedZeros ==
  ASSUME NEW o, NEW m, NEW d, NEW n \in Nat, o.wblk \in Nat,
         NEW k \in n .. n + Padding(o, n) - 1
  PROVE  FetchPadded(o, m, d, n)[k] = 0
BY DEF FetchPadded, Padding

\* Sequences of the same length and elements are the same.
LEMMA SameSeq ==
  ASSUME NEW B, NEW s \in Seq(B), NEW t \in Seq(B), Len(s) = Len(t),
         \A i \in 1 .. Len(s) : s[i] = t[i]
  PROVE  s = t
OBVIOUS

\* A sequence over a set is one over a larger set.
LEMMA SeqWider ==
  ASSUME NEW B, NEW D, B \subseteq D, NEW s \in Seq(B)
  PROVE  s \in Seq(D)
OBVIOUS

\* Appending keeps the elements' type.
LEMMA ConcatType ==
  ASSUME NEW B, NEW s \in Seq(B), NEW a \in Seq(B)
  PROVE  s \o a \in Seq(B)
OBVIOUS

\* What a sequence holds behind another one, place by place.
LEMMA ConcatLen ==
  ASSUME NEW B, NEW s \in Seq(B), NEW a \in Seq(B)
  PROVE  Len(s \o a) = Len(s) + Len(a)
OBVIOUS

\* The places of the first one ...
LEMMA ConcatOld ==
  ASSUME NEW B, NEW s \in Seq(B), NEW a \in Seq(B), NEW i \in 1 .. Len(s)
  PROVE  (s \o a)[i] = s[i]
OBVIOUS

\* ... and those of the second.
LEMMA ConcatNew ==
  ASSUME NEW B, NEW s \in Seq(B), NEW a \in Seq(B), NEW k \in 1 .. Len(a),
         NEW i \in Nat, i = Len(s) + k
  PROVE  (s \o a)[i] = a[k]
OBVIOUS

\* Appending the first n bytes of a chunk.
LEMMA EmitLen ==
  ASSUME NEW B, NEW s \in Seq(B), NEW n \in Nat, NEW c
  PROVE  Len(s \o AsSeq(c, n)) = Len(s) + n
<1> DEFINE C == {c[k] : k \in 0 .. n - 1}
           D == B \union C
<1>1. AsSeq(c, n) \in Seq(C) /\ Len(AsSeq(c, n)) = n
  BY DEF AsSeq
<1> HIDE DEF C
<1>2. s \in Seq(D) /\ AsSeq(c, n) \in Seq(D)
  BY <1>1
<1> HIDE DEF D
<1> QED BY <1>1, <1>2, ConcatLen

\* Appending a sequence is appending its first part, then its second.
LEMMA SplitTail ==
  ASSUME NEW B, NEW s \in Seq(B), NEW a \in Seq(B), NEW x \in Seq(B), NEW y \in Seq(B),
         Len(a) = Len(x) + Len(y),
         \A k \in 1 .. Len(x) : a[k] = x[k],
         \A k \in 1 .. Len(y) : a[Len(x) + k] = y[k]
  PROVE  s \o a = s \o x \o y
<1> DEFINE t == s \o x
           l == Len(s)
           w == Len(x)
           z == Len(y)
<1>1. l \in Nat /\ w \in Nat /\ z \in Nat
  OBVIOUS
<1>2. t \in Seq(B) /\ Len(t) = l + w
  BY ConcatType, ConcatLen
<1>3. t \o y \in Seq(B) /\ Len(t \o y) = l + w + z
  BY <1>2, ConcatType, ConcatLen
<1>4. s \o a \in Seq(B) /\ Len(s \o a) = l + (w + z)
  BY ConcatType, ConcatLen
<1>5. ASSUME NEW i \in 1 .. l + (w + z)
      PROVE  (s \o a)[i] = (t \o y)[i]
  <2>1. CASE i <= l
    <3>1. i \in 1 .. Len(s) /\ i \in 1 .. Len(t)
      BY <2>1, <1>1, <1>2
    <3>2. (s \o a)[i] = s[i]
      BY <3>1, ConcatOld
    <3>3. (t \o y)[i] = t[i]
      BY <3>1, <1>2, ConcatOld
    <3>4. t[i] = s[i]
      BY <3>1, ConcatOld
    <3> QED BY <3>2, <3>3, <3>4
  <2>2. CASE i > l /\ i <= l + w
    <3> DEFINE k == i - l
    <3>1. /\ k \in 1 .. w /\ i = l + k /\ i \in Nat
          /\ k \in 1 .. w + z /\ i \in 1 .. Len(t)
      BY <2>2, <1>1, <1>2
    <3> HIDE DEF k
    <3>2. (s \o a)[i] = a[k]
      BY <3>1, ConcatNew
    <3>3. (t \o y)[i] = t[i]
      BY <3>1, <1>2, ConcatOld
    <3>4. t[i] = x[k]
      BY <3>1, ConcatNew
    <3> QED BY <3>1, <3>2, <3>3, <3>4
  <2>3. CASE i > l + w
    <3> DEFINE k == i - l
               j == i - l - w
    <3>1. /\ k \in 1 .. Len(a) /\ i = Len(s) + k /\ i \in Nat /\ k = w + j
          /\ j \in 1 .. z /\ i = Len(t) + j
      BY <2>3, <1>1, <1>2
    <3> HIDE DEF k, j
    <3>2. (s \o a)[i] = a[k]
      BY <3>1, ConcatNew
    <3>3. (t \o y)[i] = y[j]
      BY <3>1, <1>2, ConcatNew
    <3> QED BY <3>1, <3>2, <3>3
  <2>4. i <= l \/ (i > l /\ i <= l + w) \/ i > l + w
    BY <1>1
  <2> QED BY <2>1, <2>2, <2>3, <2>4, Zenon
<1> DEFINE u == s \o a
           v == t \o y
<1>6. Len(u) = Len(v) /\ Len(u) = l + (w + z)
  BY <1>1, <1>3, <1>4
<1>7. u \in Seq(B) /\ v \in Seq(B) /\ \A i \in 1 .. l + (w + z) : u[i] = v[i]
  BY <1>3, <1>4, <1>5
<1> HIDE DEF u, v, l, w, z
<1>8. u = v
  BY <1>6, <1>7, SameSeq
<1> QED BY <1>8 DEF u, v

\* An output is the first p bytes of the input, then zeros; ...
InputFirst(s, p) == \A i \in 1 .. Len(s) : s[i] = IF i <= p THEN i ELSE 0

\* ... a block of n bytes continues it behind byte number l.
Continues(c, n, l, p, M) ==
  \A k \in 0 .. n - 1 :
    /\ c[k] \in 0 .. M
    /\ l + k + 1 <= p => c[k] = l + k + 1
    /\ l + k + 1 > p  => c[k] = 0

\* A block that continues the input, with zeros behind the input's end, keeps
\* an output what it should be.
LEMMA AppendDelivers ==
  ASSUME NEW M \in Nat, NEW s \in Seq(0 .. M), NEW n \in Nat, NEW c, NEW p \in Nat,
         InputFirst(s, p), Continues(c, n, Len(s), p, M)
  PROVE  Len(s \o AsSeq(c, n)) = Len(s) + n /\ InputFirst(s \o AsSeq(c, n), p)
<1> DEFINE a == AsSeq(c, n)
           l == Len(s)
<1>1. l \in Nat
  OBVIOUS
<1>2. a \in Seq(0 .. M) /\ Len(a) = n
  BY DEF AsSeq, Continues
<1>3. ASSUME NEW i \in 1 .. n
      PROVE  a[i] = c[i - 1]
  BY DEF AsSeq
<1> HIDE DEF a
<1>4. Len(s \o a) = l + n
  BY <1>2, ConcatLen
<1>5. ASSUME NEW i \in 1 .. l + n
      PROVE  (s \o a)[i] = IF i <= p THEN i ELSE 0
  <2>1. CASE i <= l
    <3>1. i \in 1 .. Len(s)
      BY <1>1, <2>1
    <3>2. (s \o a)[i] = s[i]
      BY <1>2, <3>1, ConcatOld
    <3> QED BY <3>1, <3>2 DEF InputFirst
  <2>2. CASE i > l
    <3> DEFINE k == i - l - 1
    <3>1. k \in 0 .. n - 1 /\ i = l + k + 1 /\ k + 1 \in 1 .. n /\ k + 1 - 1 = k
      BY <1>1, <2>2
    <3> HIDE DEF k
    <3>2. (s \o a)[i] = a[k + 1]
      <4>1. i \in Nat /\ i = l + (k + 1) /\ k + 1 \in 1 .. Len(a)
        BY <1>1, <1>2, <3>1
      <4> QED BY <1>2, <4>1, ConcatNew
    <3>3. a[k + 1] = c[k]
      BY <1>3, <3>1
    <3>4. /\ l + k + 1 <= p => c[k] = l + k + 1
          /\ l + k + 1 > p  => c[k] = 0
      BY <3>1 DEF Continues
    <3> HIDE DEF l
    <3> QED BY <1>1, <3>1, <3>2, <3>3, <3>4
  <2>3. i <= l \/ i > l
    BY <1>1
  <2> QED BY <2>1, <2>2, <2>3, Zenon
<1>6. InputFirst(s \o a, p)
  BY <1>4, <1>5 DEF InputFirst
<1> QED BY <1>4, <1>6 DEF a

\* A block as the pipe sends it: a piece of the input ...
LEMMA DataBlock ==
  ASSUME NEW b \in Nat, NEW n \in Nat, NEW c,
         \A k \in 0 .. n - 1 : c[k] = b + k + 1
  PROVE  AsSeq(c, n) = [i \in 1 .. n |-> b + i]
<1>1. ASSUME NEW i \in 1 .. n
      PROVE  c[i - 1] = b + i
  <2> DEFINE k == i - 1
  <2>1. k \in 0 .. n - 1 /\ k + 1 = i
    OBVIOUS
  <2> HIDE DEF k
  <2>2. c[k] = b + k + 1
    BY <2>1
  <2> QED BY <2>1, <2>2 DEF k
<1> QED BY <1>1 DEF AsSeq

\* ... and one with zeros behind it.
ZeroTailed(c, b, w, z) ==
  /\ \A k \in 0 .. w - 1 : c[k] = b + k + 1
  /\ \A k \in w .. w + z - 1 : c[k] = 0

\* An output t that sends the data, then the zeros, behind s.
PaddedTo(t, s, b, w, z) ==
  t = s \o [i \in 1 .. w |-> b + i] \o [i \in 1 .. z |-> 0]

\* Sending it is sending the data, then the zeros.
LEMMA DataThenZeros ==
  ASSUME NEW s \in Seq(Int), NEW b \in Nat, NEW w \in Nat, NEW z \in Nat, NEW c,
         ZeroTailed(c, b, w, z)
  PROVE  PaddedTo(s \o AsSeq(c, w + z), s, b, w, z)
<1> DEFINE x == [i \in 1 .. w |-> b + i]
           y == [i \in 1 .. z |-> 0]
           a == AsSeq(c, w + z)
<1>1. /\ x \in Seq(Int) /\ Len(x) = w
      /\ y \in Seq(Int) /\ Len(y) = z
  OBVIOUS
<1>2. \A k \in 1 .. w + z : a[k] = c[k - 1]
  BY DEF AsSeq
<1>3. ASSUME NEW k \in 1 .. w
      PROVE  a[k] = x[k]
  <2> DEFINE j == k - 1
  <2>1. j \in 0 .. w - 1 /\ j + 1 = k /\ k \in 1 .. w + z
    OBVIOUS
  <2>2. a[k] = c[j]
    BY <1>2, <2>1
  <2> HIDE DEF j, a
  <2>3. c[j] = b + j + 1
    BY <2>1 DEF ZeroTailed
  <2> QED BY <2>1, <2>2, <2>3
<1>4. ASSUME NEW k \in 1 .. z
      PROVE  a[w + k] = y[k]
  <2> DEFINE m == w + k
             j == m - 1
  <2>1. j \in w .. w + z - 1 /\ m \in 1 .. w + z
    OBVIOUS
  <2>2. a[m] = c[j]
    <3> HIDE DEF m, a
    <3> QED BY <1>2, <2>1
  <2> HIDE DEF j, a
  <2>3. c[j] = 0
    BY <2>1 DEF ZeroTailed
  <2> QED BY <2>2, <2>3
<1>5. a \in Seq(Int) /\ Len(a) = w + z
  <2>1. ASSUME NEW i \in 1 .. w + z PROVE c[i - 1] \in Int
    <3> DEFINE j == i - 1
    <3>1. j \in Nat /\ j \in 0 .. w + z - 1
      OBVIOUS
    <3> HIDE DEF j
    <3>2. CASE j < w
      BY <3>1, <3>2 DEF ZeroTailed
    <3>3. CASE j >= w
      BY <3>1, <3>3 DEF ZeroTailed
    <3> QED BY <3>1, <3>2, <3>3 DEF j
  <2> QED BY <2>1 DEF AsSeq
<1> HIDE DEF x, y, a
<1>6. s \o a = s \o x \o y
  <2>1. Len(a) = Len(x) + Len(y)
    BY <1>1, <1>5
  <2>2. /\ \A k \in 1 .. Len(x) : a[k] = x[k]
        /\ \A k \in 1 .. Len(y) : a[Len(x) + k] = y[k]
    BY <1>1, <1>3, <1>4
  <2>3. ASSUME NEW B, B = Int PROVE s \o a = s \o x \o y
    <3>1. s \in Seq(B) /\ a \in Seq(B) /\ x \in Seq(B) /\ y \in Seq(B)
      BY <1>1, <1>5, <2>3
    <3> QED BY <2>1, <2>2, <3>1, SplitTail, ZenonT(30)
  <2> QED BY <2>3, Zenon
<1> QED BY <1>6, Zenon DEF PaddedTo, a, x, y

-----------------------------------------------------------------------------
(* Whole blocks.                                                           *)

\* One more block keeps a number of bytes a number of blocks.
LEMMA OneMoreBlock ==
  ASSUME NEW a \in Nat, NEW b \in Nat, b > 0, a % b = 0
  PROVE  (a + b) % b = 0
<1>1. PICK q \in Nat : a = b * q
  OBVIOUS
<1>2. a + b = b * (q + 1)
  BY <1>1
<1>3. (b * (q + 1)) % b = 0
  OBVIOUS
<1> QED BY <1>2, <1>3

\* With a minimum of a block, as in strict mode, a write is granted a block.
LEMMA GrantWBlocks ==
  ASSUME NEW o, o.wblk \in Nat, o.wblk > 0, NEW h \in Nat, NEW ws \in BOOLEAN,
         NEW wsp \in Nat, GrantW(o, h, ws, o.wblk, wsp) # 0
  PROVE  GrantW(o, h, ws, o.wblk, wsp) = o.wblk
BY DEF GrantW, WriteSuspended
=============================================================================
