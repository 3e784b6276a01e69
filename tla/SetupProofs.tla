--------------------------- MODULE SetupProofs ------------------------------
(***************************************************************************)
(* Proofs about the setup: BufSetup and Options.                           *)
(*                                                                         *)
(* For all page sizes, limits and resume points, a refused buffer leaves   *)
(* nothing mapped, an accepted one is what Transfer takes for granted, its *)
(* bounce chunks hold their blocks, and its sharp inequalities keep one of *)
(* the sides going at every fill level.  For all command lines, the two    *)
(* ends follow the last specifications, and a socket is as it was written, *)
(* by induction over the options of an address.                            *)
(***************************************************************************)
EXTENDS BufSetup, Options, FiniteSetTheorems, WellFoundedInduction, TLAPS

-----------------------------------------------------------------------------
(* Induction and recursion.                                                *)

\* Induction over the naturals, for the members of a set.
LEMMA SetInduction ==
  ASSUME NEW S, 0 \in S, \A n \in Nat : n \in S => n + 1 \in S
  PROVE  Nat \subseteq S
<1> DEFINE T == Nat \ S
<1> SUFFICES ASSUME T # {} PROVE FALSE
  OBVIOUS
<1>1. PICK x \in T : \A y \in T : ~ (<<y, x>> \in OpToRel(<, Nat))
  <2>1. T \subseteq Nat
    OBVIOUS
  <2> HIDE DEF T
  <2> QED BY <2>1, NatLessThanWellFounded, WFMin, Zenon
<1>2. \A y \in T : ~ (y < x)
  BY <1>1 DEF OpToRel
<1>3. x # 0 /\ x - 1 \in Nat /\ x - 1 < x
  OBVIOUS
<1> QED BY <1>2, <1>3

\* f is defined by recursion up to N: its value at x is got from an earlier one.
Recursion(f, T, N, base, prev, next) ==
  /\ f \in [0 .. N -> T] /\ f[0] = base
  /\ \A x \in 1 .. N : f[x] = next[x][f[prev[x]]]

\* There are such functions.
LEMMA RecursionExists ==
  ASSUME NEW T, NEW base \in T, NEW N \in Nat,
         NEW prev \in [1 .. N -> Nat], \A x \in 1 .. N : prev[x] < x,
         NEW next \in [1 .. N -> [T -> T]]
  PROVE  \E f : Recursion(f, T, N, base, prev, next)
<1> DEFINE Upto(n) == \E f \in [0 .. n -> T] :
                        f[0] = base /\ \A x \in 1 .. n : f[x] = next[x][f[prev[x]]]
           S == {n \in Nat : n <= N => Upto(n)}
<1>1. Upto(0)
  <2> DEFINE g == [x \in 0 .. 0 |-> base]
  <2>1. g \in [0 .. 0 -> T] /\ g[0] = base /\ \A x \in 1 .. 0 : FALSE
    OBVIOUS
  <2> HIDE DEF g
  <2>2. \A x \in 1 .. 0 : g[x] = next[x][g[prev[x]]]
    BY <2>1
  <2> QED BY <2>1, <2>2
<1>2. ASSUME NEW n \in Nat, n + 1 <= N, Upto(n)
      PROVE  Upto(n + 1)
  <2>1. PICK f \in [0 .. n -> T] :
               f[0] = base /\ \A x \in 1 .. n : f[x] = next[x][f[prev[x]]]
    BY <1>2
  <2> DEFINE g == [x \in 0 .. n + 1 |-> IF x <= n THEN f[x]
                                                  ELSE next[n + 1][f[prev[n + 1]]]]
  <2>2. n + 1 \in 1 .. N /\ prev[n + 1] \in 0 .. n
    BY <1>2
  <2>3. g \in [0 .. n + 1 -> T]
    BY <2>1, <2>2
  <2>4. ASSUME NEW x \in 1 .. n + 1
        PROVE  g[x] = next[x][g[prev[x]]]
    <3>1. x \in 1 .. N /\ prev[x] \in Nat /\ prev[x] < x
      BY <1>2
    <3>2. prev[x] \in 0 .. n /\ g[prev[x]] = f[prev[x]]
      BY <3>1
    <3> QED BY <2>1, <2>2, <3>1, <3>2
  <2>5. g[0] = base
    BY <2>1
  <2> HIDE DEF g
  <2> QED BY <2>3, <2>4, <2>5
<1> HIDE DEF Upto
<1>3. 0 \in S
  BY <1>1
<1>4. \A n \in Nat : n \in S => n + 1 \in S
  BY <1>2
<1>5. Nat \subseteq S
  <2> HIDE DEF S
  <2> QED BY <1>3, <1>4, SetInduction
<1>6. Upto(N)
  BY <1>5
<1> QED BY <1>6 DEF Upto, Recursion


-----------------------------------------------------------------------------
(* Arithmetic.                                                             *)

\* Rounding up to whole pages neither loses a byte nor adds a page.
LEMMA AlignCovers ==
  ASSUME NEW x \in Nat, NEW page \in Nat \ {0}
  PROVE  /\ Align(x, page) \in Nat
         /\ x <= Align(x, page)
         /\ Align(x, page) < x + page
<1> DEFINE q == (x + page - 1) \div page
<1>1. q \in Nat /\ q * page <= x + page - 1 /\ x + page - 1 < q * page + page
  OBVIOUS
<1> QED BY <1>1 DEF Align

\* A resume point given as a part of the ring is a number of bytes.
LEMMA ScaledType ==
  ASSUME NEW part \in Nat, NEW n \in Nat
  PROVE  Scaled(part, n) \in Nat
<1>1. 2 * part * n + Parts \in Nat /\ 2 * Parts \in Nat \ {0}
  BY SetupAssumption
<1> QED BY <1>1 DEF Scaled

-----------------------------------------------------------------------------
(* Powers of two.                                                          *)

\* The function that the definition of Pow2 speaks of exists.
LEMMA Pow2Is ==
  /\ Pow2 \in [0 .. SizeBits -> Nat \ {0}] /\ Pow2[0] = 1
  /\ \A i \in 1 .. SizeBits : Pow2[i] = 2 * Pow2[i - 1]
<1>0. SizeBits \in Nat
  BY SetupAssumption
<1> USE <1>0
<1> DEFINE N == SizeBits
           T == Nat \ {0}
           Equation(f) == f = [i \in 0 .. N |-> IF i = 0 THEN 1 ELSE 2 * f[i - 1]]
           next == [k \in 1 .. N |-> [a \in T |-> 2 * a]]
           prev == [k \in 1 .. N |-> k - 1]
<1>1. /\ next \in [1 .. N -> [T -> T]] /\ prev \in [1 .. N -> Nat]
      /\ \A k \in 1 .. N : prev[k] < k
  OBVIOUS
<1>2. PICK f : Recursion(f, T, N, 1, prev, next)
  <2>1. 1 \in T /\ N \in Nat
    OBVIOUS
  <2> HIDE DEF N, T, next, prev
  <2> QED BY <1>1, <2>1, RecursionExists, Zenon
<1>3. \A k \in 1 .. N : f[k] = 2 * f[k - 1]
  <2> SUFFICES ASSUME NEW k \in 1 .. N PROVE f[k] = 2 * f[k - 1]
    OBVIOUS
  <2>1. k - 1 \in 0 .. N /\ f[k - 1] \in T
    BY <1>2 DEF Recursion
  <2>2. f[k] = next[k][f[k - 1]]
    BY <1>2 DEF Recursion
  <2> QED BY <2>1, <2>2
<1>4. Equation(f)
  BY <1>2, <1>3 DEF Recursion
<1>5. Equation(Pow2)
  <2>1. Pow2 = CHOOSE g : Equation(g)
    BY DEF Pow2
  <2> HIDE DEF Equation
  <2> QED BY <1>4, <2>1
<1>6. Pow2[0] = 1 /\ \A k \in 1 .. N : Pow2[k] = 2 * Pow2[k - 1]
  BY <1>5
<1> DEFINE S == {k \in Nat : k <= N => Pow2[k] \in T}
<1>7. 0 \in S
  BY <1>6
<1>8. ASSUME NEW k \in Nat, k \in S
      PROVE  k + 1 \in S
  <2>1. k + 1 <= N => k + 1 \in 1 .. N /\ (k + 1) - 1 = k /\ Pow2[k] \in T
    BY <1>8
  <2> QED BY <1>6, <2>1
<1>9. Nat \subseteq S
  <2> HIDE DEF S
  <2> QED BY <1>7, <1>8, SetInduction
<1> QED BY <1>5, <1>6, <1>9

\* Shifting right twice is shifting right by the sum.
LEMMA HalfOf ==
  ASSUME NEW x \in Nat, NEW p \in Nat \ {0}
  PROVE  x \div (2 * p) = (x \div p) \div 2
<1> DEFINE q == x \div p
           r == q \div 2
<1>1. q \in Nat /\ q * p <= x /\ x < q * p + p
  OBVIOUS
<1> HIDE DEF q
<1>2. r \in Nat /\ (q = 2 * r \/ q = 2 * r + 1)
  BY <1>1
<1> HIDE DEF r
<1> DEFINE m == 2 * p
           y == r * p
<1>3. y \in Nat /\ q * p = IF q = 2 * r THEN 2 * y ELSE 2 * y + p
  BY <1>1, <1>2
<1>4. 2 * y <= x /\ x < 2 * y + m
  <2> HIDE DEF y
  <2> QED BY <1>1, <1>3
<1>5. m \in Nat \ {0} /\ 2 * y = m * r
  BY <1>2
<1> HIDE DEF m, y
<1>6. x \div m = r
  BY <1>2, <1>4, <1>5
<1> QED BY <1>6 DEF m, q, r

\* is_pow2() finds the exponent: a number of which only bit k is set is 1 << k.
LEMMA OnlyBit ==
  ASSUME NEW x \in Nat, x < Pow2[SizeBits],
         NEW k \in 0 .. SizeBits - 1, Bits(x) = {k}
  PROVE  x = Pow2[k]
<1>0. SizeBits \in Nat
  BY SetupAssumption
<1> USE <1>0
<1> DEFINE h == [i \in 0 .. SizeBits |-> x \div Pow2[i]]
<1>1. /\ \A i \in 0 .. SizeBits : Pow2[i] \in Nat \ {0}
      /\ Pow2[0] = 1 /\ \A i \in 0 .. SizeBits - 1 : Pow2[i + 1] = 2 * Pow2[i]
  <2>1. \A i \in 0 .. SizeBits - 1 : i + 1 \in 1 .. SizeBits /\ (i + 1) - 1 = i
    OBVIOUS
  <2> QED BY <2>1, Pow2Is
<1>2. h \in [0 .. SizeBits -> Nat]
  BY <1>1
<1>3. h[0] = x
  BY <1>1
<1>4. h[SizeBits] = 0
  BY <1>1
<1>5. ASSUME NEW i \in 0 .. SizeBits - 1
      PROVE  h[i] = 2 * h[i + 1] + IF i = k THEN 1 ELSE 0
  <2>1. i \in Bits(x) <=> i = k
    OBVIOUS
  <2>2. h[i] % 2 = 1 <=> i = k
    BY <2>1 DEF Bits
  <2>3. Pow2[i] \in Nat \ {0} /\ Pow2[i + 1] = 2 * Pow2[i]
    BY <1>1
  <2>4. h[i + 1] = h[i] \div 2
    <3> DEFINE p == Pow2[i]
    <3>1. p \in Nat \ {0} /\ h[i] = x \div p /\ h[i + 1] = x \div (2 * p)
      BY <2>3
    <3> HIDE DEF p, h
    <3> QED BY <3>1, HalfOf
  <2>5. h[i] \in Nat
    BY <1>2
  <2> DEFINE a == h[i]
             b == h[i + 1]
  <2>6. a \in Nat /\ b = a \div 2 /\ (a % 2 = 1 <=> i = k)
    BY <2>2, <2>4, <2>5
  <2> HIDE DEF a, b
  <2>7. CASE i = k
    <3>1. a = 2 * b + 1
      BY <2>6, <2>7
    <3> QED BY <2>7, <3>1 DEF a, b
  <2>8. CASE i # k
    <3>1. a % 2 = 0
      BY <2>6, <2>8
    <3>2. a = 2 * b + 0
      BY <2>6, <3>1
    <3> QED BY <2>8, <3>2 DEF a, b
  <2> QED BY <2>7, <2>8
<1> HIDE DEF h
<1> DEFINE S == {j \in Nat : j <= SizeBits - (k + 1) => h[SizeBits - j] = 0}
           T == {j \in Nat : j <= k => h[k - j] = Pow2[j]}
<1>6. 0 \in S
  BY <1>4
<1>7. ASSUME NEW j \in Nat, j \in S
      PROVE  j + 1 \in S
  <2> SUFFICES ASSUME j + 1 <= SizeBits - (k + 1) PROVE h[SizeBits - (j + 1)] = 0
    OBVIOUS
  <2> DEFINE i == SizeBits - (j + 1)
  <2>1. i \in 0 .. SizeBits - 1 /\ i + 1 = SizeBits - j /\ i # k /\ h[SizeBits - j] = 0
    BY <1>7
  <2> HIDE DEF i
  <2>2. h[i] = 0
    BY <1>5, <2>1
  <2> QED BY <2>2 DEF i
<1>8. h[k] = 1
  <2>1. SizeBits - (k + 1) \in S
    <3> HIDE DEF S
    <3>1. SizeBits - (k + 1) \in Nat
      OBVIOUS
    <3> QED BY <1>6, <1>7, <3>1, SetInduction
  <2>2. SizeBits - (SizeBits - (k + 1)) = k + 1
    OBVIOUS
  <2>3. h[k + 1] = 0
    BY <2>1, <2>2
  <2> QED BY <1>5, <2>3
<1>9. 0 \in T
  BY <1>1, <1>8
<1>10. ASSUME NEW j \in Nat, j \in T
       PROVE  j + 1 \in T
  <2> SUFFICES ASSUME j + 1 <= k PROVE h[k - (j + 1)] = Pow2[j + 1]
    OBVIOUS
  <2> DEFINE i == k - (j + 1)
  <2>1. i \in 0 .. SizeBits - 1 /\ i + 1 = k - j /\ i # k /\ h[k - j] = Pow2[j]
    BY <1>10
  <2>2. Pow2[j + 1] = 2 * Pow2[j] /\ Pow2[j] \in Nat
    BY <1>1
  <2> HIDE DEF i
  <2>3. h[i] = Pow2[j + 1]
    BY <1>5, <2>1, <2>2
  <2> QED BY <2>3 DEF i
<1>11. k \in T
  <2> HIDE DEF T
  <2> QED BY <1>9, <1>10, SetInduction
<1> QED BY <1>3, <1>11

\* What is_pow2() accepts is a power of two, and the mask is one less.
LEMMA Pow2Size ==
  ASSUME NEW x \in Nat, x < Pow2[SizeBits], IsPow2(x) >= 0
  PROVE  IsPow2(x) \in 0 .. SizeBits - 1 /\ x = Pow2[IsPow2(x)]
<1>1. Cardinality(Bits(x)) = 1
  BY DEF IsPow2
<1>2. IsFiniteSet(Bits(x))
  <2>1. IsFiniteSet(0 .. SizeBits - 1)
    <3>1. 0 \in Int /\ SizeBits - 1 \in Int
      BY SetupAssumption
    <3> QED BY ONLY <3>1, FS_Interval
  <2>2. Bits(x) \subseteq 0 .. SizeBits - 1
    BY DEF Bits
  <2> QED BY <2>1, <2>2, FS_Subset
<1>3. PICK k : Bits(x) = {k}
  BY <1>1, <1>2, FS_Singleton
<1>4. k \in 0 .. SizeBits - 1
  BY <1>3 DEF Bits
<1>5. AnyBit(x) = k
  BY <1>3, <1>4 DEF AnyBit
<1>6. IsPow2(x) = k
  BY <1>1, <1>5 DEF IsPow2
<1>7. x = Pow2[k]
  BY <1>3, <1>4, OnlyBit
<1> QED BY <1>4, <1>6, <1>7

-----------------------------------------------------------------------------
(* What each step of the construction may rely on.                         *)

\* The numbers of the command line are within opt_parse()'s limits.
ArgOK ==
  /\ arg.bsiz \in Nat \ {0} /\ arg.rblk \in Nat \ {0} /\ arg.wblk \in Nat \ {0}
  /\ arg.rs \in Nat /\ arg.ws \in Nat /\ arg.page \in Pages
  /\ arg.hpage \in {0} \union HugePages
  /\ arg.bsiz <= MaxSize

\* What is mapped before each step, the last one included.
Mapped ==
  CASE step \in {"area", "rejected"}         -> areas = {}
    [] step \in {"pow2", "blocks", "bounce"} -> areas = {"buf"}
    [] step \in {"rsp", "wsp", "ready"}      -> areas = {"buf", "scr"}
    [] OTHER                                 -> FALSE

\* The steps behind "at" that accept the numbers.
After(at) ==
  CASE at = "area"   -> {"pow2", "blocks", "bounce", "rsp", "wsp", "ready"}
    [] at = "pow2"   -> {"blocks", "bounce", "rsp", "wsp", "ready"}
    [] at = "blocks" -> {"bounce", "rsp", "wsp", "ready"}
    [] at = "bounce" -> {"rsp", "wsp", "ready"}
    [] at = "rsp"    -> {"wsp", "ready"}
    [] at = "wsp"    -> {"ready"}

\* What each check has established for the steps behind it.
Checked ==
  /\ step \in After("area")   => size = Align(arg.bsiz, AreaPage)
  /\ step \in After("pow2")   => IsPow2(size) >= 0 /\ mask = Pow2[IsPow2(size)] - 1
  /\ step \in After("blocks") => size > 2 * MaxBlock
  /\ step \in After("bounce") => scr = Bounce
  /\ step \in After("rsp")    => rsp \in Nat /\ (rsp = 0 \/ Between(rsp))
  /\ step \in After("wsp")    => wsp \in Nat /\ (wsp = 0 \/ Between(wsp))

SetupInv == ArgOK /\ Mapped /\ Checked

\* buf_ctor() starts with nothing mapped and only its arguments.
LEMMA InitSetup ==
  SetupInit => SetupInv
<1> SUFFICES ASSUME SetupInit PROVE SetupInv
  OBVIOUS
<1>1. ArgOK
  BY SetupAssumption DEF SetupInit, ArgOK
<1>2. step \in {"area", "rejected"} /\ areas = {}
  BY DEF SetupInit
<1> QED BY <1>1, <1>2 DEF SetupInv, Mapped, Checked, After

\* The ring is made of pages of one of the two kinds, and rounding an accepted
\* size up to them does not overflow.
LEMMA AreaPageFits ==
  ASSUME ArgOK
  PROVE  /\ AreaPage \in Nat \ {0}
         /\ MaxSize \in Nat /\ MaxSize + AreaPage <= Pow2[SizeBits]
<1>1. arg.page \in Pages /\ arg.hpage \in {0} \union HugePages
  BY DEF ArgOK
<1>2. arg.page \in Nat \ {0}
  BY <1>1, SetupAssumption
<1>3. AreaPage \in Pages \union HugePages
  BY <1>1, <1>2 DEF AreaPage
<1> QED BY <1>3, SetupAssumption

\* The numbers asked for never change.
LEMMA NextArg ==
  ArgOK /\ [SetupNext]_setupvars => ArgOK'
<1>1. [SetupNext]_setupvars => arg' = arg
  BY DEF SetupNext, setupvars, MakesArea, NoArea, ChecksPow2, NotPow2, ChecksBlocks, BlocksTooBig,
         MakesBounce, NoBounce, SetsRsp, SetsWsp, BadPoint, Reject, Pass
<1> QED BY <1>1 DEF ArgOK

\* Every step maps or unmaps what the next one expects.
LEMMA NextMapped ==
  Mapped /\ [SetupNext]_setupvars => Mapped'
BY DEF Mapped, SetupNext, setupvars, MakesArea, NoArea, ChecksPow2, NotPow2, ChecksBlocks,
       BlocksTooBig, MakesBounce, NoBounce, SetsRsp, SetsWsp, BadPoint, Reject, Pass

\* Resume points are scaled to numbers of bytes.
LEMMA PointType ==
  ASSUME ArgOK, Checked, step \in {"rsp", "wsp"}
  PROVE  Scaled(arg.rs, size) \in Nat /\ Scaled(arg.ws, size) \in Nat
<1>1. /\ arg.rs \in Nat /\ arg.ws \in Nat /\ arg.bsiz \in Nat
      /\ AreaPage \in Nat \ {0}
  BY AreaPageFits DEF ArgOK
<1>2. size = Align(arg.bsiz, AreaPage)
  BY DEF Checked, After
<1>3. size \in Nat
  BY <1>1, <1>2, AlignCovers
<1> QED BY <1>1, <1>3, ScaledType

\* Every check is behind the program once it has passed it.
LEMMA NextChecked ==
  ArgOK /\ Checked /\ [SetupNext]_setupvars => Checked'
<1> SUFFICES ASSUME ArgOK, Checked, [SetupNext]_setupvars PROVE Checked'
  OBVIOUS
<1> USE DEF Checked, After, Pass, Reject
<1>1. CASE MakesArea
  BY <1>1 DEF MakesArea, AreaPage
<1>2. CASE ChecksPow2
  BY <1>2 DEF ChecksPow2, AreaPage
<1>3. CASE ChecksBlocks
  BY <1>3 DEF ChecksBlocks, MaxBlock, AreaPage
<1>4. CASE MakesBounce
  BY <1>4 DEF MakesBounce, MaxBlock, Bounce, AreaPage
<1>5. CASE SetsRsp
  <2>1. step = "rsp" /\ step' = "wsp" /\ UNCHANGED <<arg, size, mask, scr>>
    BY <1>5 DEF SetsRsp
  <2>2. rsp' \in Nat /\ (rsp' = 0 \/ Between(rsp)')
    BY <1>5, <2>1, PointType DEF SetsRsp, Between
  <2> QED BY <2>1, <2>2 DEF MaxBlock, Bounce, AreaPage
<1>6. CASE SetsWsp
  <2>1. step = "wsp" /\ step' = "ready" /\ UNCHANGED <<arg, size, mask, rsp, scr>>
    BY <1>6 DEF SetsWsp
  <2>2. wsp' \in Nat /\ (wsp' = 0 \/ Between(wsp)')
    BY <1>6, <2>1, PointType DEF SetsWsp, Between
  <2>3. rsp \in Nat /\ (rsp = 0 \/ Between(rsp))
    BY <2>1
  <2>4. Between(rsp)' <=> Between(rsp)
    BY <2>1 DEF Between
  <2> QED BY <2>1, <2>2, <2>3, <2>4 DEF MaxBlock, Bounce, AreaPage
<1>7. CASE NoArea \/ NotPow2 \/ BlocksTooBig \/ NoBounce \/ BadPoint
  BY <1>7 DEF NoArea, NotPow2, BlocksTooBig, NoBounce, BadPoint
<1>8. CASE UNCHANGED setupvars
  BY <1>8 DEF setupvars, MaxBlock, Bounce, Between, AreaPage
<1> QED BY <1>1, <1>2, <1>3, <1>4, <1>5, <1>6, <1>7, <1>8 DEF SetupNext

\* The construction follows its checks.
THEOREM SetupInductive ==
  SetupSpec => []SetupInv
<1>1. SetupInv /\ [SetupNext]_setupvars => SetupInv'
  BY NextArg, NextMapped, NextChecked DEF SetupInv
<1> QED BY <1>1, InitSetup, PTL DEF SetupSpec

\* A refused configuration leaves nothing mapped, wherever buf_ctor() or
\* setup_env() refuses it.
THEOREM RejectionIsClean ==
  SetupSpec => []RejectsCleanly
<1>1. SetupInv => RejectsCleanly
  BY DEF SetupInv, Mapped, RejectsCleanly
<1> QED BY <1>1, SetupInductive, PTL

\* Both bounce chunks of buf_s.scr hold their block and do not overlap, for
\* any blocks and any page size, with huge pages for the ring or without.
THEOREM ChunksAreApart ==
  SetupSpec => []BouncesApart
<1>1. SetupInv => BouncesApart
  <2> SUFFICES ASSUME SetupInv, step = "ready"
               PROVE  arg.rblk <= scr[1] /\ scr[1] + arg.wblk <= scr[2]
    BY DEF BouncesApart
  <2>1. scr = Bounce
    BY DEF SetupInv, Checked, After
  <2>2. /\ arg.rblk \in Nat /\ arg.wblk \in Nat /\ arg.page \in Nat \ {0}
    BY SetupAssumption DEF SetupInv, ArgOK
  <2> DEFINE r == Align(arg.rblk, arg.page)
             w == Align(arg.wblk, arg.page)
  <2>3. r \in Nat /\ w \in Nat /\ arg.rblk <= r /\ arg.wblk <= w
    BY <2>2, AlignCovers
  <2>4. scr[1] = r /\ scr[2] = r + w
    BY <2>1 DEF Bounce
  <2> HIDE DEF r, w
  <2> QED BY <2>2, <2>3, <2>4
<1> QED BY <1>1, SetupInductive, PTL

-----------------------------------------------------------------------------
(* The accepted configuration.                                             *)

\* The numbers of an accepted configuration, as the transfer will see them.
Sound ==
  /\ size \in Nat /\ arg.rblk \in Nat \ {0} /\ arg.wblk \in Nat \ {0}
  /\ 2 * arg.rblk < size /\ 2 * arg.wblk < size
  /\ rsp \in Nat /\ (rsp = 0 \/ Between(rsp))
  /\ wsp \in Nat /\ (wsp = 0 \/ Between(wsp))

\* What passed every check of buf_ctor() and buf_setextra() is sound: two blocks
\* of either side fit, and resume points lie between the blocks and the size.
LEMMA ReadyIsSound ==
  ASSUME SetupInv, step = "ready"
  PROVE  Sound
<1>1. /\ arg.rblk \in Nat \ {0} /\ arg.wblk \in Nat \ {0}
      /\ arg.bsiz \in Nat /\ AreaPage \in Nat \ {0}
  BY AreaPageFits DEF SetupInv, ArgOK
<1>2. size \in Nat
  BY <1>1, AlignCovers DEF SetupInv, Checked, After
<1>3. size > 2 * MaxBlock
  BY DEF SetupInv, Checked, After
<1>4. 2 * arg.rblk < size /\ 2 * arg.wblk < size
  BY <1>1, <1>2, <1>3 DEF MaxBlock
<1> QED BY <1>1, <1>2, <1>4 DEF SetupInv, Checked, After, Sound

\* What is left of the options after opt_parse(), buf_ctor() and
\* buf_setextra() is what Transfer assumes of them, and masking with
\* buf->mask is taking the remainder.
THEOREM AcceptedIsValid ==
  SetupSpec => []AcceptsValid
<1>1. SetupInv => AcceptsValid
  <2> SUFFICES ASSUME SetupInv, step = "ready"
               PROVE  Ring(size)!ValidOptions(Opt) /\ mask + 1 = size
    BY DEF AcceptsValid
  <2>1. Sound
    BY ReadyIsSound
  <2>2. Ring(size)!ValidOptions(Opt)
    BY <2>1 DEF Sound, Between, Opt, Ring!ValidOptions
  <2>3. /\ arg.bsiz \in Nat /\ AreaPage \in Nat \ {0} /\ arg.bsiz <= MaxSize
        /\ MaxSize \in Nat /\ MaxSize + AreaPage <= Pow2[SizeBits]
    <3>1. arg.bsiz \in Nat /\ arg.bsiz <= MaxSize /\ ArgOK
      BY DEF SetupInv, ArgOK
    <3> QED BY <3>1, AreaPageFits, Zenon
  <2>4. size = Align(arg.bsiz, AreaPage) /\ IsPow2(size) >= 0 /\ mask = Pow2[IsPow2(size)] - 1
    BY DEF SetupInv, Checked, After
  <2>5. size \in Nat /\ size < Pow2[SizeBits]
    <3> DEFINE a == Align(arg.bsiz, AreaPage)
    <3>1. a \in Nat /\ a < arg.bsiz + AreaPage
      BY <2>3, AlignCovers
    <3>2. size = a
      BY <2>4
    <3>4. AreaPage \in Nat
      BY <2>3
    <3> HIDE DEF a
    <3>3. Pow2[SizeBits] \in Nat
      BY Pow2Is, SetupAssumption
    <3> QED BY <2>3, <3>1, <3>2, <3>3, <3>4
  <2>6. size = Pow2[IsPow2(size)]
    BY <2>4, <2>5, Pow2Size
  <2>7. mask + 1 = size
    BY <2>4, <2>5, <2>6
  <2> QED BY <2>2, <2>7
<1> QED BY <1>1, SetupInductive, PTL

\* "sharp should be enough ... verify this (carefully)" (buffer.c): in every
\* accepted configuration, at every fill level and whichever side is
\* suspended, one of the two sides can go on.
THEOREM SharpEnough ==
  SetupSpec => []SharpIsEnough
<1>1. SetupInv => SharpIsEnough
  <2> SUFFICES ASSUME SetupInv, step = "ready",
                      NEW hav \in 0 .. size - 1, NEW rstall \in BOOLEAN, NEW wstall \in BOOLEAN,
                      ~(rstall /\ wstall), rstall => rsp # 0, wstall => wsp # 0
               PROVE  \/ Ring(size)!GrantR(Opt, size - hav, rstall) > 0
                      \/ Ring(size)!GrantW(Opt, hav, wstall, arg.wblk, wsp) > 0
    BY DEF SharpIsEnough
  <2>1. Sound
    BY ReadyIsSound
  <2>2. /\ hav \in Nat /\ size \in Nat /\ hav < size /\ rsp \in Nat /\ wsp \in Nat
        /\ arg.rblk \in Nat /\ arg.rblk > 0 /\ arg.wblk \in Nat /\ arg.wblk > 0
    BY <2>1 DEF Sound
  <2>3. Opt.rblk = arg.rblk /\ Opt.wblk = arg.wblk /\ Opt.rsp = rsp
    BY DEF Opt
  \* Nothing but the resume point holds the reader back above a block of room,
  \* the writer above a block of data.
  <2>4. ASSUME ~rstall, size - hav > arg.rblk
        PROVE  Ring(size)!GrantR(Opt, size - hav, rstall) = arg.rblk
    BY <2>2, <2>3, <2>4 DEF Ring!GrantR
  <2>5. ASSUME rstall, ~(size - hav < size - rsp)
        PROVE  Ring(size)!GrantR(Opt, size - hav, rstall) = arg.rblk
    BY <2>3, <2>5 DEF Ring!GrantR, Ring!ReadSuspended
  <2>6. ASSUME ~wstall, hav >= arg.wblk
        PROVE  Ring(size)!GrantW(Opt, hav, wstall, arg.wblk, wsp) = arg.wblk
    BY <2>2, <2>3, <2>6 DEF Ring!GrantW
  <2>7. ASSUME wstall, ~(hav < wsp)
        PROVE  Ring(size)!GrantW(Opt, hav, wstall, arg.wblk, wsp) = arg.wblk
    BY <2>3, <2>7 DEF Ring!GrantW, Ring!WriteSuspended
  <2>8. CASE ~rstall /\ ~wstall
    <3>1. size - hav > arg.rblk \/ hav >= arg.wblk
      BY <2>1, <2>2 DEF Sound
    <3> QED BY <2>2, <2>4, <2>6, <2>8, <3>1
  <2>9. CASE rstall
    <3>1. ~(size - hav < size - rsp) \/ hav >= arg.wblk
      BY <2>1, <2>2, <2>9 DEF Sound, Between
    <3> QED BY <2>2, <2>5, <2>6, <2>9, <3>1
  <2>10. CASE wstall
    <3>1. ~(hav < wsp) \/ size - hav > arg.rblk
      BY <2>1, <2>2, <2>10 DEF Sound, Between
    <3> QED BY <2>2, <2>4, <2>7, <2>10, <3>1
  <2> QED BY <2>8, <2>9, <2>10
<1> QED BY <1>1, SetupInductive, PTL

-----------------------------------------------------------------------------
(* Tables of socket options.                                               *)

Entry == [opt: Known, val: SUBSET Nat]
Item == [name: Known, vals: Seq(STRING)]
Named(so) == {so[i].opt : i \in DOMAIN so}
Distinct(so) == IsFiniteSet(Named(so)) /\ Cardinality(Named(so)) = Len(so)

\* A value is a set of bits.
LEMMA ValType ==
  ASSUME NEW v
  PROVE  Val(v) \in SUBSET Nat
  BY DEF Val

\* So are the or-ed values of an option.
LEMMA ValsType ==
  ASSUME NEW item \in Item
  PROVE  Vals(item) \in SUBSET Nat
  BY ValType DEF Vals

\* The defaults are values.
LEMMA DefaultType ==
  ASSUME NEW o \in {"SO_REUSEADDR", "IP_TOS", "SO_SNDBUF"}
  PROVE  Default[o] \in SUBSET Nat
  BY DEF Default

\* What sp_addsobyint() makes of a table: the entry takes the place of the one
\* for the same option, or is a new one.
Put(so, e) ==
  IF e.opt \in Named(so)
  THEN [i \in DOMAIN so |-> IF so[i].opt = e.opt THEN e ELSE so[i]]
  ELSE Append(so, e)

\* An option is then in the table once; the other ones stay.
LEMMA PutIs ==
  ASSUME NEW so \in Seq(Entry), NEW e \in Entry
  PROVE  /\ Put(so, e) \in Seq(Entry)
         /\ Named(Put(so, e)) = Named(so) \union {e.opt}
         /\ Distinct(so) => Distinct(Put(so, e))
         /\ \A i \in DOMAIN Put(so, e) :
              \/ Put(so, e)[i] = e
              \/ \E j \in DOMAIN so : Put(so, e)[i] = so[j] /\ so[j].opt # e.opt
<1> DEFINE n == Len(so)
           o == e.opt
           r == Put(so, e)
<1>1. n \in Nat /\ DOMAIN so = 1 .. n /\ \A i \in 1 .. n : so[i] \in Entry
  OBVIOUS
<1>2. CASE o \in Named(so)
  <2>1. DOMAIN r = 1 .. n /\ \A i \in 1 .. n : r[i] = IF so[i].opt = o THEN e ELSE so[i]
    BY <1>1, <1>2 DEF Put
  <2>2. r \in Seq(Entry) /\ Len(r) = n
    <3>1. r = [i \in 1 .. n |-> IF so[i].opt = o THEN e ELSE so[i]]
      BY <1>1, <1>2 DEF Put
    <3> HIDE DEF r, n
    <3> QED BY <1>1, <3>1
  <2> HIDE DEF r, n
  <2>3. Named(r) = Named(so) /\ Named(so) = Named(so) \union {o}
    BY <1>1, <1>2, <2>1 DEF Named
  <2>4. Distinct(so) => Distinct(r)
    BY <2>2, <2>3 DEF Distinct, n
  <2>5. ASSUME NEW i \in DOMAIN r
        PROVE  r[i] = e \/ \E j \in DOMAIN so : r[i] = so[j] /\ so[j].opt # o
    BY <1>1, <2>1, <2>5
  <2> QED BY <2>2, <2>3, <2>4, <2>5 DEF r
<1>3. CASE o \notin Named(so)
  <2>1. /\ r \in Seq(Entry) /\ Len(r) = n + 1 /\ DOMAIN r = 1 .. n + 1
        /\ r[n + 1] = e /\ \A i \in 1 .. n : r[i] = so[i]
    BY <1>1, <1>3 DEF Put
  <2> HIDE DEF r, n
  <2>2. Named(r) = Named(so) \union {o}
    <3>1. 1 .. n + 1 = (1 .. n) \union {n + 1}
      BY <1>1
    <3> QED BY <1>1, <2>1, <3>1 DEF Named
  <2>3. Distinct(so) => Distinct(r)
    <3> DEFINE N == Named(so)
    <3>1. IsFiniteSet(N) => /\ IsFiniteSet(N \union {o})
                            /\ Cardinality(N \union {o}) = Cardinality(N) + 1
      <4>1. o \notin N
        BY <1>3
      <4> HIDE DEF N
      <4> QED BY <4>1, FS_AddElement
    <3> QED BY <2>1, <2>2, <3>1 DEF Distinct, n
  <2>4. ASSUME NEW i \in DOMAIN r
        PROVE  r[i] = e \/ \E j \in DOMAIN so : r[i] = so[j] /\ so[j].opt # o
    <3>1. i = n + 1 \/ i \in 1 .. n
      BY <1>1, <2>1
    <3>2. i \in 1 .. n => r[i] = so[i] /\ so[i].opt # o
      BY <1>1, <1>3, <2>1 DEF Named
    <3> QED BY <1>1, <2>1, <3>1, <3>2
  <2> QED BY <2>1, <2>2, <2>3, <2>4 DEF r
<1> QED BY <1>2, <1>3

\* A written option takes the place of an earlier one.
LEMMA AddItemIs ==
  ASSUME NEW so \in Seq(Entry), NEW item \in Item
  PROVE  /\ [opt |-> item.name, val |-> Vals(item)] \in Entry
         /\ AddItem(so, item) = Put(so, [opt |-> item.name, val |-> Vals(item)])
<1>1. item.name \in Known /\ Vals(item) \in SUBSET Nat
  BY ValsType DEF Item
<1>2. [opt |-> item.name, val |-> Vals(item)].opt = item.name
  OBVIOUS
<1> QED BY <1>1, <1>2 DEF AddItem, AddSo, Put, Entry, Named

\* sp_addsobyint() with a default.
Fill(so, o) == AddDef(so, o, FALSE)

\* A default is only for an option that is not set.
LEMMA FillIs ==
  ASSUME NEW so \in Seq(Entry), NEW o \in {"SO_REUSEADDR", "IP_TOS", "SO_SNDBUF"}
  PROVE  /\ [opt |-> o, val |-> Default[o]] \in Entry
         /\ Fill(so, o) = IF o \in Named(so) THEN so
                                   ELSE Put(so, [opt |-> o, val |-> Default[o]])
<1>1. o \in Known /\ Default[o] \in SUBSET Nat
  <2>1. o \in Known
    BY DEF Known
  <2>2. Default[o] \in SUBSET Nat
    BY DefaultType
  <2> QED BY <2>1, <2>2
<1>2. [opt |-> o, val |-> Default[o]].opt = o
  OBVIOUS
<1>3. [i \in DOMAIN so |-> so[i]] = so
  OBVIOUS
<1> QED BY <1>1, <1>2, <1>3 DEF Fill, AddDef, AddSo, Put, Entry, Named

\* The options written up to the k-th one of items.
AddRun(f, items) ==
  /\ f \in [0 .. Len(items) -> Seq(Entry)] /\ f[0] = << >>
  /\ \A k \in 1 .. Len(items) :
       f[k] = AddItem(f[k - 1], items[k])

\* The tables after each of the items exist.
LEMMA AddRunExists ==
  ASSUME NEW items \in Seq(Item)
  PROVE  \E f : AddRun(f, items)
<1> DEFINE N == Len(items)
           T == Seq(Entry)
           next == [k \in 1 .. N |-> [so \in T |->
                      AddItem(so, items[k])]]
           prev == [k \in 1 .. N |-> k - 1]
<1>1. N \in Nat /\ << >> \in T
  OBVIOUS
<1>2. ASSUME NEW k \in 1 .. N, NEW so \in T
      PROVE  AddItem(so, items[k]) \in T
  <2>1. items[k] \in Item
    OBVIOUS
  <2> QED BY <2>1, AddItemIs, PutIs
<1>3. /\ next \in [1 .. N -> [T -> T]] /\ prev \in [1 .. N -> Nat]
      /\ \A k \in 1 .. N : prev[k] < k
  <2> HIDE DEF N, T
  <2> QED BY <1>1, <1>2
<1>4. PICK f : Recursion(f, T, N, << >>, prev, next)
  <2> HIDE DEF N, T, next, prev
  <2> QED BY <1>1, <1>3, RecursionExists, Zenon
<1>5. ASSUME NEW k \in 1 .. N
      PROVE  f[k] = AddItem(f[k - 1], items[k])
  <2>1. k - 1 \in 0 .. N /\ f[k - 1] \in T
    <3> HIDE DEF T, N, next, prev
    <3> QED BY <1>1, <1>4 DEF Recursion
  <2>2. f[k] = next[k][f[k - 1]]
    BY <1>4 DEF Recursion
  <2> HIDE DEF N, T
  <2> QED BY <2>1, <2>2
<1> QED BY <1>4, <1>5 DEF AddRun, Recursion

\* AddItems is the last of them.
LEMMA AddItemsIs ==
  ASSUME NEW items \in Seq(Item), NEW so, AddRun(so, items)
  PROVE  AddItems(items) = so[Len(items)]
<1> DEFINE N == Len(items)
           Equation(f) == f = [i \in 0 .. N |-> IF i = 0 THEN << >>
                                ELSE AddItem(f[i - 1], items[i])]
           r == CHOOSE f : Equation(f)
<1>1. N \in Nat
  OBVIOUS
<1>2. Equation(so)
  BY DEF AddRun
<1>3. Equation(r)
  <2> HIDE DEF Equation
  <2> QED BY <1>2
<1>4. r[0] = << >> /\ \A k \in 1 .. N : r[k] = AddItem(r[k - 1], items[k])
  <2> DEFINE g == [i \in 0 .. N |-> IF i = 0 THEN << >>
                     ELSE AddItem(r[i - 1], items[i])]
  <2>1. r = g
    BY <1>3
  <2>2. g[0] = << >> /\ \A k \in 1 .. N : g[k] = AddItem(r[k - 1], items[k])
    <3> HIDE DEF r, N
    <3> QED BY <1>1
  <2> HIDE DEF r, g
  <2> QED BY <2>1, <2>2
<1>5. AddItems(items) = r[N]
  BY DEF AddItems
<1> DEFINE S == {k \in Nat : k <= N => r[k] = so[k]}
<1> HIDE DEF r
<1>6. 0 \in S
  BY <1>4 DEF AddRun
<1>7. ASSUME NEW k \in Nat, k \in S
      PROVE  k + 1 \in S
  <2>1. k + 1 <= N => k + 1 \in 1 .. N /\ (k + 1) - 1 = k /\ r[k] = so[k]
    BY <1>7
  <2> QED BY <1>4, <2>1 DEF AddRun
<1>8. N \in S
  <2> HIDE DEF S
  <2> QED BY <1>1, <1>6, <1>7, SetInduction
<1> QED BY <1>5, <1>8

\* Of the first k items, i is the last that mentions o.
LastOf(items, k, o, i) ==
  /\ i \in 1 .. k /\ items[i].name = o
  /\ \A j \in i + 1 .. k : items[j].name # o

\* The table holds what the first k items ask for, in their last mention.
Asked(so, items, k) ==
  /\ so \in Seq(Entry) /\ Distinct(so)
  /\ Named(so) = {items[i].name : i \in 1 .. k}
  /\ \A e \in DOMAIN so :
       \E i \in 1 .. k : LastOf(items, k, so[e].opt, i) /\ so[e].val = Vals(items[i])

\* The items leave each option in the table once, with its last value.
LEMMA ItemsAsked ==
  ASSUME NEW items \in Seq(Item)
  PROVE  Asked(AddItems(items), items, Len(items))
<1> DEFINE N == Len(items)
<1>1. PICK so : AddRun(so, items)
  BY AddRunExists
<1> DEFINE S == {k \in Nat : k <= N => Asked(so[k], items, k)}
<1>2. N \in Nat
  OBVIOUS
<1>3. 0 \in S
  <2>1. so[0] = << >>
    BY <1>1 DEF AddRun
  <2>2. Named(<< >>) = {} /\ {items[i].name : i \in 1 .. 0} = {}
    BY DEF Named
  <2>3. Distinct(<< >>)
    BY <2>2, FS_EmptySet DEF Distinct
  <2>4. << >> \in Seq(Entry) /\ \A e \in DOMAIN << >> : FALSE
    OBVIOUS
  <2> QED BY <2>1, <2>2, <2>3, <2>4 DEF Asked
<1>4. ASSUME NEW k \in Nat, k \in S
      PROVE  k + 1 \in S
  <2> SUFFICES ASSUME k + 1 <= N PROVE Asked(so[k + 1], items, k + 1)
    OBVIOUS
  <2> DEFINE old == so[k]
             new == so[k + 1]
             o == items[k + 1].name
             v == Vals(items[k + 1])
  <2>1. Asked(old, items, k)
    BY <1>4
  <2>2. k + 1 \in 1 .. N /\ items[k + 1] \in Item
    BY <1>2
  <2>3. new = AddItem(old, items[k + 1])
    <3>1. (k + 1) - 1 = k
      OBVIOUS
    <3> QED BY <1>1, <2>2, <3>1 DEF AddRun
  <2> HIDE DEF old, new, o, v
  <2>4. /\ new \in Seq(Entry) /\ Named(new) = Named(old) \union {o} /\ Distinct(new)
        /\ \A e \in DOMAIN new :
             \/ new[e] = [opt |-> o, val |-> v]
             \/ \E j \in DOMAIN old : new[e] = old[j] /\ old[j].opt # o
    <3>1. old \in Seq(Entry) /\ Distinct(old)
      BY <2>1 DEF Asked
    <3> DEFINE E == [opt |-> o, val |-> v]
    <3>2. E \in Entry /\ E.opt = o /\ new = Put(old, E)
      BY <2>2, <2>3, <3>1, AddItemIs DEF o, v
    <3> HIDE DEF E
    <3>3. /\ new \in Seq(Entry) /\ Named(new) = Named(old) \union {o} /\ Distinct(new)
          /\ \A e \in DOMAIN new :
               new[e] = E \/ \E j \in DOMAIN old : new[e] = old[j] /\ old[j].opt # o
      BY <3>1, <3>2, PutIs
    <3> QED BY <3>3 DEF E
  <2>5. Named(new) = {items[i].name : i \in 1 .. k + 1}
    <3>1. 1 .. k + 1 = (1 .. k) \union {k + 1}
      OBVIOUS
    <3> QED BY <2>1, <2>4, <3>1 DEF Asked, o
  <2>6. ASSUME NEW e \in DOMAIN new
        PROVE  \E i \in 1 .. k + 1 :
                 LastOf(items, k + 1, new[e].opt, i) /\ new[e].val = Vals(items[i])
    <3>1. CASE new[e] = [opt |-> o, val |-> v]
      <4>1. LastOf(items, k + 1, o, k + 1)
        BY DEF LastOf, o
      <4> QED BY <3>1, <4>1 DEF v
    <3>2. CASE \E j \in DOMAIN old : new[e] = old[j] /\ old[j].opt # o
      <4>1. PICK j \in DOMAIN old : new[e] = old[j] /\ old[j].opt # o
        BY <3>2
      <4>2. PICK i \in 1 .. k : LastOf(items, k, old[j].opt, i) /\ old[j].val = Vals(items[i])
        BY <2>1 DEF Asked
      <4>3. LastOf(items, k + 1, old[j].opt, i) /\ i \in 1 .. k + 1
        BY <4>1, <4>2 DEF LastOf, o
      <4> QED BY <4>1, <4>2, <4>3
    <3> QED BY <2>4, <3>1, <3>2
  <2> QED BY <2>4, <2>5, <2>6 DEF Asked, new
<1>5. N \in S
  <2> HIDE DEF S, N
  <2> QED BY <1>2, <1>3, <1>4, SetInduction
<1> QED BY <1>1, <1>5, AddItemsIs

\* The table holds the last mention of each item, and the defaults D for what
\* is not mentioned.
Filled(so, items, D) ==
  /\ so \in Seq(Entry) /\ Distinct(so)
  /\ Named(so) = {items[i].name : i \in 1 .. Len(items)} \union D
  /\ \A e \in DOMAIN so :
       \/ \E i \in 1 .. Len(items) :
            LastOf(items, Len(items), so[e].opt, i) /\ so[e].val = Vals(items[i])
       \/ /\ \A i \in 1 .. Len(items) : items[i].name # so[e].opt
          /\ so[e].val = Default[so[e].opt]

\* One more default is added or is not needed.
LEMMA DefaultFills ==
  ASSUME NEW items \in Seq(Item), NEW so, NEW D, Filled(so, items, D),
         NEW o \in {"SO_REUSEADDR", "IP_TOS", "SO_SNDBUF"},
         NEW DD, DD = D \union {o}
  PROVE  Filled(Fill(so, o), items, DD)
<1> DEFINE N == Len(items)
           E == [opt |-> o, val |-> Default[o]]
           new == Fill(so, o)
<1>1. so \in Seq(Entry) /\ E \in Entry /\ E.opt = o /\ E.val = Default[o]
  BY FillIs DEF Filled
<1>2. CASE o \in Named(so)
  <2>1. new = so
    BY <1>1, <1>2, FillIs
  <2>2. Named(so) = Named(so) \union {o}
    BY <1>2
  <2>3. Named(so) = {items[i].name : i \in 1 .. N} \union DD
    BY <2>2 DEF Filled
  <2> QED BY <2>1, <2>3 DEF Filled
<1>3. CASE o \notin Named(so)
  <2>1. new = Put(so, E)
    BY <1>1, <1>3, FillIs
  <2> HIDE DEF E
  <2>2. /\ Put(so, E) \in Seq(Entry) /\ Named(Put(so, E)) = Named(so) \union {o}
        /\ Distinct(Put(so, E))
        /\ \A e \in DOMAIN Put(so, E) :
             Put(so, E)[e] = E \/ \E j \in DOMAIN so : Put(so, E)[e] = so[j]
    BY <1>1, PutIs DEF Filled
  <2> HIDE DEF new
  <2>3. \A i \in 1 .. N : items[i].name # o
    BY <1>3 DEF Filled
  <2>4. ASSUME NEW e \in DOMAIN new
        PROVE  \/ \E i \in 1 .. N : LastOf(items, N, new[e].opt, i) /\ new[e].val = Vals(items[i])
               \/ /\ \A i \in 1 .. N : items[i].name # new[e].opt
                  /\ new[e].val = Default[new[e].opt]
    <3>1. CASE new[e] = E
      BY <1>1, <2>3, <3>1
    <3>2. CASE \E j \in DOMAIN so : new[e] = so[j]
      BY <3>2 DEF Filled
    <3> QED BY <2>1, <2>2, <3>1, <3>2
  <2>5. Named(new) = {items[i].name : i \in 1 .. N} \union DD
    BY <2>1, <2>2 DEF Filled
  <2> QED BY <2>1, <2>2, <2>4, <2>5 DEF Filled, new
<1> QED BY <1>2, <1>3

\* sp_addsodefs() completes what the items ask for.
LEMMA AddrFilled ==
  ASSUME NEW items \in Seq(Item), NEW dom \in {"tcp", "udp"}
  PROVE  Filled(AddDefs(AddItems(items), dom), items, DefaultNames(dom))
<1> DEFINE written == AddItems(items)
           reuse == Fill(written, "SO_REUSEADDR")
           both == Fill(reuse, "IP_TOS")
           all == Fill(both, "SO_SNDBUF")
<1>1. Filled(written, items, {})
  <2>1. Asked(written, items, Len(items))
    BY ItemsAsked
  <2> QED BY <2>1 DEF Asked, Filled
<1>2. Filled(reuse, items, {"SO_REUSEADDR"})
  <2> DEFINE D == {"SO_REUSEADDR"}
  <2>1. D = {} \union {"SO_REUSEADDR"}
    OBVIOUS
  <2> HIDE DEF written, D
  <2> QED BY <1>1, <2>1, DefaultFills
<1>3. Filled(both, items, {"SO_REUSEADDR", "IP_TOS"})
  <2> DEFINE D == {"SO_REUSEADDR"}
             DD == {"SO_REUSEADDR", "IP_TOS"}
  <2>1. DD = D \union {"IP_TOS"}
    OBVIOUS
  <2> HIDE DEF reuse, D, DD
  <2> QED BY <1>2, <2>1, DefaultFills
<1>4. Filled(all, items, {"SO_REUSEADDR", "IP_TOS"} \union {"SO_SNDBUF"})
  <2> DEFINE D == {"SO_REUSEADDR", "IP_TOS"}
             DD == D \union {"SO_SNDBUF"}
  <2>1. DD = D \union {"SO_SNDBUF"}
    OBVIOUS
  <2> HIDE DEF both, D, DD
  <2> QED BY <1>3, <2>1, DefaultFills
<1>5. AddDefs(written, dom) = IF dom = "udp" THEN all ELSE both
  BY DEF AddDefs, AddsDefs, Fill
<1>6. DefaultNames(dom) = IF dom = "udp" THEN {"SO_REUSEADDR", "IP_TOS"} \union {"SO_SNDBUF"}
                          ELSE {"SO_REUSEADDR", "IP_TOS"}
  BY DEF DefaultNames
<1> HIDE DEF written, both, all
<1> QED BY <1>3, <1>4, <1>5, <1>6 DEF written

\* The last mention is the greatest.
LEMMA LastIsMax ==
  ASSUME NEW items \in Seq(Item), NEW o,
         NEW i \in 1 .. Len(items), LastOf(items, Len(items), o, i)
  PROVE  LET At == {j \in DOMAIN items : items[j].name = o}
         IN  At # {} /\ Max(At) = i
<1> DEFINE At == {j \in DOMAIN items : items[j].name = o}
<1>1. i \in At /\ At \subseteq Nat
  BY DEF LastOf
<1>2. \A j \in At : i >= j
  BY DEF LastOf
<1> HIDE DEF At
<1>3. \A x \in At : (\A j \in At : x >= j) => x = i
  BY <1>1, <1>2
<1>4. Max(At) = i
  BY <1>1, <1>2, <1>3 DEF Max
<1> QED BY <1>1, <1>4 DEF At

-----------------------------------------------------------------------------
(* Ports.                                                                  *)

\* A number that was converted is one that get_ul() knows how to scale.
LEMMA WrittenType ==
  ASSUME NEW n \in [x: Nat, tail: STRING], Converts(n)
  PROVE  Written(n) \in Nat /\ GetUl(n) \in Nat
  BY WidthAssumption DEF Converts, Written, Scale, GetUl

\* A type is not wider than one whose range is a multiple of its own.
LEMMA Multiple ==
  ASSUME NEW a \in Nat \ {0}, NEW b \in Nat \ {0}, a % b = 0
  PROVE  b <= a
  OBVIOUS

\* sp_addr_parse(): the port that was written, if there is one of that number.
LEMMA PortIs ==
  ASSUME NEW n \in [x: Nat, tail: STRING], n = Absent \/ Converts(n)
  PROVE  /\ Port(n) \in Nat
         /\ n = Absent \/ Written(n) = 0 => Port(n) = DEF_PORT
         /\ n # Absent /\ Written(n) \in 1 .. ShortSize - 1 => Port(n) = Written(n)
<1>1. DEF_PORT \in Nat /\ ShortSize \in Nat \ {0} /\ IntSize \in Nat \ {0} /\ UlongSize \in Nat \ {0}
  BY WidthAssumption
<1>2. ShortSize <= IntSize /\ IntSize <= UlongSize
  BY <1>1, WidthAssumption, Multiple
<1>3. CASE n = Absent
  BY <1>1, <1>3 DEF Port
<1>4. CASE n # Absent
  <2>1. Written(n) \in Nat /\ GetUl(n) \in Nat
    BY <1>4, WrittenType
  <2> DEFINE w == Written(n)
             u == GetUl(n)
  <2>2. u = w % UlongSize
    BY DEF GetUl
  <2>3. Port(n) = IF u % IntSize = 0 THEN DEF_PORT ELSE u % ShortSize
    BY <1>4 DEF Port
  <2> HIDE DEF w, u
  <2>4. Port(n) \in Nat
    BY <1>1, <2>1, <2>3 DEF w, u
  <2>5. w = 0 => Port(n) = DEF_PORT
    BY <1>1, <2>2, <2>3
  <2>6. w \in 1 .. ShortSize - 1 => Port(n) = w
    BY <1>1, <1>2, <2>2, <2>3
  <2> QED BY <1>4, <2>4, <2>5, <2>6 DEF w
<1> QED BY <1>3, <1>4

-----------------------------------------------------------------------------
(* Addresses.                                                              *)

Words == {t.word : t \in Texts} \union {"", "*", "0", "1", "5", NULL}
SockType ==
  [dom: {"none", "tcp", "udp"}, host: Words, port: Nat, opts: Seq(Entry)]

\* sp_addr_parse() accepts known options and a number that it can convert.
LEMMA AcceptedText ==
  ASSUME NEW t \in Texts, ~Refuses(t)
  PROVE  /\ t.items \in Seq(Item)
         /\ t.port \in [x: Nat, tail: STRING]
         /\ t.port = Absent \/ Converts(t.port)
<1> DEFINE items == t.items
           n == Len(items)
           Raw == [name: STRING, vals: Seq(STRING)]
<1>1. items \in Seq(Raw) /\ t.port \in [x: Nat, tail: STRING]
  BY TextsAssumption
<1>2. t.port = Absent \/ Converts(t.port)
  BY DEF Refuses
<1>3. /\ n \in Nat /\ DOMAIN items = 1 .. n /\ items = [i \in 1 .. n |-> items[i]]
      /\ \A i \in 1 .. n : items[i] \in Raw
  <2> HIDE DEF items, Raw
  <2> QED BY <1>1
<1>4. ASSUME NEW i \in 1 .. n
      PROVE  items[i] \in Item
  <2>1. items[i] \in [name: STRING, vals: Seq(STRING)]
    BY <1>3
  <2>2. items[i].name \in Known
    BY <1>3 DEF Refuses
  <2> QED BY <2>1, <2>2 DEF Item
<1>5. items \in Seq(Item)
  <2> HIDE DEF n, items
  <2> QED BY <1>3, <1>4
<1> QED BY <1>1, <1>2, <1>5

\* The table of an accepted address, and its port, are what was written.
LEMMA AddrIs ==
  ASSUME NEW t \in Texts, ~Refuses(t), NEW dom \in {"tcp", "udp"}
  PROVE  /\ Addr(t, dom) \in SockType
         /\ Addr(t, dom).dom = dom
         /\ Addr(t, dom).host = IF t.word = "" THEN "*" ELSE t.word
         /\ AsWritten(Addr(t, dom), t)
<1> DEFINE a == Addr(t, dom)
           items == t.items
           so == AddDefs(AddItems(items), dom)
           port == Port(t.port)
           host == IF t.word = "" THEN "*" ELSE t.word
<1>1. a = [dom |-> dom, host |-> host, port |-> port, opts |-> so]
  BY DEF Addr
<1>2. items \in Seq(Item)
  BY AcceptedText
<1>3. /\ port \in Nat
      /\ t.port = Absent \/ Written(t.port) = 0 => port = DEF_PORT
      /\ t.port # Absent /\ Written(t.port) \in 1 .. ShortSize - 1 => port = Written(t.port)
  BY AcceptedText, PortIs
<1>4. Filled(so, items, DefaultNames(dom))
  BY <1>2, AddrFilled
<1>5. host \in Words
  BY DEF Words
<1> HIDE DEF so, port, host
<1>6. a \in SockType
  BY <1>1, <1>3, <1>4, <1>5 DEF SockType, Filled
<1> DEFINE At(o) == {i \in DOMAIN items : items[i].name = o}
           Names == {so[i].opt : i \in DOMAIN so}
<1>7. Cardinality(Names) = Len(so)
  BY <1>4 DEF Filled, Distinct, Named
<1>8. Names = {items[i].name : i \in DOMAIN items} \union DefaultNames(dom)
  <2>1. DOMAIN items = 1 .. Len(items)
    <3> HIDE DEF items
    <3> QED BY <1>2
  <2>2. Named(so) = {items[i].name : i \in 1 .. Len(items)} \union DefaultNames(dom)
    BY <1>4 DEF Filled
  <2> HIDE DEF items
  <2> QED BY <2>1, <2>2 DEF Named
<1>9. ASSUME NEW e \in DOMAIN so
      PROVE  so[e].val = IF At(so[e].opt) = {} THEN Default[so[e].opt]
                         ELSE Vals(items[Max(At(so[e].opt))])
  <2> DEFINE o == so[e].opt
  <2>1. CASE \E i \in 1 .. Len(items) : LastOf(items, Len(items), o, i) /\ so[e].val = Vals(items[i])
    <3>1. PICK i \in 1 .. Len(items) : LastOf(items, Len(items), o, i) /\ so[e].val = Vals(items[i])
      BY <2>1
    <3>2. At(o) # {} /\ Max(At(o)) = i
      <4> HIDE DEF o
      <4> QED BY <1>2, <3>1, LastIsMax
    <3> HIDE DEF At
    <3> QED BY <3>1, <3>2
  <2>2. CASE (\A i \in 1 .. Len(items) : items[i].name # o) /\ so[e].val = Default[o]
    <3>1. At(o) = {}
      BY <1>2, <2>2
    <3> HIDE DEF At
    <3> QED BY <2>2, <3>1
  <2> QED BY <1>4, <2>1, <2>2 DEF Filled
<1>10. a.opts = so /\ a.port = port /\ a.dom = dom /\ a.host = host
  BY <1>1
<1> HIDE DEF a
<1>11. AsWritten(a, t)
  BY <1>3, <1>7, <1>8, <1>9, <1>10 DEF AsWritten
<1> QED BY <1>6, <1>10, <1>11 DEF a, host

-----------------------------------------------------------------------------
(* The command line and the two ends (Options).                            *)

EndType ==
  [type: {"none", "fd", "file", "tcp", "udp"}, arg: Words, sync: BOOLEAN,
   waitall: BOOLEAN]

ArgsOK ==
  /\ pc \in {"parse", "fd", "file", "sock", "std", "out", "ready", "failed"}
  /\ dir \in Dirs
  /\ last \in [Dirs -> Specs \union {NoSpec}]
  /\ fd \in [Dirs -> Words] /\ file \in [Dirs -> Words]
  /\ sock \in [Dirs -> SockType]
  /\ end \in [Dirs -> EndType]

\* Whatever of a direction is set is what its last specification means.
Meant(d) ==
  /\ last[d] = NoSpec => fd[d] = NULL /\ file[d] = NULL /\ sock[d].dom = "none"
  /\ last[d] # NoSpec /\ Proper(last[d]) =>
       /\ fd[d] # NULL => Means(last[d], d) = <<"fd", Fdnbr(fd[d])>>
       /\ file[d] # NULL => Means(last[d], d) = <<"file", file[d]>>
       /\ sock[d].dom # "none" => /\ Means(last[d], d) = <<sock[d].dom, sock[d].host>>
                                  /\ AsWritten(sock[d], last[d].text)

\* What FromLastSpecOrStandard says of one direction.
Settled(d) ==
  \/ end[d].type = "fd" /\ end[d].arg = Dash(d)
  \/ last[d] # NoSpec /\
       (Proper(last[d]) => <<end[d].type, end[d].arg>> = Means(last[d], d))

\* setup_fds() settles the input and then the output.
Ends ==
  /\ pc = "parse" => dir = "in"
  /\ dir = "in" => pc # "ready"
  /\ dir = "out" /\ pc # "failed" => Settled("in")
  /\ pc = "ready" => Settled("out")

OptionsInv ==
  /\ ArgsOK
  /\ \A d \in Dirs : Meant(d)
  /\ Ends

\* What a specification means, by its letter.
LEMMA MeansIs ==
  ASSUME NEW s, NEW d
  PROVE  /\ s.letter = "t" => Means(s, d) = <<"tcp", IF s.text.word = "" THEN "*" ELSE s.text.word>>
         /\ s.letter = "u" => Means(s, d) = <<"udp", IF s.text.word = "" THEN "*" ELSE s.text.word>>
         /\ s.letter = "-" => Means(s, d) = <<"fd", Dash(d)>>
         /\ s.letter = "f" => Means(s, d) = <<"file", s.text.word>>
         /\ s.letter = "d" => Means(s, d) = <<"fd", Fdnbr(s.text.word)>>
         /\ s.letter = "" /\ s.colon => Means(s, d) = <<"fd", Fdnbr(s.text.word)>>
         /\ s.letter = "" /\ ~s.colon => Means(s, d) = <<"file", s.text.word>>
  BY DEF Means

\* The numbers that descriptors are given by.
LEMMA FdnbrIs ==
  ASSUME NEW w
  PROVE  /\ w \in {"", "0"} => Fdnbr(w) = "0"
         /\ w \in {"1", "5"} => Fdnbr(w) = w
         /\ w \notin {"", "0", "1", "5"} => Fdnbr(w) = NULL
  BY DEF Fdnbr

\* A specification that does not begin like a socket, descriptor or file is
\* a path, and of the proper ones each begins with its own letter only.
LEMMA BeginsIs ==
  ASSUME NEW s \in Specs, NEW l \in {"t", "u", "d", "f"}
  PROVE  /\ Proper(s) => (Begins(s, l) <=> s.letter = l)
         /\ s.letter = l => Begins(s, l)
         /\ s.letter \in {"", "t", "u", "d", "f", "-"}
         /\ s.letter = "-" => Short(s)
         /\ s.text \in Texts /\ Skipped(s) \subseteq Texts
         /\ Proper(s) /\ s.letter # "-" => Skipped(s) = {s.text}
  BY DEF Specs, Begins, Proper, Short, Skipped

\* opt_subparse() sets what the specification means, and nothing else.
LEMMA AsksIs ==
  ASSUME NEW d \in Dirs, sock[d] \in SockType, NEW s \in Specs, NEW e \in Asks(s, d)
  PROVE  /\ e.fd \in Words /\ e.file \in Words /\ e.sock \in SockType
         /\ Proper(s) =>
              /\ e.fd # NULL => Means(s, d) = <<"fd", Fdnbr(e.fd)>>
              /\ e.file # NULL => Means(s, d) = <<"file", e.file>>
              /\ e.sock.dom # "none" => /\ Means(s, d) = <<e.sock.dom, e.sock.host>>
                                        /\ AsWritten(e.sock, s.text)
<1> DEFINE none == [sock[d] EXCEPT !.dom = "none"]
<1>1. /\ none \in SockType /\ none.dom = "none"
      /\ Unset(d) = [fd |-> NULL, file |-> NULL, sock |-> none]
      /\ NULL \in Words /\ Dash(d) \in Words
  BY DEF SockType, Unset, Words, Dash
<1>2. s.text \in Texts /\ \A t \in Texts : t.word \in Words
  BY BeginsIs DEF Words
<1> HIDE DEF none
<1>3. CASE Begins(s, "t") \/ Begins(s, "u")
  <2> DEFINE dom == IF Begins(s, "t") THEN "tcp" ELSE "udp"
  <2>1. PICK t \in Skipped(s) : ~Refuses(t) /\ e = [Unset(d) EXCEPT !.sock = Addr(t, dom)]
    BY <1>3 DEF Asks
  <2>2. e.fd = NULL /\ e.file = NULL /\ e.sock = Addr(t, dom)
    BY <1>1, <2>1
  <2>3. t \in Texts /\ dom \in {"tcp", "udp"}
    BY <2>1, BeginsIs
  <2>4. /\ e.sock \in SockType /\ e.sock.dom = dom
        /\ e.sock.host = IF t.word = "" THEN "*" ELSE t.word
        /\ AsWritten(e.sock, t)
    <3> HIDE DEF dom
    <3> QED BY <2>1, <2>2, <2>3, AddrIs
  <2>5. Proper(s) => t = s.text /\ Means(s, d) = <<dom, IF t.word = "" THEN "*" ELSE t.word>>
    <3> SUFFICES ASSUME Proper(s)
                 PROVE  t = s.text /\ Means(s, d) = <<dom, IF t.word = "" THEN "*" ELSE t.word>>
      OBVIOUS
    <3>1. s.letter = IF dom = "tcp" THEN "t" ELSE "u"
      BY <1>3, BeginsIs
    <3>2. t = s.text
      BY <2>1, <3>1, BeginsIs
    <3>3. CASE dom = "tcp"
      <4>1. s.letter = "t"
        BY <3>1, <3>3
      <4> HIDE DEF dom
      <4> QED BY <3>2, <3>3, <4>1, MeansIs
    <3>4. CASE dom = "udp"
      <4>1. s.letter = "u"
        BY <3>1, <3>4
      <4> HIDE DEF dom
      <4> QED BY <3>2, <3>4, <4>1, MeansIs
    <3> QED BY <2>3, <3>3, <3>4
  <2> HIDE DEF dom
  <2> QED BY <1>1, <2>2, <2>4, <2>5
<1>4. CASE ~(Begins(s, "t") \/ Begins(s, "u")) /\ ((s.letter = "" /\ s.colon) \/ Begins(s, "d"))
  <2>1. e = [Unset(d) EXCEPT !.fd = s.text.word]
    BY <1>4 DEF Asks
  <2>2. e.fd = s.text.word /\ e.file = NULL /\ e.sock = none
    BY <1>1, <2>1
  <2>3. Proper(s) => Means(s, d) = <<"fd", Fdnbr(s.text.word)>>
    BY <1>4, BeginsIs, MeansIs
  <2> QED BY <1>1, <1>2, <2>2, <2>3
<1>5. CASE /\ ~(Begins(s, "t") \/ Begins(s, "u"))
           /\ ~((s.letter = "" /\ s.colon) \/ Begins(s, "d"))
           /\ s.letter = "-" /\ Short(s)
  <2>1. e = [Unset(d) EXCEPT !.fd = Dash(d)]
    BY <1>5 DEF Asks
  <2>2. e.fd = Dash(d) /\ e.file = NULL /\ e.sock = none
    BY <1>1, <2>1
  <2>3. Means(s, d) = <<"fd", Dash(d)>> /\ Fdnbr(Dash(d)) = Dash(d)
    BY <1>5, MeansIs, FdnbrIs DEF Dash
  <2> QED BY <1>1, <2>2, <2>3
<1>6. CASE /\ ~(Begins(s, "t") \/ Begins(s, "u"))
           /\ ~((s.letter = "" /\ s.colon) \/ Begins(s, "d"))
           /\ ~(s.letter = "-" /\ Short(s))
  <2>1. PICK t \in IF Begins(s, "f") THEN Skipped(s) ELSE {s.text} :
               e = [Unset(d) EXCEPT !.file = t.word]
    BY <1>6 DEF Asks
  <2>2. e.fd = NULL /\ e.file = t.word /\ e.sock = none
    BY <1>1, <2>1
  <2>3. t \in Texts
    BY <1>2, <2>1, BeginsIs
  <2>4. Proper(s) => t = s.text /\ Means(s, d) = <<"file", t.word>>
    <3>1. ~ (s.letter \in {"t", "u", "d", "-"})
      BY <1>6, BeginsIs
    <3>2. s.letter = "f" \/ (s.letter = "" /\ ~s.colon)
      BY <1>6, <3>1, BeginsIs
    <3> QED BY <2>1, <3>1, <3>2, BeginsIs, MeansIs
  <2> QED BY <1>1, <1>2, <2>2, <2>3, <2>4
<1> QED BY <1>3, <1>4, <1>5, <1>6

\* Only a specification changes what is set for a direction.
LEMMA NextSets ==
  ASSUME ArgsOK, [Next]_vars
  PROVE  \/ UNCHANGED <<fd, file, sock, last>>
         \/ /\ pc = "parse" /\ pc' = "parse" /\ UNCHANGED <<dir, end>>
            /\ \E d \in Dirs, s \in Specs : \E e \in Asks(s, d) :
                 /\ fd' = [fd EXCEPT ![d] = e.fd]
                 /\ file' = [file EXCEPT ![d] = e.file]
                 /\ sock' = [sock EXCEPT ![d] = e.sock]
                 /\ last' = [last EXCEPT ![d] = s]
<1>1. CASE OptParse
  <2>1. CASE \E d \in Dirs, s \in Specs : TakesEnd(d, s)
    BY <2>1 DEF TakesEnd, Takes
  <2>2. CASE RefusesArg \/ TakesMode \/ TakesFlag \/ EndOfArgs
    BY <2>2 DEF RefusesArg, TakesMode, TakesFlag, EndOfArgs, opts
  <2> QED BY <1>1, <2>1, <2>2 DEF OptParse
<1>2. CASE SetupFds \/ Over \/ UNCHANGED vars
  BY <1>2 DEF SetupFds, SetupFd, SetupFile, SetupSock, SetupStandard, NoStandard, Over,
     TriesFd, Becomes, FallsTo, vars, opts
<1> QED BY <1>1, <1>2 DEF Next

\* Of several specifications only the last counts.
LEMMA NextMeant ==
  ASSUME ArgsOK, \A d \in Dirs : Meant(d), [Next]_vars
  PROVE  (\A d \in Dirs : Meant(d))'
<1>1. CASE UNCHANGED <<fd, file, sock, last>>
  BY <1>1 DEF Meant
<1>2. ASSUME NEW d \in Dirs, NEW s \in Specs, NEW e \in Asks(s, d),
             /\ fd' = [fd EXCEPT ![d] = e.fd]
             /\ file' = [file EXCEPT ![d] = e.file]
             /\ sock' = [sock EXCEPT ![d] = e.sock]
             /\ last' = [last EXCEPT ![d] = s]
      PROVE  (\A x \in Dirs : Meant(x))'
  <2>1. /\ fd'[d] = e.fd /\ file'[d] = e.file /\ sock'[d] = e.sock /\ last'[d] = s
        /\ \A x \in Dirs \ {d} : /\ fd'[x] = fd[x] /\ file'[x] = file[x]
                                 /\ sock'[x] = sock[x] /\ last'[x] = last[x]
    BY <1>2 DEF ArgsOK
  <2>2. s # NoSpec
    <3>1. s.letter \in {"", "t", "u", "d", "f", "-"}
      BY BeginsIs
    <3>2. NoSpec.letter = "none"
      BY DEF NoSpec
    <3> QED BY <3>1, <3>2
  <2>3. sock[d] \in SockType
    BY DEF ArgsOK
  <2>4. Meant(d)'
    BY <2>1, <2>2, <2>3, AsksIs DEF Meant
  <2>5. ASSUME NEW x \in Dirs \ {d}
        PROVE  Meant(x)'
    BY <2>1, <2>5 DEF Meant
  <2> QED BY <2>4, <2>5
<1> QED BY <1>1, <1>2, NextSets

\* What one end may become.
Right(e, d) ==
  \/ e.type = "fd" /\ e.arg = Dash(d)
  \/ last[d] # NoSpec /\ (Proper(last[d]) => <<e.type, e.arg>> = Means(last[d], d))

\* setup_fds() is at one direction, and takes for it what fits.
Step ==
  \/ UNCHANGED <<dir, end>> /\ pc' \notin {"parse", "ready"}
  \/ \E e \in EndType :
       Becomes(e) /\ (\A d \in Dirs : dir = d => Right(e, d))

\* A descriptor that fd_ctor() takes has a number.
LEMMA FdFits ==
  ASSUME NEW w, NEW to \in {"file", "out"}, TriesFd(w, to)
  PROVE  \/ UNCHANGED <<dir, end>> /\ pc' = to
         \/ /\ Fdnbr(w) # NULL
            /\ \E e \in EndType : Becomes(e) /\ e.type = "fd" /\ e.arg = Fdnbr(w)
<1>1. CASE /\ Fdnbr(w) \notin refused[dir] \union {NULL}
           /\ Becomes([type |-> "fd", arg |-> Fdnbr(w), sync |-> Synced, waitall |-> FALSE])
  <2> DEFINE n == Fdnbr(w)
             e == [type |-> "fd", arg |-> n, sync |-> Synced, waitall |-> FALSE]
  <2>1. n # NULL /\ n \in Words
    BY <1>1, FdnbrIs DEF Words
  <2>2. Synced \in BOOLEAN
    BY DEF Synced
  <2> HIDE DEF n
  <2>3. e \in EndType /\ e.type = "fd" /\ e.arg = n
    BY <2>1, <2>2 DEF EndType
  <2>4. Becomes(e)
    BY <1>1 DEF n
  <2> HIDE DEF e
  <2> QED BY <2>1, <2>3, <2>4 DEF n
<1>2. CASE FallsTo(to)
  BY <1>2 DEF FallsTo
<1> QED BY <1>1, <1>2 DEF TriesFd

\* Each of the four attempts gives the direction what it should have.
LEMMA AttemptFits ==
  ASSUME ArgsOK, \A d \in Dirs : Meant(d),
         SetupFd \/ SetupFile \/ SetupSock \/ SetupStandard
  PROVE  Step
<1> PICK d \in Dirs : d = dir
  BY DEF ArgsOK
<1>1. CASE SetupFd
  <2>1. CASE fd[dir] = NULL /\ FallsTo("file")
    BY <2>1 DEF Step, FallsTo
  <2>2. CASE fd[dir] # NULL /\ TriesFd(fd[dir], "file")
    <3>1. last[d] # NoSpec /\ (Proper(last[d]) => Means(last[d], d) = <<"fd", Fdnbr(fd[d])>>)
      BY <2>2 DEF Meant
    <3>2. CASE UNCHANGED <<dir, end>> /\ pc' = "file"
      BY <3>2 DEF Step
    <3>3. CASE \E e \in EndType : Becomes(e) /\ e.type = "fd" /\ e.arg = Fdnbr(fd[d])
      <4>1. PICK e \in EndType : Becomes(e) /\ e.type = "fd" /\ e.arg = Fdnbr(fd[d])
        BY <3>3
      <4>2. Right(e, d)
        BY <3>1, <4>1 DEF Right
      <4> QED BY <4>1, <4>2 DEF Step
    <3> QED BY <2>2, <3>2, <3>3, FdFits
  <2> QED BY <1>1, <2>1, <2>2 DEF SetupFd
<1>2. CASE SetupFile
  <2>1. CASE FallsTo("sock")
    BY <2>1 DEF Step, FallsTo
  <2>2. CASE /\ file[dir] # NULL
             /\ Becomes([type |-> "file", arg |-> file[dir], sync |-> Synced,
                         waitall |-> FALSE])
    <3> DEFINE e == [type |-> "file", arg |-> file[d], sync |-> Synced, waitall |-> FALSE]
    <3>1. file[d] \in Words
      BY DEF ArgsOK
    <3>2. Synced \in BOOLEAN
      BY DEF Synced
    <3>3. e \in EndType /\ e.type = "file" /\ e.arg = file[d]
      BY <3>1, <3>2 DEF EndType
    <3>4. Becomes(e)
      BY <2>2
    <3> HIDE DEF e
    <3>5. last[d] # NoSpec /\ (Proper(last[d]) => Means(last[d], d) = <<"file", file[d]>>)
      BY <2>2 DEF Meant
    <3>6. Right(e, d)
      BY <3>3, <3>5 DEF Right
    <3> QED BY <3>3, <3>4, <3>6 DEF Step
  <2> QED BY <1>2, <2>1, <2>2 DEF SetupFile
<1>3. CASE SetupSock
  <2>1. CASE FallsTo("std")
    BY <2>1 DEF Step, FallsTo
  <2>2. CASE /\ sock[dir].dom # "none"
             /\ Becomes([type |-> sock[dir].dom, arg |-> sock[dir].host, sync |-> FALSE,
                         waitall |-> dir = "in" /\ "rline" \notin flags])
    <3> DEFINE waits == d = "in" /\ "rline" \notin flags
               e == [type |-> sock[d].dom, arg |-> sock[d].host, sync |-> FALSE,
                     waitall |-> waits]
    <3>1. sock[d] \in SockType
      BY DEF ArgsOK
    <3>2. waits \in BOOLEAN
      OBVIOUS
    <3>3. Becomes(e)
      BY <2>2
    <3> HIDE DEF waits
    <3>4. e \in EndType /\ e.type = sock[d].dom /\ e.arg = sock[d].host
      BY <3>1, <3>2 DEF EndType, SockType
    <3> HIDE DEF e
    <3>5. /\ last[d] # NoSpec
          /\ Proper(last[d]) => Means(last[d], d) = <<sock[d].dom, sock[d].host>>
      BY <2>2 DEF Meant
    <3>6. Right(e, d)
      BY <3>4, <3>5 DEF Right
    <3> QED BY <3>3, <3>4, <3>6 DEF Step
  <2> QED BY <1>3, <2>1, <2>2 DEF SetupSock
<1>4. CASE SetupStandard
  <2>1. Fdnbr(Dash(d)) = Dash(d)
    BY FdnbrIs DEF Dash
  <2>2. CASE UNCHANGED <<dir, end>> /\ pc' = "out"
    BY <2>2 DEF Step
  <2>3. CASE \E e \in EndType : Becomes(e) /\ e.type = "fd" /\ e.arg = Fdnbr(Dash(d))
    BY <2>1, <2>3 DEF Step, Right
  <2> QED BY <1>4, <2>2, <2>3, FdFits DEF SetupStandard
<1> QED BY <1>1, <1>2, <1>3, <1>4

\* What the rest of main() leaves alone.
LEMMA NextEnd ==
  ASSUME ArgsOK, \A d \in Dirs : Meant(d), [Next]_vars
  PROVE  \/ /\ UNCHANGED <<fd, file, sock, last>> /\ pc \in {"fd", "file", "sock", "std"}
            /\ Step
         \/ UNCHANGED <<dir, end>> /\ pc' = pc
         \/ UNCHANGED <<dir, end>> /\ pc = "parse" /\ pc' \in {"fd", "failed"}
         \/ UNCHANGED dir /\ end' = [d \in Dirs |-> NoEnd] /\ pc' = "failed"
<1>1. CASE OptParse
  BY <1>1 DEF OptParse, TakesEnd, Takes, RefusesArg, TakesMode, TakesFlag, EndOfArgs
<1>2. CASE SetupFd \/ SetupFile \/ SetupSock \/ SetupStandard
  <2>1. pc \in {"fd", "file", "sock", "std"}
    BY <1>2 DEF SetupFd, SetupFile, SetupSock, SetupStandard
  <2>2. UNCHANGED <<fd, file, sock, last>>
    BY <2>1, NextSets
  <2> QED BY <1>2, <2>1, <2>2, AttemptFits
<1>3. CASE NoStandard
  BY <1>3 DEF NoStandard
<1>4. CASE Over \/ UNCHANGED vars
  BY <1>4 DEF Over, vars
<1> QED BY <1>1, <1>2, <1>3, <1>4 DEF Next, SetupFds

\* What is set is always of its type.
LEMMA NextArgsOK ==
  ASSUME ArgsOK, \A d \in Dirs : Meant(d), [Next]_vars
  PROVE  ArgsOK'
<1>1. /\ last' \in [Dirs -> Specs \union {NoSpec}]
      /\ fd' \in [Dirs -> Words] /\ file' \in [Dirs -> Words]
      /\ sock' \in [Dirs -> SockType]
  <2>1. CASE UNCHANGED <<fd, file, sock, last>>
    BY <2>1 DEF ArgsOK
  <2>2. ASSUME NEW d \in Dirs, NEW s \in Specs, NEW e \in Asks(s, d),
               /\ fd' = [fd EXCEPT ![d] = e.fd]
               /\ file' = [file EXCEPT ![d] = e.file]
               /\ sock' = [sock EXCEPT ![d] = e.sock]
               /\ last' = [last EXCEPT ![d] = s]
        PROVE  <1>1
    <3>1. sock[d] \in SockType
      BY DEF ArgsOK
    <3>2. e.fd \in Words /\ e.file \in Words /\ e.sock \in SockType
      BY <3>1, AsksIs
    <3> QED BY <2>2, <3>2 DEF ArgsOK
  <2> QED BY <2>1, <2>2, NextSets
<1>2. pc' \in {"parse", "fd", "file", "sock", "std", "out", "ready", "failed"}
  BY DEF ArgsOK, Next, OptParse, SetupFds, TakesEnd, Takes, RefusesArg, TakesMode, TakesFlag,
     EndOfArgs, SetupFd, SetupFile, SetupSock, SetupStandard, NoStandard, Over,
     TriesFd, Becomes, FallsTo, vars
<1>3. dir' \in Dirs /\ end' \in [Dirs -> EndType]
  <2>1. CASE \E e \in EndType : Becomes(e)
    BY <2>1 DEF ArgsOK, Becomes, Dirs
  <2>2. NoEnd \in EndType
    BY DEF NoEnd, EndType, Words
  <2>3. CASE UNCHANGED <<dir, end>> \/ (UNCHANGED dir /\ end' = [d \in Dirs |-> NoEnd])
    BY <2>2, <2>3 DEF ArgsOK
  <2> QED BY <2>1, <2>3, NextEnd DEF Step
<1> QED BY <1>1, <1>2, <1>3 DEF ArgsOK

\* The input is settled when the output's turn comes, and both in the end.
LEMMA NextEnds ==
  ASSUME ArgsOK, \A d \in Dirs : Meant(d), Ends, [Next]_vars
  PROVE  Ends'
<1>1. CASE /\ UNCHANGED <<fd, file, sock, last>> /\ pc \in {"fd", "file", "sock", "std"}
           /\ Step
  <2>1. CASE UNCHANGED <<dir, end>> /\ pc' \notin {"parse", "ready"}
    BY <1>1, <2>1 DEF Ends, Settled
  <2>2. ASSUME NEW e \in EndType, Becomes(e), \A d \in Dirs : dir = d => Right(e, d)
        PROVE  Ends'
    <3>1. Right(e, dir) /\ dir \in Dirs
      BY <2>2 DEF ArgsOK
    <3>2. end'[dir] = e /\ \A d \in Dirs \ {dir} : end'[d] = end[d]
      BY <2>2, <3>1 DEF Becomes, ArgsOK
    <3>3. dir' = "out" /\ pc' = IF dir = "in" THEN "fd" ELSE "ready"
      BY <2>2 DEF Becomes
    <3>4. CASE dir = "in"
      <4>1. Settled("in")'
        BY <1>1, <3>1, <3>2, <3>4 DEF Right, Settled
      <4> QED BY <3>3, <3>4, <4>1 DEF Ends
    <3>5. CASE dir = "out"
      <4>1. Settled("out")'
        BY <1>1, <3>1, <3>2, <3>5 DEF Right, Settled
      <4>2. Settled("in")
        BY <1>1, <3>5 DEF Ends
      <4>3. end'["in"] = end["in"]
        BY <3>2, <3>5 DEF Dirs
      <4>4. Settled("in")'
        BY <1>1, <4>2, <4>3 DEF Settled
      <4> QED BY <3>3, <3>5, <4>1, <4>4 DEF Ends
    <3> QED BY <3>1, <3>4, <3>5 DEF Dirs
  <2> QED BY <1>1, <2>1, <2>2 DEF Step
<1>2. CASE UNCHANGED <<dir, end>> /\ pc' = pc
  <2>1. CASE pc = "parse"
    BY <1>2, <2>1 DEF Ends
  <2>2. CASE pc # "parse"
    <3>1. last' = last
      BY <2>2, NextSets
    <3> QED BY <1>2, <2>2, <3>1 DEF Ends, Settled
  <2> QED BY <2>1, <2>2
<1>3. CASE UNCHANGED <<dir, end>> /\ pc = "parse" /\ pc' \in {"fd", "failed"}
  BY <1>3 DEF Ends
<1>4. CASE UNCHANGED dir /\ end' = [d \in Dirs |-> NoEnd] /\ pc' = "failed"
  BY <1>4 DEF Ends
<1> QED BY <1>1, <1>2, <1>3, <1>4, NextEnd

\* Nothing is set before the first option.
LEMMA InitOptions ==
  Init => OptionsInv
<1> SUFFICES ASSUME Init PROVE OptionsInv
  OBVIOUS
<1>1. NoSock \in SockType /\ NoSock.dom = "none"
  BY DEF NoSock, SockType, Words
<1>2. NoEnd \in EndType
  BY DEF NoEnd, EndType, Words
<1>3. NULL \in Words
  BY DEF Words
<1>4. ArgsOK
  BY <1>1, <1>2, <1>3 DEF Init, ArgsOK, Dirs
<1>5. \A d \in Dirs : Meant(d)
  BY <1>1 DEF Init, Meant
<1>6. Ends
  BY DEF Init, Ends
<1> QED BY <1>4, <1>5, <1>6 DEF OptionsInv

\* The options, and the ends made of them, follow the last specifications.
THEOREM OptionsInductive ==
  Spec => []OptionsInv
<1>1. OptionsInv /\ [Next]_vars => OptionsInv'
  BY NextArgsOK, NextMeant, NextEnds DEF OptionsInv
<1> QED BY <1>1, InitOptions, PTL DEF Spec

\* Whatever -i and -o are given, in any number and order and whichever of them
\* fd_ctor() and its kin can use: each end is what the last one means, or the
\* standard descriptor.
THEOREM EndsAsAsked ==
  Spec => []FromLastSpecOrStandard
<1>1. OptionsInv => FromLastSpecOrStandard
  BY DEF OptionsInv, ArgsOK, Ends, Settled, FromLastSpecOrStandard, Dirs
<1> QED BY <1>1, OptionsInductive, PTL

\* For every list of socket options: each is set once, as it was last written,
\* the defaults where the user is silent; and every existing port as written.
THEOREM SocketsAsAsked ==
  Spec => []SocketAsAsked
<1>1. OptionsInv => SocketAsAsked
  BY DEF OptionsInv, Meant, SocketAsAsked
<1> QED BY <1>1, OptionsInductive, PTL
=============================================================================
