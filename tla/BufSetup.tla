------------------------------ MODULE BufSetup ------------------------------
(***************************************************************************)
(* From the numbers on the command line to a buffer that can be used:      *)
(* opt_parse()'s limits, buf_ctor() and buf_setextra().  A resume point is *)
(* given in parts of Parts (the double of the program), a size in bytes.   *)
(***************************************************************************)
EXTENDS Integers, FiniteSets

CONSTANTS
  Pages,      \* what get_page() may return
  HugePages,  \* bound: what -H may ask for (up to DEF_MAXHPAGE in opt_parse())
  MaxSize,    \* bound: largest buffer asked for (SIZE_MAX/2 in opt_parse())
  MaxBlk,     \* DEF_MAXBLK
  SizeBits,   \* width of size_t
  Parts       \* bound: resume points are 0/Parts .. (Parts-1)/Parts

\* 1 << i
Pow2[i \in 0 .. SizeBits] == IF i = 0 THEN 1 ELSE 2 * Pow2[i - 1]

\* A size of at most SIZE_MAX/2 can be rounded up to whole pages.
ASSUME SetupAssumption ==
  /\ Pages \subseteq Nat \ {0} /\ HugePages \subseteq Nat \ {0}
  /\ MaxSize \in Nat /\ MaxBlk \in Nat /\ Parts \in Nat \ {0}
  /\ SizeBits \in Nat
  /\ \A page \in Pages \union HugePages : MaxSize + page <= Pow2[SizeBits]

VARIABLES
  arg,        \* the options bsiz, rblk, wblk, rs, ws, rline, hpage (0: no -H); the page
  size, mask, \* buf->size and buf->mask
  rsp, wsp,   \* the resume points in bytes
  areas,      \* what is mapped: "buf" and "scr"
  scr,        \* the bounce area: where wchunk starts, and its length
  step        \* how far the construction has come

setupvars == <<arg, size, mask, rsp, wsp, areas, scr, step>>

\* The ring the accepted numbers make.
Ring(n) == INSTANCE Buffer WITH Size <- n

Align(x, page) == ((x + page - 1) \div page) * page

Bits(x) == {i \in 0 .. SizeBits - 1 : (x \div Pow2[i]) % 2 = 1}

\* is_pow2(): the index of the only bit set, or a negative number.
AnyBit(x) == CHOOSE i \in Bits(x) : \A j \in Bits(x) : j <= i
IsPow2(x) == IF Cardinality(Bits(x)) = 1 THEN AnyBit(x) ELSE -1

\* (size_t)(0.5 + part * size)
Scaled(part, n) == (2 * part * n + Parts) \div (2 * Parts)

SetupInit ==
  /\ arg \in [bsiz: 1 .. MaxSize, rblk: 1 .. MaxBlk, wblk: 1 .. MaxBlk,
              rs: 0 .. Parts - 1, ws: 0 .. Parts - 1, rline: BOOLEAN, hpage: {0} \union HugePages,
              page: Pages]
  /\ size = 0 /\ mask = 0 /\ rsp = 0 /\ wsp = 0
  /\ areas = {} /\ scr = <<0, 0>>
  /\ step = IF arg.bsiz < arg.page \/ (arg.hpage # 0 /\ arg.hpage < arg.page)
            THEN "rejected" ELSE "area"

Reject(at) ==
  /\ step = at /\ step' = "rejected"
  /\ UNCHANGED <<arg, size, mask, rsp, wsp, scr>>

Pass(at, to) == step = at /\ step' = to

\* The pages the ring is made of: huge ones when they are larger.  (The SysV
\* variant also rounds to SHMLBA, which does as an hpage of that size.)
AreaPage == IF arg.hpage > arg.page THEN arg.hpage ELSE arg.page

\* The area is rounded up to whole pages before its size is looked at.
MakesArea ==
  /\ Pass("area", "pow2")
  /\ size' = Align(arg.bsiz, AreaPage)
  /\ areas' = {"buf"}
  /\ UNCHANGED <<arg, mask, rsp, wsp, scr>>

NoArea == Reject("area") /\ UNCHANGED areas

ChecksPow2 ==
  /\ Pass("pow2", "blocks")
  /\ IsPow2(size) >= 0
  /\ mask' = Pow2[IsPow2(size)] - 1
  /\ UNCHANGED <<arg, size, rsp, wsp, areas, scr>>

NotPow2Leaks == Reject("pow2") /\ IsPow2(size) < 0 /\ UNCHANGED areas
NotPow2 == Reject("pow2") /\ IsPow2(size) < 0 /\ areas' = areas \ {"buf"}

MaxRblkOnly == arg.rblk
MaxBlock == IF arg.rblk > arg.wblk THEN arg.rblk ELSE arg.wblk

ChecksBlocks ==
  /\ size > 2 * MaxBlock
  /\ Pass("blocks", "bounce")
  /\ UNCHANGED <<arg, size, mask, rsp, wsp, areas, scr>>

BlocksTooBig ==
  /\ size <= 2 * MaxBlock
  /\ Reject("blocks") /\ areas' = areas \ {"buf"}

\* The bounce area never takes huge pages.
BounceUnaligned == <<arg.rblk - 1, Align(arg.rblk + arg.wblk - 1, arg.page)>>
Bounce ==
  <<Align(arg.rblk, arg.page), Align(arg.rblk, arg.page) + Align(arg.wblk, arg.page)>>

MakesBounce ==
  /\ Pass("bounce", "rsp")
  /\ scr' = Bounce
  /\ areas' = areas \union {"scr"}
  /\ UNCHANGED <<arg, size, mask, rsp, wsp>>

NoBounce == Reject("bounce") /\ areas' = areas \ {"buf"}

\* A resume point must lie above one written and below the room for one read.
Between(point) == arg.wblk < point /\ point < size - arg.rblk

SetsRsp ==
  LET point == Scaled(arg.rs, size)
  IN  /\ point # 0 => Between(point)
      /\ Pass("rsp", "wsp")
      /\ rsp' = point
      /\ UNCHANGED <<arg, size, mask, wsp, areas, scr>>

SetsWsp ==
  LET point == Scaled(arg.ws, size)
  IN  /\ point # 0 => Between(point)
      /\ Pass("wsp", "ready")
      /\ wsp' = point
      /\ UNCHANGED <<arg, size, mask, rsp, areas, scr>>

\* setup_env() then calls buf_dtor().
BadPoint ==
  /\ \/ ~Between(Scaled(arg.rs, size)) /\ Scaled(arg.rs, size) # 0 /\ Reject("rsp")
     \/ ~Between(Scaled(arg.ws, size)) /\ Scaled(arg.ws, size) # 0 /\ Reject("wsp")
  /\ areas' = {}

SetupNext ==
  \/ MakesArea \/ NoArea \/ ChecksPow2 \/ NotPow2 \/ ChecksBlocks \/ BlocksTooBig
  \/ MakesBounce \/ NoBounce \/ SetsRsp \/ SetsWsp \/ BadPoint

SetupSpec == SetupInit /\ [][SetupNext]_setupvars

-----------------------------------------------------------------------------

\* The configuration, as the transfer sees it.
Opt == [rblk |-> arg.rblk, wblk |-> arg.wblk, rline |-> arg.rline, wline |-> FALSE,
        rsp |-> rsp, wsp |-> wsp, strict |-> FALSE]

\* What the transfer takes for granted of its options is what the checks of
\* opt_parse(), buf_ctor() and buf_setextra() leave; and x & mask is x % size.
AcceptsValid ==
  step = "ready" => Ring(size)!ValidOptions(Opt) /\ mask + 1 = size

\* buf_ctor(): "sharp should be enough ... verify this (carefully)".  With
\* size > 2 * max(rblk, wblk), and resume points between the blocks, there is
\* no fill level at which both sides are refused, even when one of them is
\* suspended: the other one can always go on until the resume point.
SharpIsEnough ==
  step = "ready" =>
    \A hav \in 0 .. size - 1 : \A rstall, wstall \in BOOLEAN :
      /\ ~(rstall /\ wstall)
      /\ rstall => rsp # 0
      /\ wstall => wsp # 0
      => \/ Ring(size)!GrantR(Opt, size - hav, rstall) > 0
         \/ Ring(size)!GrantW(Opt, hav, wstall, arg.wblk, wsp) > 0

\* The two bounce chunks hold a full block each and do not overlap, whichever
\* of the sides bounces at the same time.
BouncesApart ==
  step = "ready" => arg.rblk <= scr[1] /\ scr[1] + arg.wblk <= scr[2]

\* A refused configuration leaves nothing mapped, wherever it was refused.
RejectsCleanly == step = "rejected" => areas = {}
=============================================================================
