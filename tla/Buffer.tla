------------------------------- MODULE Buffer -------------------------------
(***************************************************************************)
(* The circular buffer of buffer.c and buffer.h: the decisions             *)
(* buf_can_r()/buf_can_w() take from the two cursors, the choice between a *)
(* direct and a bounced access, and what each access does to the ring.     *)
(*                                                                         *)
(* `got' and `did' are the producer's and the consumer's cursor.  A        *)
(* configuration o is a record; its fields rblk, wblk, rline, wline, rsp,  *)
(* wsp and strict are the options of the same name (rsp and wsp already    *)
(* scaled to bytes, 0 when the option is absent) and iscir says that the   *)
(* area is mapped twice in a row.  Memory is a function from slots to      *)
(* bytes, a chunk in flight a function on 0..n-1.                          *)
(***************************************************************************)
EXTENDS Integers

CONSTANT Size        \* buf->size: bytes in the ring; buf->mask is Size - 1

ASSUME SizeAssumption == Size \in Nat \ {0}

Slots == 0 .. Size - 1

\* x & buf->mask on the unsigned difference or sum x.
MaskForgotten(x) == x
Mask(x) == x % Size

Least(x, y) == IF x <= y THEN x ELSE y

-----------------------------------------------------------------------------
(* Fill level and the two decisions.                                       *)

Hav(got, did) == Mask(got - did)

\* Equal cursors mean an empty ring, so a zero difference is all of it (first
\* without that case).
EmpRaw(got, did) == Mask(did - got)
Emp(got, did) == LET emp == Mask(did - got) IN IF emp = 0 THEN Size ELSE emp

RMin(o) == IF o.rline THEN 1 ELSE o.rblk
WMin(o) == IF o.wline THEN 1 ELSE o.wblk

\* What buf_ctor(), buf_setextra() and opt_parse() let through.
ValidOptions(o) ==
  /\ o.rblk \in Nat \ {0} /\ o.wblk \in Nat \ {0}
  /\ 2 * o.rblk < Size /\ 2 * o.wblk < Size
  /\ o.rsp = 0 \/ (o.wblk < o.rsp /\ o.rsp < Size - o.rblk)
  /\ o.wsp = 0 \/ (o.wblk < o.wsp /\ o.wsp < Size - o.rblk)
  /\ ~(o.wline /\ o.strict)

\* A read stays suspended below the resume point; "hav > rsp" in the code is
\* emp < rsp_inv, where rsp_inv = size - rsp.
ReadSuspendedUninverted(o, emp) == emp < o.rsp
ReadSuspended(o, emp) == emp < Size - o.rsp

\* The result of buf_can_r() (first without its sharp inequalities) ...
GrantRBlunt(o, emp, rstall) ==
  CASE rstall /\ ReadSuspended(o, emp)    -> 0
    [] rstall /\ ~ReadSuspended(o, emp)   -> o.rblk
    [] ~rstall /\ emp >= o.rblk           -> o.rblk
    [] OTHER                              -> 0

GrantR(o, emp, rstall) ==
  CASE rstall /\ ReadSuspended(o, emp)    -> 0
    [] rstall /\ ~ReadSuspended(o, emp)   -> o.rblk
    [] ~rstall /\ emp > o.rblk            -> o.rblk
    [] ~rstall /\ emp \in RMin(o) + 1 .. o.rblk -> emp
    [] OTHER                              -> 0

\* ... and what it leaves in buf->rstall.
StallsR(o, emp, rstall) ==
  /\ GrantR(o, emp, rstall) = 0
  /\ rstall \/ o.rsp # 0

\* A write stays suspended below the resume point.
WriteSuspendedEarlier(hav, wsp) == hav + 1 < wsp
WriteSuspended(hav, wsp) == hav < wsp

\* The result of buf_can_w(); wmin and wsp are buffer fields rather than
\* options, because buf_setlinew() overwrites them.
GrantW(o, hav, wstall, wmin, wsp) ==
  CASE wstall /\ WriteSuspended(hav, wsp) -> 0
    [] wstall /\ ~WriteSuspended(hav, wsp) -> o.wblk
    [] ~wstall /\ hav >= o.wblk           -> o.wblk
    [] ~wstall /\ hav \in wmin .. o.wblk - 1 -> hav
    [] OTHER                              -> 0

StallsW(o, hav, wstall, wmin, wsp) ==
  /\ GrantW(o, hav, wstall, wmin, wsp) = 0
  /\ wstall \/ wsp # 0

-----------------------------------------------------------------------------
(* Access to the ring.  A direct access runs over consecutive addresses;   *)
(* past the end it meets the second mapping, or nothing of the ring.       *)

Junk == -1           \* a byte that is not the ring's

Cell(o, a) == IF o.iscir THEN Mask(a) ELSE a

Direct(o, cursor, n) == o.iscir \/ cursor + n <= Size

\* read() into ptr + got.
Store(o, m, got, n, c) ==
  [s \in Slots |-> LET k == IF o.iscir THEN Mask(s - got) ELSE s - got
                   IN  IF k \in 0 .. n - 1 THEN c[k] ELSE m[s]]

\* write() from ptr + did.
Load(o, m, did, n) ==
  [k \in 0 .. n - 1 |-> LET s == Cell(o, did + k)
                        IN  IF s \in Slots THEN m[s] ELSE Junk]

\* ibuf_commit_rbounce(): two copies, split at the end of the ring.
BounceIn(m, got, n, c) ==
  LET siz1 == Least(Size - got, n)
      siz2 == n - siz1
  IN  [s \in Slots |-> IF s \in got .. got + siz1 - 1 THEN c[s - got]
                       ELSE IF s < siz2 THEN c[siz1 + s] ELSE m[s]]

\* ibuf_fetch_wbounce(); first without the copy from the start of the ring.
BounceOutUnwrapped(m, did, n) ==
  [k \in 0 .. n - 1 |-> IF did + k < Size THEN m[did + k] ELSE m[k]]

BounceOut(m, did, n) ==
  LET siz1 == Least(Size - did, n)
  IN  [k \in 0 .. n - 1 |-> IF k < siz1 THEN m[did + k] ELSE m[k - siz1]]

\* buf_fetch_w(): what write() will find at the returned pointer.
FetchW(o, m, did, n) ==
  IF Direct(o, did, n) THEN Load(o, m, did, n) ELSE BounceOut(m, did, n)

-----------------------------------------------------------------------------
(* Blocks as they are written.                                             *)

\* How much of n bytes one successful write() takes.
Taken(o, n) == IF o.shortw THEN 1 .. n ELSE {n}

\* The bytes 0..n-1 of chunk c as a sequence.
AsSeq(c, n) == [i \in 1 .. n |-> c[i - 1]]

\* In strict mode the epilogue completes a last, partial block with zeros,
\* for which it always bounces.
Padding(o, siz) == IF o.strict /\ siz < o.wblk THEN o.wblk - siz ELSE 0

FetchPadded(o, m, did, siz) ==
  LET c == IF Padding(o, siz) > 0 THEN BounceOut(m, did, siz)
           ELSE FetchW(o, m, did, siz)
  IN  [k \in 0 .. siz + Padding(o, siz) - 1 |-> IF k < siz THEN c[k] ELSE 0]
=============================================================================
