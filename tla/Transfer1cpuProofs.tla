------------------------- MODULE Transfer1cpuProofs -------------------------
(***************************************************************************)
(* The transfer of sp mode, for every ring size, every accepted            *)
(* configuration, every input length and any number of signals: what the   *)
(* task keeps true of itself (Kept), and of the bytes (Content), which     *)
(* needs a reader in block mode.                                           *)
(***************************************************************************)
EXTENDS Transfer1cpu, BufferProofs

hav == Hav(got, did)

\* The writing side's limits are the configured ones until buf_setlinew().
Limits ==
  /\ ~InputOver \/ pc = "outt" => wmin = WMin(opt) /\ wsp = opt.wsp
  /\ pc \in {"epi", "ewrite"} => wmin = 1 /\ wsp = 0 /\ ~wstall
  /\ rstall => opt.rsp # 0
  /\ wstall => wsp # 0

\* What buf_can_r() and buf_can_w() granted.
Claims ==
  /\ pc = "read" => siz > 0
  /\ pc \in {"write", "ewrite"} => siz > 0 /\ siz <= hav

\* How the loop was left, and what that means for the verdict.
Verdict ==
  /\ ~InputOver => retr = 1 /\ retw = 0
  /\ done => errlog # {}
  /\ pc = "open" => hav = 0
  /\ pc \in {"epi", "ewrite"} => retw = 0
  /\ InputOver /\ retr = 1 /\ retw = 0 => errlog # {}
  /\ pc \in {"end", "over"} /\ (retr = -1 \/ retw = -1) => errlog # {}
  /\ pc \in {"ends", "end", "over"} /\ retw = 0 => hav = 0
  /\ pc = "over" <=> ret # "running"
  /\ ret = "clean" => errlog = {}

Kept == TypeOK /\ Limits /\ Claims /\ Verdict

\* A block that is read leaves a byte free, or the ring would look empty.
Room == pc = "read" => siz + hav < Size

\* The ring holds the bytes behind those that were written, or padded.
RingHolds == \A k \in 0 .. hav - 1 : mem[Mask(did + k)] = pos - hav + k + 1
Unpadded == Len(out) = pos - hav
Padded ==
  /\ opt.strict /\ hav = 0 /\ pc \in {"epi", "ends", "end", "over"}
  /\ pos < Len(out) /\ Len(out) < pos + opt.wblk
Delivered == \A i \in 1 .. Len(out) : out[i] = IF i <= pos THEN i ELSE 0
Written == (Unpadded \/ Padded) /\ Delivered

\* The epilogue writes blocks, or all that is left.
LastBlock == pc = "ewrite" => siz = opt.wblk \/ (siz < opt.wblk /\ siz = hav)

\* In strict mode with full writes every write is one of a whole block.
WholeBlocks ==
  opt.strict /\ ~opt.shortw =>
    /\ Len(out) % opt.wblk = 0
    /\ pc = "write" => siz = opt.wblk

Content == Room /\ RingHolds /\ Written /\ LastBlock /\ WholeBlocks

\* No configuration has the byte mode of option -l on the reader's side, which
\* with blocks of one byte changes nothing.
BlockReaders == \A o \in Options : RMin(o) = o.rblk

-----------------------------------------------------------------------------
(* Kept is preserved.                                                      *)

\* What the option checks of the program establish, for any configuration.
LEMMA OptionFacts ==
  ASSUME NEW o \in Options
  PROVE  /\ Accepted(o)
         /\ WMin(o) \in Nat /\ WMin(o) > 0 /\ WMin(o) <= o.wblk
         /\ o.rblk \in Nat /\ o.rblk > 0 /\ o.wblk \in Nat /\ o.wblk > 0
         /\ 2 * o.rblk < Size /\ 2 * o.wblk < Size
         /\ o.rsp \in Nat /\ o.wsp \in Nat /\ o.rcnt \in Nat /\ o.wcnt \in Nat
         /\ o.wsp # 0 => o.wblk < o.wsp
         /\ o.strict \in BOOLEAN /\ (o.strict => WMin(o) = o.wblk)
<1>1. o \in OptionType /\ ValidOptions(o)
  BY OptionsAssumption
<1>2. Accepted(o)
  BY <1>1 DEF OptionType, Accepted
<1>3. o.wblk \in Nat /\ o.wblk > 0 /\ o.rblk \in Nat /\ o.rblk > 0
  BY <1>1 DEF ValidOptions
<1>4. o.rcnt \in Nat /\ o.wcnt \in Nat /\ o.strict \in BOOLEAN
  BY <1>1 DEF OptionType
<1> QED BY <1>1, <1>2, <1>3, <1>4 DEF ValidOptions, Accepted, WMin

\* What Kept says of the fill level and of the configuration.
LEMMA Here ==
  ASSUME Kept
  PROVE  /\ hav \in 0 .. Size - 1 /\ hav \in Nat /\ Size \in Nat
         /\ Emp(got, did) = Size - hav
         /\ got \in Slots /\ did \in Slots /\ got = Mask(did + hav)
         /\ pos \in Nat /\ siz \in Nat /\ siz < Size
         /\ out \in Seq(0 .. MaxIn) /\ Len(out) \in Nat
         /\ opt \in Options /\ Accepted(opt)
         /\ WMin(opt) \in Nat /\ WMin(opt) > 0 /\ WMin(opt) <= opt.wblk
         /\ opt.rblk \in Nat /\ opt.rblk > 0 /\ opt.wblk \in Nat /\ opt.wblk > 0
         /\ 2 * opt.rblk < Size /\ 2 * opt.wblk < Size
         /\ opt.rcnt \in Nat /\ opt.wcnt \in Nat /\ opt.strict \in BOOLEAN
         /\ opt.wsp \in Nat /\ (opt.wsp # 0 => opt.wblk < opt.wsp)
<1>1. got \in Slots /\ did \in Slots /\ opt \in Options
  BY DEF Kept, TypeOK
<1>2. hav \in 0 .. Size - 1 /\ Emp(got, did) = Size - hav /\ got = Mask(did + hav)
  BY <1>1, FillLevel, CursorAhead DEF hav
<1>3. /\ pos \in Nat /\ siz \in Nat /\ siz < Size
      /\ out \in Seq(0 .. MaxIn) /\ Len(out) \in Nat
  BY SizeAssumption, BoundsAssumption DEF Kept, TypeOK
<1> QED BY <1>1, <1>2, <1>3, OptionFacts, SizeAssumption

\* What buf_can_w() can be asked with.
LEMMA WriterLimits ==
  ASSUME Kept, pc \in {"wloop", "epi"}
  PROVE  /\ wstall \in BOOLEAN /\ wmin \in Nat /\ wsp \in Nat
         /\ wmin > 0 /\ wmin <= opt.wblk
         /\ wsp # 0 => opt.wblk < wsp
         /\ wstall => wsp # 0
<1>1. CASE pc = "wloop"
  BY <1>1, Here DEF Kept, TypeOK, Limits, InputOver
<1>2. CASE pc = "epi"
  BY <1>2, Here DEF Kept, TypeOK, Limits
<1> QED BY <1>1, <1>2

\* What its answer is worth, in the loop and in the epilogue.
LEMMA WriterGrant ==
  ASSUME Kept, pc \in {"wloop", "epi"},
         NEW n, n = GrantW(opt, hav, wstall, wmin, wsp)
  PROVE  /\ n \in Nat /\ n < Size
         /\ n # 0 => n > 0 /\ n <= hav
         /\ pc = "epi" => IF hav >= opt.wblk THEN n = opt.wblk ELSE n = hav
         /\ StallsW(opt, hav, wstall, wmin, wsp) \in BOOLEAN
         /\ StallsW(opt, hav, wstall, wmin, wsp) => wsp # 0
<1>1. /\ n \in Nat
      /\ n # 0 => n > 0 /\ n <= hav
      /\ StallsW(opt, hav, wstall, wmin, wsp) \in BOOLEAN
      /\ StallsW(opt, hav, wstall, wmin, wsp) => wsp # 0
  BY Here, WriterLimits, GrantWThere
<1>2. pc = "epi" => IF hav >= opt.wblk THEN n = opt.wblk ELSE n = hav
  <2> SUFFICES ASSUME pc = "epi"
               PROVE  IF hav >= opt.wblk THEN n = opt.wblk ELSE n = hav
    OBVIOUS
  <2>1. wmin = 1 /\ wstall = FALSE
    BY DEF Kept, Limits, TypeOK
  <2>2. n = IF hav >= opt.wblk THEN opt.wblk ELSE IF hav >= 1 THEN hav ELSE 0
    BY <2>1, Here DEF GrantW
  <2> QED BY <2>2, Here
<1>3. n < Size
  BY <1>1, Here, SizeAssumption
<1> QED BY <1>1, <1>2, <1>3

\* A step that leaves the ring and the input alone and moves no byte keeps
\* TypeOK, if what it does to the rest keeps its type.
LEMMA QuietType ==
  ASSUME Kept,
         UNCHANGED <<opt, ring, rstall, siz, pos, retr, out, retw>>,
         wstall' \in BOOLEAN, wmin' \in {wmin, 1}, wsp' \in {wsp, 0},
         cnt' \in Nat, done' \in BOOLEAN, errlog' \subseteq {"sig", "ini", "err"},
         pc' \in {"top", "rloop", "outt", "epi", "ewrite", "ends", "end", "over", pc},
         sigs' \in 0 .. MaxSignals, ret' \in {"running", "clean", "failed"}
  PROVE  TypeOK' /\ hav' = hav
<1>1. hav' = hav
  BY DEF ring, hav
<1>2. /\ got' \in Slots /\ did' \in Slots /\ mem' \in [Slots -> 0 .. MaxIn]
      /\ opt' \in Options /\ rstall' \in BOOLEAN /\ siz' \in 0 .. Size - 1
      /\ pos' \in 0 .. MaxIn /\ retr' \in -1 .. 1 /\ out' \in Seq(0 .. MaxIn)
      /\ retw' \in {-1, 0}
  BY DEF Kept, TypeOK, ring
<1>3. wmin' \in Nat /\ wsp' \in Nat
  BY DEF Kept, TypeOK
<1>4. pc' \in {"open", "top", "rloop", "read", "wloop", "write", "outt", "epi",
              "ewrite", "ends", "end", "over"}
  BY DEF Kept, TypeOK
<1> QED BY <1>1, <1>2, <1>3, <1>4 DEF TypeOK

\* The steps between the calls.
LEMMA OpenKept ==
  ASSUME Kept, Open
  PROVE  Kept'
<1>1. TypeOK' /\ hav' = hav
  BY QuietType DEF Kept, TypeOK, Open, stalls
<1>2. Limits' /\ Claims'
  BY <1>1 DEF Kept, Limits, Claims, InputOver, Open, stalls
<1>3. Verdict'
  BY <1>1 DEF Kept, Verdict, InputOver, Open
<1> QED BY <1>1, <1>2, <1>3 DEF Kept

\* The loop is left when a signal was recorded.
LEMMA TopKept ==
  ASSUME Kept, Top
  PROVE  Kept'
<1>1. TypeOK' /\ hav' = hav
  BY Here, QuietType DEF Kept, TypeOK, Top, stalls
<1>2. Limits' /\ Claims'
  BY <1>1 DEF Kept, Limits, Claims, InputOver, Top, stalls
<1>3. Verdict'
  BY <1>1 DEF Kept, Verdict, InputOver, Top
<1> QED BY <1>1, <1>2, <1>3 DEF Kept

\* buf_setlinew() lifts the limits, unless a write failed.
LEMMA OuttKept ==
  ASSUME Kept, Outt
  PROVE  Kept'
<1>1. TypeOK' /\ hav' = hav
  BY QuietType DEF Kept, TypeOK, Outt
<1>2. Limits' /\ Claims'
  BY <1>1 DEF Kept, Limits, Claims, InputOver, Outt
<1>3. Verdict'
  BY <1>1 DEF Kept, TypeOK, Verdict, InputOver, Outt
<1> QED BY <1>1, <1>2, <1>3 DEF Kept

\* Errors are recorded at the end ...
LEMMA EndsKept ==
  ASSUME Kept, Ends
  PROVE  Kept'
<1>1. TypeOK' /\ hav' = hav
  BY QuietType DEF Kept, TypeOK, Ends, stalls
<1>2. Limits' /\ Claims'
  BY <1>1 DEF Kept, Limits, Claims, InputOver, Ends, stalls
<1>3. Verdict'
  <2>1. retr \in Int /\ retw \in Int /\ errlog \subseteq errlog'
    BY DEF Kept, TypeOK, Ends
  <2>2. retr = -1 \/ retw = -1 => errlog' # {}
    BY <2>1 DEF Ends
  <2> QED BY <1>1, <2>1, <2>2 DEF Kept, Verdict, InputOver, Ends
<1> QED BY <1>1, <1>2, <1>3 DEF Kept

\* ... where reaper() looks for them.
LEMMA ReapKept ==
  ASSUME Kept, Reap
  PROVE  Kept'
<1>1. TypeOK' /\ hav' = hav
  BY QuietType DEF Kept, TypeOK, Reap, stalls
<1>2. Limits' /\ Claims'
  BY <1>1 DEF Kept, Limits, Claims, InputOver, Reap, stalls
<1>3. Verdict'
  BY <1>1 DEF Kept, Verdict, InputOver, Reap
<1> QED BY <1>1, <1>2, <1>3 DEF Kept

\* The handler records the signal together with done.
LEMMA SignalKept ==
  ASSUME Kept, Signal
  PROVE  Kept'
<1>1. TypeOK' /\ hav' = hav
  BY BoundsAssumption, QuietType DEF Kept, TypeOK, Signal, stalls
<1>2. Limits' /\ Claims'
  BY <1>1 DEF Kept, Limits, Claims, InputOver, Signal, stalls
<1>3. Verdict'
  BY <1>1 DEF Kept, Verdict, InputOver, Signal
<1> QED BY <1>1, <1>2, <1>3 DEF Kept

\* What buf_can_r() grants is a whole block, or what is free of a byte block.
LEMMA RLoopKept ==
  ASSUME Kept, RLoop
  PROVE  Kept'
<1> DEFINE n == GrantR(opt, Emp(got, did), rstall)
           s == StallsR(opt, Emp(got, did), rstall)
<1>1. /\ pc = "rloop" /\ siz' = n /\ rstall' = s
      /\ \/ n # 0 /\ pc' = "read" /\ cnt > 0 /\ cnt' = cnt - 1
         \/ pc' = "wloop" /\ cnt' = opt.wcnt
      /\ UNCHANGED <<opt, ring, wstall, wmin, wsp, done, errlog, pos, retr, out,
                     retw, sigs, ret>>
  BY DEF RLoop
<1>2. n \in Nat /\ n < Size /\ s \in BOOLEAN /\ (s => opt.rsp # 0)
  <2>1. n \in Nat /\ n <= opt.rblk
    BY Here DEF GrantR, RMin
  <2>2. s \in BOOLEAN /\ (s => opt.rsp # 0)
    BY DEF StallsR, Kept, Limits
  <2> QED BY <2>1, <2>2, Here
<1> HIDE DEF n, s
<1>3. got' = got /\ did' = did /\ mem' = mem /\ hav' = hav
  BY <1>1 DEF ring, hav
<1>4. TypeOK'
  <2>1. siz' \in 0 .. Size - 1 /\ cnt' \in Nat
    <3>1. cnt \in Nat /\ opt.wcnt \in Nat
      BY Here DEF Kept, TypeOK
    <3> QED BY <1>1, <1>2, <3>1, SizeAssumption
  <2>2. /\ got' \in Slots /\ did' \in Slots /\ mem' \in [Slots -> 0 .. MaxIn]
        /\ opt' \in Options /\ wmin' \in Nat /\ wsp' \in Nat
        /\ rstall' \in BOOLEAN /\ wstall' \in BOOLEAN
    BY <1>1, <1>2, <1>3 DEF Kept, TypeOK
  <2> QED BY <1>1, <2>1, <2>2 DEF Kept, TypeOK
<1>5. Limits' /\ Claims'
  BY <1>1, <1>2, <1>3 DEF Kept, Limits, Claims, InputOver
<1>6. Verdict'
  BY <1>1, <1>3 DEF Kept, Verdict, InputOver
<1> QED BY <1>4, <1>5, <1>6 DEF Kept

\* So is what buf_can_w() grants there.
LEMMA WLoopKept ==
  ASSUME Kept, WLoop
  PROVE  Kept'
<1> DEFINE n == GrantW(opt, hav, wstall, wmin, wsp)
           s == StallsW(opt, hav, wstall, wmin, wsp)
<1>1. /\ pc = "wloop" /\ siz' = n /\ wstall' = s
      /\ \/ n # 0 /\ pc' = "write" /\ cnt > 0 /\ cnt' = cnt - 1
         \/ pc' = "top" /\ cnt' = cnt
      /\ UNCHANGED <<opt, ring, rstall, wmin, wsp, done, errlog, pos, retr, out,
                     retw, sigs, ret>>
  BY DEF WLoop, hav
<1>2. /\ n \in Nat /\ n < Size /\ (n # 0 => n > 0 /\ n <= hav)
      /\ s \in BOOLEAN /\ (s => wsp # 0)
  BY <1>1, WriterGrant
<1> HIDE DEF n, s
<1>3. got' = got /\ did' = did /\ mem' = mem /\ hav' = hav
  BY <1>1 DEF ring, hav
<1>4. TypeOK'
  <2>1. siz' \in 0 .. Size - 1 /\ cnt' \in Nat
    <3>1. cnt \in Nat /\ opt.wcnt \in Nat
      BY Here DEF Kept, TypeOK
    <3> QED BY <1>1, <1>2, <3>1, SizeAssumption
  <2>2. /\ got' \in Slots /\ did' \in Slots /\ mem' \in [Slots -> 0 .. MaxIn]
        /\ opt' \in Options /\ wmin' \in Nat /\ wsp' \in Nat
        /\ rstall' \in BOOLEAN /\ wstall' \in BOOLEAN
    BY <1>1, <1>2, <1>3 DEF Kept, TypeOK
  <2> QED BY <1>1, <2>1, <2>2 DEF Kept, TypeOK
<1>5. Limits' /\ Claims'
  BY <1>1, <1>2, <1>3 DEF Kept, Limits, Claims, InputOver
<1>6. Verdict'
  BY <1>1, <1>3 DEF Kept, Verdict, InputOver
<1> QED BY <1>4, <1>5, <1>6 DEF Kept

\* The epilogue ends with nothing left.
LEMMA EpilogueKept ==
  ASSUME Kept, Epilogue
  PROVE  Kept'
<1> DEFINE n == GrantW(opt, hav, wstall, wmin, wsp)
<1>1. /\ pc = "epi" /\ siz' = n /\ pc' = IF n = 0 THEN "ends" ELSE "ewrite"
      /\ UNCHANGED <<opt, ring, stalls, done, errlog, cnt, pos, retr, out,
                     retw, sigs, ret>>
  BY DEF Epilogue, hav
<1>2. /\ n \in Nat /\ n < Size /\ (n # 0 => n > 0 /\ n <= hav)
      /\ n = 0 => hav = 0
  BY <1>1, WriterGrant, Here
<1> HIDE DEF n
<1>3. /\ got' = got /\ did' = did /\ mem' = mem /\ hav' = hav
      /\ rstall' = rstall /\ wstall' = wstall /\ wmin' = wmin /\ wsp' = wsp
  BY <1>1 DEF ring, stalls, hav
<1>4. TypeOK'
  <2>1. siz' \in 0 .. Size - 1 /\ cnt' \in Nat
    <3>1. cnt \in Nat /\ opt.wcnt \in Nat
      BY Here DEF Kept, TypeOK
    <3> QED BY <1>1, <1>2, <3>1, SizeAssumption
  <2>2. /\ got' \in Slots /\ did' \in Slots /\ mem' \in [Slots -> 0 .. MaxIn]
        /\ opt' \in Options /\ wmin' \in Nat /\ wsp' \in Nat
        /\ rstall' \in BOOLEAN /\ wstall' \in BOOLEAN
    BY <1>1, <1>2, <1>3 DEF Kept, TypeOK
  <2> QED BY <1>1, <2>1, <2>2 DEF Kept, TypeOK
<1>5. Limits' /\ Claims'
  BY <1>1, <1>2, <1>3 DEF Kept, Limits, Claims, InputOver
<1>6. Verdict'
  BY <1>1, <1>2, <1>3 DEF Kept, TypeOK, Verdict, InputOver
<1> QED BY <1>4, <1>5, <1>6 DEF Kept

\* buf_fetch_r(), read() and buf_commit_r() put their bytes into the ring.
LEMMA ReadKept ==
  ASSUME Kept, Read
  PROVE  Kept'
<1>1. /\ pc = "read" /\ did' = did
      /\ UNCHANGED <<opt, rstall, wstall, wmin, wsp, done, errlog, cnt, siz, out,
                     retw, sigs, ret>>
  BY DEF Read, stalls
<1>2. /\ got' \in Slots /\ mem' \in [Slots -> 0 .. MaxIn] /\ pos' \in 0 .. MaxIn
      /\ \/ pc' = "rloop" /\ retr' = retr
         \/ pc' = "outt" /\ retr' \in {0, -1}
  <2>1. CASE \E n \in 1 .. Least(siz, MaxIn - pos) :
               LET c == [k \in 0 .. n - 1 |-> pos + k + 1]
               IN  /\ mem' = IF Direct(opt, got, siz) THEN Store(opt, mem, got, n, c)
                             ELSE BounceIn(mem, got, n, c)
                   /\ got' = Mask(got + n)
                   /\ pos' = pos + n
                   /\ pc' = "rloop" /\ UNCHANGED retr
    <3> DEFINE C(n) == [k \in 0 .. n - 1 |-> pos + k + 1]
    <3>1. PICK n \in 1 .. Least(siz, MaxIn - pos) :
            /\ mem' = IF Direct(opt, got, siz) THEN Store(opt, mem, got, n, C(n))
                      ELSE BounceIn(mem, got, n, C(n))
            /\ got' = Mask(got + n)
            /\ pos' = pos + n
            /\ pc' = "rloop" /\ UNCHANGED retr
      BY <2>1
    <3>2. n \in Nat /\ n > 0 /\ pos \in Nat /\ pos + n <= MaxIn
      <4>1. siz \in Nat /\ pos \in Nat /\ MaxIn \in Nat
        BY Here, BoundsAssumption
      <4> HIDE DEF C
      <4> QED BY <4>1 DEF Least
    <3>3. C(n) \in [0 .. n - 1 -> 0 .. MaxIn]
      BY <3>2, BoundsAssumption
    <3>4. mem' \in [Slots -> 0 .. MaxIn]
      <4>1. mem \in [Slots -> 0 .. MaxIn] /\ got \in Slots
        BY DEF Kept, TypeOK
      <4>2. /\ Store(opt, mem, got, n, C(n)) \in [Slots -> 0 .. MaxIn]
            /\ BounceIn(mem, got, n, C(n)) \in [Slots -> 0 .. MaxIn]
        <5> HIDE DEF C
        <5> QED BY <3>2, <3>3, <4>1, StoreType, BounceInType
      <4> QED BY <3>1, <4>2
    <3>5. got' \in Slots
      <4>1. got + n \in Int
        BY <3>2, Here, SizeAssumption DEF Slots
      <4> QED BY <3>1, <4>1, MaskWraps
    <3>6. pos' \in 0 .. MaxIn
      BY <3>1, <3>2, BoundsAssumption
    <3> QED BY <3>1, <3>4, <3>5, <3>6
  <2>2. CASE retr' \in {0, -1} /\ pc' = "outt" /\ UNCHANGED <<got, mem, pos>>
    BY <2>2 DEF Kept, TypeOK
  <2> QED BY <2>1, <2>2 DEF Read
<1>3. TypeOK'
  BY <1>1, <1>2 DEF Kept, TypeOK
<1>4. Limits' /\ Claims'
  BY <1>1, <1>2 DEF Kept, Limits, Claims, InputOver
<1>5. Verdict'
  BY <1>1, <1>2 DEF Kept, Verdict, InputOver
<1> QED BY <1>3, <1>4, <1>5 DEF Kept

\* write() and buf_commit_w() move the consumer's cursor over what was taken.
LEMMA WriteKept ==
  ASSUME Kept, Write
  PROVE  Kept'
<1>1. /\ pc = "write" /\ got' = got
      /\ UNCHANGED <<opt, mem, rstall, wstall, wmin, wsp, done, errlog, cnt, siz,
                     pos, retr, sigs, ret>>
  BY DEF Write, stalls
<1>2. siz > 0 /\ siz <= hav /\ siz <= Size
  BY <1>1, Here DEF Kept, Claims
<1>3. /\ did' \in Slots /\ out' \in Seq(0 .. MaxIn) /\ retw' \in {0, -1}
      /\ \/ pc' = "wloop" /\ retw' = retw
         \/ pc' = "outt" /\ retw' = -1
  <2>1. ASSUME NEW n \in Taken(opt, siz),
               out' = out \o AsSeq(FetchW(opt, mem, did, siz), n),
               did' = Mask(did + n)
        PROVE  did' \in Slots /\ out' \in Seq(0 .. MaxIn)
    <3> DEFINE c == FetchW(opt, mem, did, siz)
               a == AsSeq(c, n)
    <3>1. n \in Nat /\ n <= siz
      BY Here DEF Taken
    <3>2. c \in [0 .. siz - 1 -> 0 .. MaxIn]
      BY <1>2, Here, FetchWType DEF Kept, TypeOK
    <3>3. a \in Seq(0 .. MaxIn)
      <4> HIDE DEF c
      <4> QED BY <3>1, <3>2, Here, AsSeqType
    <3>4. out \o a \in Seq(0 .. MaxIn)
      <4> HIDE DEF a
      <4> QED BY <3>3, Here, ConcatType
    <3>5. did' \in Slots
      <4>1. did + n \in Int
        BY <3>1, Here, SizeAssumption DEF Slots
      <4> QED BY <2>1, <4>1, MaskWraps
    <3> QED BY <2>1, <3>4, <3>5
  <2> QED BY <1>1, <2>1 DEF Write, Kept, TypeOK
<1>4. TypeOK'
  BY <1>1, <1>3 DEF Kept, TypeOK
<1>5. Limits' /\ Claims'
  BY <1>1, <1>3 DEF Kept, Limits, Claims, InputOver
<1>6. Verdict'
  BY <1>1, <1>3 DEF Kept, Verdict, InputOver
<1> QED BY <1>4, <1>5, <1>6 DEF Kept

\* So does the epilogue, which pads.
LEMMA EpiWriteKept ==
  ASSUME Kept, EpiWrite
  PROVE  Kept'
<1>1. /\ pc = "ewrite" /\ got' = got
      /\ UNCHANGED <<opt, mem, rstall, wstall, wmin, wsp, done, errlog, cnt, siz,
                     pos, retr, sigs, ret>>
  BY DEF EpiWrite, stalls
<1>2. siz > 0 /\ siz <= hav /\ siz <= Size
  BY <1>1, Here DEF Kept, Claims
<1>3. /\ did' \in Slots /\ out' \in Seq(0 .. MaxIn) /\ retw' \in {0, -1}
      /\ \/ pc' = "epi" /\ retw' = retw
         \/ pc' = "ends" /\ retw' = -1
  <2>1. ASSUME NEW n \in Taken(opt, siz + Padding(opt, siz)),
               out' = out \o AsSeq(FetchPadded(opt, mem, did, siz), n),
               did' = Mask(did + Least(siz, n))
        PROVE  did' \in Slots /\ out' \in Seq(0 .. MaxIn)
    <3> DEFINE p == Padding(opt, siz)
               c == FetchPadded(opt, mem, did, siz)
               a == AsSeq(c, n)
    <3>1. p \in Nat /\ c \in [0 .. siz + p - 1 -> 0 .. MaxIn]
      BY <1>2, Here, FetchPaddedType, BoundsAssumption DEF Kept, TypeOK
    <3>2. n \in Nat /\ n <= siz + p /\ siz \in Nat /\ siz + p \in Nat
      <4>1. p \in Nat /\ siz \in Nat /\ n \in Taken(opt, siz + p)
        BY <2>1, <3>1, Here
      <4> HIDE DEF p
      <4> QED BY <4>1 DEF Taken
    <3>3. a \in Seq(0 .. MaxIn)
      <4> DEFINE l == siz + p
      <4> HIDE DEF c, p
      <4>1. l \in Nat /\ n \in Nat /\ n <= l /\ c \in [0 .. l - 1 -> 0 .. MaxIn]
        BY <3>1, <3>2
      <4> HIDE DEF l
      <4> QED BY <4>1, AsSeqType
    <3>4. out \o a \in Seq(0 .. MaxIn)
      <4> HIDE DEF a
      <4> QED BY <3>3, Here, ConcatType
    <3>5. did' \in Slots
      <4>1. did \in Int /\ siz \in Nat
        BY Here, SizeAssumption DEF Slots
      <4>2. did + Least(siz, n) \in Int
        BY <3>2, <4>1 DEF Least
      <4> QED BY <2>1, <4>2, MaskWraps
    <3> QED BY <2>1, <3>4, <3>5
  <2> QED BY <1>1, <2>1 DEF EpiWrite, Kept, TypeOK
<1>4. TypeOK'
  BY <1>1, <1>3 DEF Kept, TypeOK
<1>5. Limits' /\ Claims'
  BY <1>1, <1>3 DEF Kept, Limits, Claims, InputOver
<1>6. Verdict'
  BY <1>1, <1>3 DEF Kept, Verdict, InputOver
<1> QED BY <1>4, <1>5, <1>6 DEF Kept

\* Every step keeps Kept.
LEMMA NextKept ==
  ASSUME Kept, [Next]_vars
  PROVE  Kept'
<1>1. CASE Task
  BY <1>1, OpenKept, TopKept, RLoopKept, ReadKept, WLoopKept, WriteKept, OuttKept,
     EpilogueKept, EpiWriteKept, EndsKept, ReapKept DEF Task
<1>2. CASE Signal
  BY <1>2, SignalKept
<1>3. CASE UNCHANGED vars
  BY <1>3 DEF vars, ring, stalls, Kept, TypeOK, Limits, Claims, Verdict, InputOver, hav
<1> QED BY <1>1, <1>2, <1>3 DEF Next, Terminated

\* setup_env() starts with an empty ring.
LEMMA InitKept ==
  ASSUME Init
  PROVE  Kept
<1>1. hav = 0 /\ 0 \in Slots
  BY MaskWraps, SizeAssumption DEF Init, hav, Hav, Slots
<1>2. opt \in Options /\ WMin(opt) \in Nat /\ opt.wsp \in Nat
  BY OptionFacts DEF Init
<1>3. TypeOK
  <2>1. /\ got \in Slots /\ did \in Slots /\ siz \in 0 .. Size - 1
        /\ pos \in 0 .. MaxIn /\ sigs \in 0 .. MaxSignals
    BY <1>1, SizeAssumption, BoundsAssumption DEF Init, Slots
  <2>2. mem \in [Slots -> 0 .. MaxIn] /\ out \in Seq(0 .. MaxIn)
    BY BoundsAssumption DEF Init
  <2> QED BY <1>2, <2>1, <2>2 DEF Init, TypeOK
<1>4. Limits /\ Claims /\ Verdict
  BY <1>1 DEF Init, Limits, Claims, Verdict, InputOver
<1> QED BY <1>3, <1>4 DEF Kept

-----------------------------------------------------------------------------
(* Content is preserved.                                                   *)

\* A step that moves no byte.
LEMMA QuietContent ==
  ASSUME Kept, Content,
         Open \/ Top \/ Outt \/ Ends \/ Reap \/ Signal \/ UNCHANGED vars
  PROVE  Content'
<1>1. /\ UNCHANGED <<opt, got, did, mem, pos, siz, out>>
      /\ pc' \in {"read", "write", "ewrite"} => pc' = pc
      /\ pc \in {"ends", "end", "over"} => pc' \in {"ends", "end", "over"}
      /\ pc = "epi" => pc' = "epi"
  BY DEF Open, Top, Outt, Ends, Reap, Signal, vars, ring
<1>2. hav' = hav
  BY <1>1 DEF hav
<1>3. Room' /\ RingHolds' /\ LastBlock' /\ WholeBlocks'
  BY <1>1, <1>2 DEF Content, Room, RingHolds, LastBlock, WholeBlocks
<1>4. Written'
  BY <1>1, <1>2 DEF Content, Written, Unpadded, Padded, Delivered
<1> QED BY <1>3, <1>4 DEF Content

\* A block-mode reader is granted what leaves a byte free.
LEMMA RLoopContent ==
  ASSUME BlockReaders, Kept, Content, RLoop
  PROVE  Content'
<1> DEFINE n == GrantR(opt, Emp(got, did), rstall)
<1>1. /\ pc = "rloop" /\ siz' = n /\ (pc' = "read" => n # 0) /\ pc' \in {"read", "wloop"}
      /\ UNCHANGED <<opt, got, did, mem, pos, out>>
  BY DEF RLoop, ring
<1>2. hav' = hav
  BY <1>1 DEF hav
<1>3. n # 0 => n + hav < Size
  <2>1. rstall \in BOOLEAN /\ (rstall => opt.rsp # 0) /\ RMin(opt) = opt.rblk
    BY Here DEF BlockReaders, Kept, TypeOK, Limits
  <2>2. Accepted(opt) /\ hav \in 0 .. Size - 1 /\ n = GrantR(opt, Size - hav, rstall)
    BY Here
  <2> HIDE DEF n
  <2> QED BY <2>1, <2>2, GrantRFits
<1> HIDE DEF n
<1>4. Room' /\ LastBlock'
  BY <1>1, <1>2, <1>3 DEF Room, LastBlock
<1>5. RingHolds' /\ WholeBlocks'
  BY <1>1, <1>2 DEF Content, RingHolds, WholeBlocks
<1>6. Written'
  BY <1>1, <1>2 DEF Content, Written, Unpadded, Padded, Delivered
<1> QED BY <1>4, <1>5, <1>6 DEF Content

\* In strict mode the loop writes whole blocks.
LEMMA WLoopContent ==
  ASSUME Kept, Content, WLoop
  PROVE  Content'
<1> DEFINE n == GrantW(opt, hav, wstall, wmin, wsp)
<1>1. /\ pc = "wloop" /\ siz' = n /\ (pc' = "write" => n # 0) /\ pc' \in {"write", "top"}
      /\ UNCHANGED <<opt, got, did, mem, pos, out>>
  BY DEF WLoop, ring, hav
<1>2. hav' = hav
  BY <1>1 DEF hav
<1>3. opt.strict /\ n # 0 => n = opt.wblk
  <2> SUFFICES ASSUME opt.strict, n # 0 PROVE n = opt.wblk
    OBVIOUS
  <2>1. wmin = opt.wblk
    BY <1>1, Here, OptionFacts DEF Kept, Limits, InputOver
  <2>2. /\ opt.wblk \in Nat /\ opt.wblk > 0 /\ hav \in Nat /\ wstall \in BOOLEAN
        /\ wsp \in Nat
    BY Here DEF Kept, TypeOK
  <2>3. n = GrantW(opt, hav, wstall, opt.wblk, wsp)
    BY <2>1
  <2> HIDE DEF n
  <2> QED BY <2>2, <2>3, GrantWBlocks
<1> HIDE DEF n
<1>4. Room' /\ LastBlock' /\ WholeBlocks'
  BY <1>1, <1>3 DEF Room, LastBlock, Content, WholeBlocks
<1>5. RingHolds'
  BY <1>1, <1>2 DEF Content, RingHolds
<1>6. Written'
  BY <1>1, <1>2 DEF Content, Written, Unpadded, Padded, Delivered
<1> QED BY <1>4, <1>5, <1>6 DEF Content

\* The epilogue asks for blocks, or for all that is left.
LEMMA EpilogueContent ==
  ASSUME Kept, Content, Epilogue
  PROVE  Content'
<1> DEFINE n == GrantW(opt, hav, wstall, wmin, wsp)
<1>1. /\ pc = "epi" /\ siz' = n /\ pc' = IF n = 0 THEN "ends" ELSE "ewrite"
      /\ UNCHANGED <<opt, got, did, mem, pos, out>>
  BY DEF Epilogue, ring, hav
<1>2. hav' = hav
  BY <1>1 DEF hav
<1>3. /\ n = opt.wblk \/ (n < opt.wblk /\ n = hav)
      /\ hav = 0 => n = 0
  <2>1. IF hav >= opt.wblk THEN n = opt.wblk ELSE n = hav
    BY <1>1, WriterGrant
  <2> HIDE DEF n
  <2> QED BY <2>1, Here
<1> HIDE DEF n
<1>4. Room' /\ LastBlock' /\ WholeBlocks'
  BY <1>1, <1>2, <1>3 DEF Room, LastBlock, Content, WholeBlocks
<1>5. RingHolds'
  BY <1>1, <1>2 DEF Content, RingHolds
<1>6. Written'
  BY <1>1, <1>2, <1>3 DEF Content, Written, Unpadded, Padded, Delivered
<1> QED BY <1>4, <1>5, <1>6 DEF Content

\* A read puts the bytes that come next behind the others.
LEMMA ReadContent ==
  ASSUME Kept, Content, Read
  PROVE  Content'
<1>1. pc = "read" /\ UNCHANGED <<opt, did, out, siz>> /\ pc' \in {"rloop", "outt"}
  BY DEF Read
<1>2. Room' /\ LastBlock' /\ WholeBlocks'
  BY <1>1 DEF Room, LastBlock, Content, WholeBlocks
<1>3. ~Padded /\ siz + hav < Size
  BY <1>1 DEF Padded, Content, Room
<1>4. CASE UNCHANGED <<got, mem, pos>>
  <2>1. hav' = hav
    BY <1>1, <1>4 DEF hav
  <2> QED BY <1>1, <1>2, <1>3, <1>4, <2>1
          DEF Content, RingHolds, Written, Unpadded, Delivered
<1>5. ASSUME NEW n \in 1 .. Least(siz, MaxIn - pos), NEW c,
             c = [k \in 0 .. n - 1 |-> pos + k + 1],
             mem' = IF Direct(opt, got, siz) THEN Store(opt, mem, got, n, c)
                    ELSE BounceIn(mem, got, n, c),
             got' = Mask(got + n), pos' = pos + n
      PROVE  Content'
  <2>1. n \in Nat /\ n <= siz /\ hav + n < Size
    <3>1. siz \in Nat /\ pos \in Nat /\ MaxIn \in Nat /\ hav \in Nat /\ Size \in Nat
      BY Here, BoundsAssumption
    <3> QED BY <1>3, <3>1 DEF Least
  <2>2. hav' = hav + n
    <3>1. got \in Slots /\ did \in Slots /\ n + hav < Size
      BY <2>1, Here
    <3> QED BY <1>1, <1>5, <2>1, <3>1, FillRises DEF hav
  <2>3. /\ hav \in Nat /\ did \in Slots /\ got = Mask(did + hav) /\ pos \in Nat
        /\ Len(out) \in Nat
    BY Here
  <2>4. /\ \A i \in 0 .. hav - 1 : mem'[Mask(did + i)] = mem[Mask(did + i)]
        /\ \A i \in 0 .. n - 1 : mem'[Mask(did + hav + i)] = c[i]
    <3>1. CASE Direct(opt, got, siz)
      <4>1. Direct(opt, Mask(did + hav), n)
        BY <2>1, <2>3, <3>1, Here DEF Direct, Slots
      <4> DEFINE S == Store(opt, mem, Mask(did + hav), n, c)
      <4>2. ASSUME NEW i \in 0 .. hav - 1
            PROVE  S[Mask(did + i)] = mem[Mask(did + i)]
        BY <2>1, <2>3, <4>1, StoreKeeps
      <4>3. ASSUME NEW i \in 0 .. n - 1
            PROVE  S[Mask(did + hav + i)] = c[i]
        BY <2>1, <2>3, <4>1, StorePuts
      <4>4. mem' = S
        BY <1>5, <2>3, <3>1
      <4> HIDE DEF S
      <4> QED BY <4>2, <4>3, <4>4
    <3>2. CASE ~Direct(opt, got, siz)
      <4> DEFINE S == BounceIn(mem, Mask(did + hav), n, c)
      <4>2. ASSUME NEW i \in 0 .. hav - 1
            PROVE  S[Mask(did + i)] = mem[Mask(did + i)]
        BY <2>1, <2>3, BounceInKeeps
      <4>3. ASSUME NEW i \in 0 .. n - 1
            PROVE  S[Mask(did + hav + i)] = c[i]
        BY <2>1, <2>3, BounceInPuts
      <4>4. mem' = S
        BY <1>5, <2>3, <3>2
      <4> HIDE DEF S
      <4> QED BY <4>2, <4>3, <4>4
    <3> QED BY <3>1, <3>2
  <2>5. RingHolds'
    <3> SUFFICES ASSUME NEW k \in 0 .. hav + n - 1
                 PROVE  mem'[Mask(did + k)] = pos - hav + k + 1
      BY <1>1, <1>5, <2>1, <2>2, <2>3 DEF RingHolds
    <3>1. CASE k < hav
      <4>1. k \in 0 .. hav - 1
        BY <3>1, <2>3
      <4> QED BY <4>1, <2>4 DEF Content, RingHolds
    <3>2. CASE k >= hav
      <4> DEFINE i == k - hav
      <4>1. i \in 0 .. n - 1 /\ did + hav + i = did + k /\ k = hav + i
        BY <2>1, <2>3, <3>2, SizeAssumption DEF Slots
      <4> HIDE DEF i
      <4>2. mem'[Mask(did + k)] = c[i] /\ c[i] = pos + i + 1
        BY <1>5, <2>4, <4>1
      <4> QED BY <4>1, <4>2, <2>3
    <3> QED BY <2>3, <3>1, <3>2
  <2>6. Written'
    <3>1. Unpadded /\ Delivered
      BY <1>3 DEF Content, Written
    <3>2. Len(out) <= pos
      BY <3>1, <2>3 DEF Unpadded
    <3>3. Unpadded'
      BY <1>1, <1>5, <2>1, <2>2, <2>3, <3>1 DEF Unpadded
    <3>4. Delivered'
      BY <1>1, <1>5, <2>1, <2>3, <3>1, <3>2 DEF Delivered
    <3> QED BY <3>3, <3>4 DEF Written
  <2> QED BY <1>2, <2>5, <2>6 DEF Content
<1> QED BY <1>1, <1>4, <1>5 DEF Read

\* The bytes a write() finds are the ones that come next in the output.
LEMMA NextBytes ==
  ASSUME Kept, Content, pc \in {"write", "ewrite"}
  PROVE  /\ siz \in Nat /\ siz > 0 /\ siz <= hav /\ siz <= Size /\ did \in Slots
         /\ ~Padded /\ Len(out) = pos - hav /\ pos <= MaxIn /\ MaxIn \in Nat
         /\ \A k \in 0 .. siz - 1 :
              /\ mem[Mask(did + k)] = Len(out) + k + 1
              /\ Len(out) + k + 1 <= pos
<1>1. /\ siz \in Nat /\ siz > 0 /\ siz <= hav /\ siz <= Size /\ did \in Slots
      /\ hav \in Nat /\ pos \in Nat
  BY Here DEF Kept, Claims
<1>2. ~Padded /\ Len(out) = pos - hav
  BY DEF Padded, Content, Written, Unpadded
<1>3. pos <= MaxIn /\ MaxIn \in Nat
  BY BoundsAssumption DEF Kept, TypeOK
<1>4. ASSUME NEW k \in 0 .. siz - 1
      PROVE  /\ mem[Mask(did + k)] = Len(out) + k + 1
             /\ Len(out) + k + 1 <= pos
  <2>1. k \in 0 .. hav - 1
    BY <1>1
  <2>2. mem[Mask(did + k)] = pos - hav + k + 1
    BY <2>1 DEF Content, RingHolds
  <2> QED BY <1>1, <1>2, <2>1, <2>2
<1> QED BY <1>1, <1>2, <1>3, <1>4

\* Moving the consumer's cursor over m bytes leaves the rest where it is.
LEMMA Consumed ==
  ASSUME Kept, Content, NEW m \in Nat, m <= hav, did' = Mask(did + m),
         UNCHANGED <<got, mem, pos>>
  PROVE  hav' = hav - m /\ RingHolds'
<1>1. hav' = hav - m
  BY Here, FillFalls DEF hav
<1>2. ASSUME NEW k \in 0 .. hav - m - 1
      PROVE  mem[Mask(did' + k)] = pos - (hav - m) + k + 1
  <2>1. /\ k \in Nat /\ m + k <= Size /\ m + k \in 0 .. hav - 1
        /\ did \in Slots /\ hav \in Nat /\ pos \in Nat
    <3>1. /\ did \in Slots /\ hav \in Nat /\ hav < Size /\ pos \in Nat
          /\ Size \in Nat
      BY Here
    <3> QED BY <3>1
  <2>2. Mask(Mask(did + m) + k) = Mask(did + m + k)
    BY <2>1, MovesAdd
  <2>3. did + m + k = did + (m + k)
    BY <2>1 DEF Slots
  <2>4. mem[Mask(did + (m + k))] = pos - hav + (m + k) + 1
    BY <2>1 DEF Content, RingHolds
  <2> QED BY <2>1, <2>2, <2>3, <2>4
<1>3. RingHolds'
  <2> SUFFICES ASSUME NEW k \in 0 .. hav' - 1
               PROVE  mem[Mask(did' + k)] = pos - hav' + k + 1
    BY DEF RingHolds
  <2> QED BY <1>1, <1>2
<1> QED BY <1>1, <1>3

\* A write() that takes the first bytes of a block moves them from the ring to
\* the output.
LEMMA WriteContent ==
  ASSUME Kept, Content, Write
  PROVE  Content'
<1>1. /\ pc = "write" /\ pc' \in {"wloop", "outt"}
      /\ UNCHANGED <<opt, got, mem, pos>>
  BY DEF Write
<1>2. Room' /\ LastBlock'
  BY <1>1 DEF Room, LastBlock
<1>3. CASE UNCHANGED <<did, out>>
  <2>1. hav' = hav
    BY <1>1, <1>3 DEF hav
  <2> QED BY <1>1, <1>2, <1>3, <2>1, NextBytes
          DEF Content, RingHolds, Written, Unpadded, Delivered, WholeBlocks
<1>4. ASSUME NEW n \in Taken(opt, siz), NEW c, c = FetchW(opt, mem, did, siz),
             out' = out \o AsSeq(c, n), did' = Mask(did + n)
      PROVE  Content'
  <2>1. n \in Nat /\ n <= siz /\ (~opt.shortw => n = siz)
    BY <1>1, NextBytes DEF Taken
  <2>2. \A k \in 0 .. n - 1 : c[k] = Len(out) + k + 1 /\ Len(out) + k + 1 <= pos
    <3> SUFFICES ASSUME NEW k \in 0 .. n - 1
                 PROVE  c[k] = Len(out) + k + 1 /\ Len(out) + k + 1 <= pos
      OBVIOUS
    <3>1. k \in 0 .. siz - 1 /\ siz \in Nat /\ siz <= Size /\ did \in Slots
      BY <1>1, <2>1, NextBytes
    <3>2. c[k] = mem[Mask(did + k)]
      BY <1>4, <3>1, FetchWRing
    <3> QED BY <1>1, <3>1, <3>2, NextBytes
  <2>3. Len(out') = Len(out) + n /\ Delivered'
    <3>1. MaxIn \in Nat /\ out \in Seq(0 .. MaxIn) /\ pos \in Nat /\ pos <= MaxIn
      BY <1>1, NextBytes, Here
    <3>2. Len(out) \in Nat /\ \A i \in 1 .. Len(out) : out[i] = IF i <= pos THEN i ELSE 0
      BY Here DEF Content, Written, Delivered
    <3>3. Continues(c, n, Len(out), pos, MaxIn) /\ InputFirst(out, pos)
      BY <2>2, <3>1, <3>2 DEF Continues, InputFirst
    <3>4. Len(out \o AsSeq(c, n)) = Len(out) + n /\ InputFirst(out \o AsSeq(c, n), pos)
      BY <2>1, <3>1, <3>3, AppendDelivers, ZenonT(30)
    <3> QED BY <1>1, <1>4, <3>4 DEF Delivered, InputFirst
  <2>4. hav' = hav - n /\ RingHolds'
    <3>1. n <= hav
      BY <1>1, <2>1, NextBytes, Here
    <3> QED BY <1>1, <1>4, <2>1, <3>1, Consumed
  <2>5. Unpadded'
    <3>1. Len(out) = pos - hav /\ hav \in Nat /\ pos \in Nat /\ pos' = pos
      BY <1>1, NextBytes, Here
    <3> QED BY <2>1, <2>3, <2>4, <3>1 DEF Unpadded
  <2>6. WholeBlocks'
    <3> SUFFICES ASSUME opt.strict, ~opt.shortw
                 PROVE  Len(out') % opt.wblk = 0
      BY <1>1 DEF WholeBlocks
    <3>1. n = opt.wblk /\ Len(out) % opt.wblk = 0
      BY <1>1, <2>1 DEF Content, WholeBlocks
    <3>2. Len(out) \in Nat /\ opt.wblk \in Nat /\ opt.wblk > 0
      BY Here
    <3>3. (Len(out) + opt.wblk) % opt.wblk = 0
      BY <3>1, <3>2, OneMoreBlock
    <3> QED BY <2>3, <3>1, <3>3
  <2> QED BY <1>2, <2>3, <2>4, <2>5, <2>6 DEF Content, Written
<1> QED BY <1>3, <1>4 DEF Write

\* The last block of the epilogue may end in zeros, behind all of the input.
LEMMA EpiWriteContent ==
  ASSUME Kept, Content, EpiWrite
  PROVE  Content'
<1>1. /\ pc = "ewrite" /\ pc' \in {"epi", "ends"}
      /\ UNCHANGED <<opt, got, mem, pos>>
  BY DEF EpiWrite
<1>2. Room' /\ LastBlock'
  BY <1>1 DEF Room, LastBlock
<1>3. CASE UNCHANGED <<did, out>>
  <2>1. hav' = hav
    BY <1>1, <1>3 DEF hav
  <2> QED BY <1>1, <1>2, <1>3, <2>1, NextBytes
          DEF Content, RingHolds, Written, Unpadded, Delivered, WholeBlocks
<1>4. ASSUME NEW n \in Taken(opt, siz + Padding(opt, siz)), NEW c,
             c = FetchPadded(opt, mem, did, siz),
             out' = out \o AsSeq(c, n), did' = Mask(did + Least(siz, n))
      PROVE  Content'
  <2> DEFINE p == Padding(opt, siz)
             m == Least(siz, n)
  <2>1. /\ siz \in Nat /\ siz > 0 /\ siz <= hav /\ hav \in Nat /\ pos \in Nat
        /\ opt.wblk \in Nat /\ opt.wblk > 0 /\ Len(out) \in Nat
        /\ Len(out) = pos - hav
    BY <1>1, NextBytes, Here
  <2>2. p \in Nat /\ p = IF opt.strict /\ siz < opt.wblk THEN opt.wblk - siz ELSE 0
    BY <2>1 DEF Padding
  <2> HIDE DEF p
  <2>3. n \in Nat /\ n > 0 /\ n <= siz + p /\ (~opt.shortw => n = siz + p)
    BY <1>4, <2>1, <2>2 DEF Taken, p
  <2>4. m \in Nat /\ m = IF siz <= n THEN siz ELSE n
    BY <2>1, <2>3 DEF Least
  <2> HIDE DEF m
  <2>5. siz = opt.wblk \/ (siz < opt.wblk /\ siz = hav)
    BY <1>1 DEF Content, LastBlock
  <2>6. \A k \in 0 .. n - 1 : /\ c[k] \in 0 .. MaxIn
                              /\ Len(out) + k + 1 <= pos => c[k] = Len(out) + k + 1
                              /\ Len(out) + k + 1 > pos  => c[k] = 0
    <3> SUFFICES ASSUME NEW k \in 0 .. n - 1
                 PROVE  /\ c[k] \in 0 .. MaxIn
                        /\ Len(out) + k + 1 <= pos => c[k] = Len(out) + k + 1
                        /\ Len(out) + k + 1 > pos  => c[k] = 0
      OBVIOUS
    <3>1. CASE k < siz
      <4>1. k \in 0 .. siz - 1 /\ siz <= Size /\ did \in Slots /\ pos <= MaxIn /\ MaxIn \in Nat
        BY <1>1, <2>1, <3>1, NextBytes
      <4>2. c[k] = mem[Mask(did + k)]
        BY <1>4, <2>1, <4>1, PaddedData
      <4>3. c[k] = Len(out) + k + 1 /\ Len(out) + k + 1 <= pos
        BY <1>1, <4>1, <4>2, NextBytes
      <4> QED BY <2>1, <4>1, <4>3
    <3>2. CASE k >= siz
      <4>1. k \in siz .. siz + p - 1
        BY <2>1, <2>2, <2>3, <3>2
      <4>2. c[k] = 0
        BY <1>4, <2>1, <4>1, PaddedZeros DEF p
      <4>3. Len(out) + k + 1 > pos
        BY <2>1, <2>2, <2>3, <2>5, <3>2
      <4> QED BY <2>1, <4>1, <4>2, <4>3, BoundsAssumption
    <3> QED BY <2>1, <2>3, <3>1, <3>2
  <2>7. Len(out') = Len(out) + n /\ Delivered'
    <3>1. MaxIn \in Nat /\ out \in Seq(0 .. MaxIn)
      BY Here, BoundsAssumption
    <3>2. Continues(c, n, Len(out), pos, MaxIn) /\ InputFirst(out, pos)
      BY <2>6 DEF Continues, InputFirst, Content, Written, Delivered
    <3>3. Len(out \o AsSeq(c, n)) = Len(out) + n /\ InputFirst(out \o AsSeq(c, n), pos)
      BY <2>1, <2>3, <3>1, <3>2, AppendDelivers, ZenonT(30)
    <3> QED BY <1>1, <1>4, <3>3 DEF Delivered, InputFirst
  <2>8. hav' = hav - m /\ RingHolds'
    BY <1>1, <1>4, <2>1, <2>4, Consumed DEF m
  <2>9. Unpadded' \/ Padded'
    <3>1. CASE n <= siz
      BY <1>1, <2>1, <2>3, <2>4, <2>7, <2>8, <3>1 DEF Unpadded
    <3>2. CASE n > siz
      <4>1. /\ opt.strict /\ siz = hav /\ siz < opt.wblk /\ m = siz
            /\ n <= opt.wblk
        BY <2>1, <2>2, <2>3, <2>4, <2>5, <3>2
      <4>2. hav' = 0 /\ pos < Len(out') /\ Len(out') < pos + opt.wblk
        BY <2>1, <2>3, <2>7, <2>8, <3>2, <4>1
      <4>3. pc' = "epi" \/ pc' = "ends"
        BY <1>1
      <4> QED BY <1>1, <4>1, <4>2, <4>3 DEF Padded
    <3> QED BY <2>1, <2>3, <3>1, <3>2
  <2>10. WholeBlocks'
    <3> SUFFICES ASSUME opt.strict, ~opt.shortw
                 PROVE  Len(out') % opt.wblk = 0
      BY <1>1 DEF WholeBlocks
    <3>1. n = opt.wblk
      BY <2>1, <2>2, <2>3, <2>5
    <3>2. Len(out) % opt.wblk = 0
      BY DEF Content, WholeBlocks
    <3>3. (Len(out) + opt.wblk) % opt.wblk = 0
      BY <2>1, <3>2, OneMoreBlock
    <3> QED BY <2>7, <3>1, <3>3
  <2> QED BY <1>2, <2>7, <2>8, <2>9, <2>10 DEF Content, Written
<1> QED BY <1>3, <1>4 DEF EpiWrite

\* Every step keeps the bytes where Content says they are.
LEMMA NextContent ==
  ASSUME BlockReaders, Kept, Content, [Next]_vars
  PROVE  Content'
<1>1. CASE Task
  BY <1>1, QuietContent, RLoopContent, ReadContent, WLoopContent, WriteContent,
     EpilogueContent, EpiWriteContent DEF Task
<1>2. CASE Signal \/ UNCHANGED vars
  BY <1>2, QuietContent
<1> QED BY <1>1, <1>2 DEF Next, Terminated

\* setup_env() starts with nothing read and nothing written.
LEMMA InitContent ==
  ASSUME Init
  PROVE  Content
<1>1. hav = 0
  BY MaskWraps, SizeAssumption DEF Init, hav, Hav, Slots
<1>2. out = << >> /\ Len(out) = 0 /\ pos = 0 /\ pc = "open"
  BY DEF Init
<1>3. opt.wblk \in Nat /\ opt.wblk > 0
  BY OptionFacts DEF Init
<1>4. Room /\ LastBlock /\ WholeBlocks
  BY <1>2, <1>3 DEF Room, LastBlock, WholeBlocks
<1>5. RingHolds
  BY <1>1 DEF RingHolds
<1>6. Written
  BY <1>1, <1>2 DEF Written, Unpadded, Delivered
<1> QED BY <1>4, <1>5, <1>6 DEF Content

-----------------------------------------------------------------------------
(* Theorems.                                                               *)

\* What task_single() relies on holds in every reachable state, with either
\* kind of reader; in particular no access leaves the ring.
THEOREM KeptAlways == Spec => []Kept
<1> QED BY InitKept, NextKept, PTL DEF Spec

\* Every variable keeps its type: the cursors stay in the ring, no block is
\* larger than it (TypeOK).
THEOREM TypesHold == Spec => []TypeOK
<1>1. Kept => TypeOK
  BY DEF Kept
<1> QED BY <1>1, KeptAlways, PTL

\* The bytes are where transfer_1cpu() relies on them to be.
THEOREM ContentAlways == BlockReaders => (Spec => [](Kept /\ Content))
<1> SUFFICES ASSUME BlockReaders PROVE Spec => [](Kept /\ Content)
  OBVIOUS
<1>1. Init => Kept /\ Content
  BY InitKept, InitContent
<1>2. Kept /\ Content /\ [Next]_vars => (Kept /\ Content)'
  BY NextKept, NextContent
<1> QED BY <1>1, <1>2, PTL DEF Spec

\* The output is the input in order, with zeros only behind all of it, in
\* strict mode, when nothing more is read (OutputFaithful).
THEOREM OutputIsInput == BlockReaders => (Spec => []OutputFaithful)
<1> SUFFICES ASSUME BlockReaders PROVE Spec => []OutputFaithful
  OBVIOUS
<1>1. Kept /\ Content => OutputFaithful
  <2> SUFFICES ASSUME Kept, Content, NEW i \in 1 .. Len(out)
               PROVE  \/ out[i] = i /\ i <= pos
                      \/ out[i] = 0 /\ i > pos /\ InputOver /\ opt.strict
    BY DEF OutputFaithful
  <2>1. out[i] = IF i <= pos THEN i ELSE 0
    BY DEF Content, Written, Delivered
  <2>2. hav \in Nat /\ pos \in Nat /\ Len(out) \in Nat
    BY Here
  <2>3. i > pos => Padded
    BY <2>2 DEF Content, Written, Unpadded
  <2> QED BY <2>1, <2>2, <2>3 DEF Padded, InputOver
<1> QED BY <1>1, ContentAlways, PTL

\* What was read is delivered whatever ended the reading, unless a write
\* failed (FlushesWhatItRead).
THEOREM ReadIsFlushed == BlockReaders => (Spec => []FlushesWhatItRead)
<1> SUFFICES ASSUME BlockReaders PROVE Spec => []FlushesWhatItRead
  OBVIOUS
<1>1. Kept /\ Content => FlushesWhatItRead
  <2> SUFFICES ASSUME Kept, Content, ret # "running", retw >= 0
               PROVE  Len(out) >= pos
    BY DEF FlushesWhatItRead
  <2>1. hav = 0
    <3>1. pc = "over" /\ retw \in {-1, 0}
      BY DEF Kept, TypeOK, Verdict
    <3> QED BY <3>1 DEF Kept, Verdict
  <2>2. pos \in Nat /\ Len(out) \in Nat
    BY Here
  <2> QED BY <2>1, <2>2 DEF Content, Written, Unpadded, Padded
<1> QED BY <1>1, ContentAlways, PTL

\* What a verdict of success stands for.
LEMMA CleanState ==
  ASSUME Kept, pc \in {"end", "over"}, errlog = {}
  PROVE  retr = 0 /\ retw = 0 /\ hav = 0
<1>1. retr \in -1 .. 1 /\ retw \in {-1, 0}
  BY DEF Kept, TypeOK
<1>2. retr # -1 /\ retw # -1
  BY DEF Kept, Verdict
<1>3. retw = 0 /\ (retr = 0 \/ retr = 1)
  BY <1>1, <1>2
<1> QED BY <1>3 DEF Kept, Verdict, InputOver

\* reaper(): success is reported only for a complete transfer, in strict mode
\* for whole blocks, padded by less than one (CleanMeansComplete).
THEOREM CleanIsComplete == BlockReaders => (Spec => []CleanMeansComplete)
<1> SUFFICES ASSUME BlockReaders PROVE Spec => []CleanMeansComplete
  OBVIOUS
<1>1. Kept /\ Content => CleanMeansComplete
  <2> SUFFICES ASSUME Kept, Content, ret = "clean"
               PROVE  /\ retr = 0 /\ Len(out) >= pos
                      /\ opt.strict /\ ~opt.shortw =>
                           Len(out) % opt.wblk = 0 /\ Len(out) - pos < opt.wblk
    BY DEF CleanMeansComplete
  <2>1. pc = "over" /\ errlog = {}
    BY DEF Kept, Verdict
  <2>2. retr = 0 /\ hav = 0
    BY <2>1, CleanState
  <2>3. pos \in Nat /\ Len(out) \in Nat /\ opt.wblk \in Nat /\ opt.wblk > 0
    BY Here
  <2>4. Len(out) >= pos /\ Len(out) < pos + opt.wblk
    <3> QED BY <2>2, <2>3 DEF Content, Written, Unpadded, Padded
  <2>5. opt.strict /\ ~opt.shortw => Len(out) % opt.wblk = 0
    BY DEF Content, WholeBlocks
  <2> QED BY <2>2, <2>3, <2>4, <2>5
<1> QED BY <1>1, ContentAlways, PTL

-----------------------------------------------------------------------------
(* The transfer is a bounded byte pipe.                                    *)

\* read() takes what fits, or ends the input.
LEMMA ReadPipe ==
  ASSUME Kept, Content, Read
  PROVE  [P!Next]_(P!vars)
<1>1. /\ pc = "read" /\ UNCHANGED <<out, ret>> /\ ret = "running"
  BY DEF Read, Kept, Verdict
<1>2. ~InputOver /\ siz + hav < Size /\ Len(out) = pos - hav
  BY <1>1 DEF InputOver, Content, Room, Written, Unpadded, Padded
<1>3. ASSUME NEW n \in 1 .. Least(siz, MaxIn - pos), pos' = pos + n, pc' = "rloop"
      PROVE  P!Take
  <2>1. /\ siz \in Nat /\ hav \in Nat /\ pos \in Nat /\ MaxIn \in Nat /\ Size \in Nat
        /\ Len(out) \in Nat
    BY Here, BoundsAssumption
  <2>2. n \in Nat /\ n > 0 /\ n <= siz
    BY <2>1 DEF Least
  <2>3. n \in 1 .. (Size - 1) - (pos - Len(out))
    BY <1>2, <2>1, <2>2
  <2>4. InputOver' = InputOver
    BY <1>2, <1>3 DEF InputOver
  <2> QED BY <1>1, <1>2, <1>3, <2>3, <2>4 DEF P!Take
<1>4. ASSUME UNCHANGED pos, pc' = "outt"
      PROVE  P!See
  BY <1>1, <1>2, <1>4 DEF P!See, InputOver
<1>5. \/ \E n \in 1 .. Least(siz, MaxIn - pos) : pos' = pos + n /\ pc' = "rloop"
      \/ UNCHANGED pos /\ pc' = "outt"
  BY Zenon DEF Read
<1> QED BY <1>1, <1>3, <1>4, <1>5 DEF P!Next

\* write() sends the bytes that come next; a failed one ends the input.
LEMMA WritePipe ==
  ASSUME Kept, Content, Write
  PROVE  [P!Next]_(P!vars)
<1>1. /\ pc = "write" /\ UNCHANGED <<pos, ret>> /\ ret = "running" /\ ~InputOver
  BY DEF Write, Kept, Verdict, InputOver
<1>2. ASSUME NEW n \in Taken(opt, siz), NEW c, c = FetchW(opt, mem, did, siz),
             out' = out \o AsSeq(c, n), pc' = "wloop"
      PROVE  P!Send
  <2>1. /\ siz \in Nat /\ siz <= hav /\ hav \in Nat /\ pos \in Nat
        /\ Len(out) = pos - hav /\ Len(out) \in Nat
    BY <1>1, NextBytes, Here
  <2>2. n \in Nat /\ n > 0 /\ n <= siz
    BY <1>1, NextBytes DEF Taken
  <2>3. ASSUME NEW k \in 0 .. n - 1
        PROVE  c[k] = Len(out) + k + 1
    <3>1. k \in 0 .. siz - 1 /\ siz <= Size /\ did \in Slots
      BY <1>1, <2>1, <2>2, NextBytes
    <3>2. c[k] = mem[Mask(did + k)]
      BY <1>2, <2>1, <3>1, FetchWRing
    <3> QED BY <1>1, <3>1, <3>2, NextBytes
  <2>4. AsSeq(c, n) = P!Bytes(Len(out), n)
    BY <2>1, <2>2, <2>3, DataBlock DEF P!Bytes
  <2>5. n \in 1 .. pos - Len(out)
    BY <2>1, <2>2
  <2>6. InputOver' = InputOver
    BY <1>1, <1>2 DEF InputOver
  <2> QED BY <1>1, <1>2, <2>4, <2>5, <2>6 DEF P!Send
<1>3. ASSUME UNCHANGED out, pc' = "outt"
      PROVE  P!See
  BY <1>1, <1>3 DEF P!See, InputOver
<1> QED BY <1>1, <1>2, <1>3 DEF Write, P!Next

\* The epilogue sends what is left, with zeros behind all of it only.
LEMMA EpiWritePipe ==
  ASSUME Kept, Content, EpiWrite
  PROVE  [P!Next]_(P!vars)
<1>1. /\ pc = "ewrite" /\ pc' \in {"epi", "ends"} /\ UNCHANGED <<pos, ret>>
      /\ ret = "running" /\ InputOver /\ InputOver'
  BY DEF EpiWrite, Kept, Verdict, InputOver
<1>2. ASSUME NEW n \in Taken(opt, siz + Padding(opt, siz)), NEW c,
             c = FetchPadded(opt, mem, did, siz), out' = out \o AsSeq(c, n)
      PROVE  P!Send \/ P!SendPadded
  <2> DEFINE p == Padding(opt, siz)
  <2>1. /\ siz \in Nat /\ siz > 0 /\ siz <= hav /\ hav \in Nat /\ pos \in Nat
        /\ opt.wblk \in Nat /\ 2 * opt.wblk < Size /\ Size \in Nat
        /\ Len(out) \in Nat /\ Len(out) = pos - hav
    BY <1>1, NextBytes, Here
  <2>2. p \in Nat /\ p = IF opt.strict /\ siz < opt.wblk THEN opt.wblk - siz ELSE 0
    BY <2>1 DEF Padding
  <2> HIDE DEF p
  <2>3. n \in Nat /\ n > 0 /\ n <= siz + p
    BY <1>2, <2>1, <2>2 DEF Taken, p
  <2>4. ASSUME NEW k \in 0 .. siz - 1
        PROVE  c[k] = Len(out) + k + 1
    <3>1. siz <= Size /\ did \in Slots
      BY <1>1, NextBytes
    <3>2. c[k] = mem[Mask(did + k)]
      BY <1>2, <2>1, <3>1, PaddedData
    <3> QED BY <1>1, <3>2, NextBytes
  <2>5. CASE n <= siz
    <3>1. \A k \in 0 .. n - 1 : c[k] = Len(out) + k + 1
      BY <2>1, <2>3, <2>4, <2>5
    <3>2. AsSeq(c, n) = P!Bytes(Len(out), n)
      BY <2>1, <2>3, <3>1, DataBlock DEF P!Bytes
    <3>3. n \in 1 .. pos - Len(out)
      BY <2>1, <2>3, <2>5
    <3> QED BY <1>1, <1>2, <3>2, <3>3 DEF P!Send
  <2>6. CASE n > siz
    <3> DEFINE z == n - siz
    <3>1. siz < opt.wblk /\ siz = hav
      BY <1>1, <2>1, <2>2, <2>3, <2>6 DEF Content, LastBlock
    <3>2. z \in Nat /\ z \in 1 .. Size - 1 /\ n = siz + z /\ z <= p
      BY <2>1, <2>2, <2>3, <2>6, <3>1
    <3> HIDE DEF z
    <3>3. ASSUME NEW k \in siz .. siz + z - 1
          PROVE  c[k] = 0
      <4>1. k \in siz .. siz + p - 1
        <5>1. siz \in Nat /\ p \in Nat /\ z \in Nat /\ z <= p
          BY <2>1, <2>2, <3>2
        <5> QED BY <5>1
      <4> QED BY <1>2, <2>1, <4>1, PaddedZeros DEF p
    <3>4. ZeroTailed(c, Len(out), siz, z)
      BY <2>4, <3>3 DEF ZeroTailed
    <3>5. out \in Seq(Int)
      <4>1. 0 .. MaxIn \subseteq Int
        OBVIOUS
      <4> QED BY <4>1, Here, SeqWider
    <3>6. PaddedTo(out \o AsSeq(c, siz + z), out, Len(out), siz, z)
      BY <2>1, <3>2, <3>4, <3>5, DataThenZeros
    <3>7. out' = out \o P!Bytes(Len(out), siz) \o [i \in 1 .. z |-> 0]
      BY <1>2, <3>2, <3>6, Zenon DEF PaddedTo, P!Bytes
    <3>8. siz = pos - Len(out) /\ Len(out) < pos
      BY <2>1, <3>1
    <3> QED BY <1>1, <3>2, <3>7, <3>8 DEF P!SendPadded
  <2> QED BY <2>1, <2>3, <2>5, <2>6
<1>3. ASSUME UNCHANGED out
      PROVE  UNCHANGED P!vars
  BY <1>1, <1>3 DEF P!vars
<1> QED BY <1>1, <1>2, <1>3 DEF EpiWrite, P!Next

\* reaper() closes the pipe with its verdict.
LEMMA ReapPipe ==
  ASSUME Kept, Content, Reap
  PROVE  [P!Next]_(P!vars)
<1>1. /\ pc = "end" /\ pc' = "over" /\ UNCHANGED <<pos, out>>
      /\ ret' = IF errlog = {} THEN "clean" ELSE "failed"
  BY DEF Reap
<1>2. ret = "running" /\ InputOver /\ InputOver'
  BY <1>1 DEF Kept, Verdict, InputOver
<1>3. errlog = {} => Len(out) >= pos
  <2> SUFFICES ASSUME errlog = {} PROVE Len(out) >= pos
    OBVIOUS
  <2>1. hav = 0 /\ pos \in Nat /\ Len(out) \in Nat
    BY <1>1, CleanState, Here
  <2> QED BY <2>1 DEF Content, Written, Unpadded, Padded
<1>4. P!Close
  BY <1>1, <1>2, <1>3 DEF P!Close
<1> QED BY <1>2, <1>4 DEF P!Next

\* The other steps stutter, or end the input without reading.
LEMMA OtherPipe ==
  ASSUME Kept, [Next]_vars, ~Read, ~Write, ~EpiWrite, ~Reap
  PROVE  [P!Next]_(P!vars)
<1>1. UNCHANGED <<pos, out, ret>>
  BY DEF Next, Task, Open, Top, RLoop, WLoop, Outt, Epilogue, Ends, Signal,
     Terminated, vars
<1>2. \/ InputOver' = InputOver
      \/ InputOver' = TRUE /\ ~InputOver
  BY DEF Next, Task, Open, Top, RLoop, WLoop, Outt, Epilogue, Ends, Signal,
     Terminated, vars, InputOver
<1>3. CASE InputOver' = InputOver
  BY <1>1, <1>3 DEF P!vars
<1>4. CASE InputOver' = TRUE /\ ~InputOver
  <2>1. ret = "running"
    BY <1>4 DEF Kept, Verdict, InputOver
  <2> QED BY <1>1, <1>4, <2>1 DEF P!Next, P!See
<1> QED BY <1>2, <1>3, <1>4

\* The loop, the ring, the epilogue, the signals and the verdict make a bounded
\* byte pipe (ImplementsPipe).
THEOREM TaskIsPipe == BlockReaders => (Spec => ImplementsPipe)
<1> SUFFICES ASSUME BlockReaders PROVE Spec => ImplementsPipe
  OBVIOUS
<1>1. Init => P!Init
  BY DEF Init, P!Init, InputOver
<1>2. Kept /\ Content /\ [Next]_vars => [P!Next]_(P!vars)
  BY ReadPipe, WritePipe, EpiWritePipe, ReapPipe, OtherPipe
<1> QED BY <1>1, <1>2, ContentAlways, PTL DEF Spec, ImplementsPipe, P!Spec
=============================================================================
