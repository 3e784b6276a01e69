---------------------------- MODULE Transfer1cpu ----------------------------
(***************************************************************************)
(* The transfer of sp mode: task_single() and transfer_1cpu(), one task    *)
(* that reads up to rcnt blocks, then writes up to wcnt blocks, until the  *)
(* input ends, an error or a termination signal; then the epilogue.  The   *)
(* only concurrency is the handler sh_terminate(), which may run between   *)
(* any two steps.                                                          *)
(***************************************************************************)
EXTENDS Buffer, Sequences

CONSTANTS
  Options,    \* configurations: the fields of Buffer, shortw, rcnt and wcnt
  MaxIn,      \* bound: longest input
  MaxSignals  \* bound: termination signals handled during one transfer

OptionType ==
  [rblk: Nat, wblk: Nat, rline: BOOLEAN, wline: BOOLEAN, rsp: Nat, wsp: Nat,
   strict: BOOLEAN, iscir: BOOLEAN, shortw: BOOLEAN,
   rcnt: Nat \ {0}, wcnt: Nat \ {0}]

ASSUME OptionsAssumption ==
  Options \subseteq {o \in OptionType : ValidOptions(o)}

ASSUME BoundsAssumption == MaxIn \in Nat /\ MaxSignals \in Nat

VARIABLES
  opt,                        \* g_opts and the constant fields of buf_s
  got, did, mem,              \* the ring
  rstall, wstall, wmin, wsp,  \* the changing fields of buf_s
  done, errlog,               \* the termination fields of shr_s
  pc, cnt, siz,               \* where the task is, cnt and siz
  pos, retr,                  \* input consumed, retr
  out, retw,                  \* output, retw (0 or -1)
  sigs,                       \* termination signals so far
  ret                         \* the result of reaper()

ring   == <<got, did, mem>>
stalls == <<rstall, wstall, wmin, wsp>>
vars   == <<opt, ring, stalls, done, errlog, pc, cnt, siz, pos, retr, out, retw,
            sigs, ret>>

Init ==
  /\ opt \in Options
  /\ got = 0 /\ did = 0 /\ mem = [s \in Slots |-> 0]
  /\ rstall = FALSE /\ wstall = (opt.wsp # 0)
  /\ wmin = WMin(opt) /\ wsp = opt.wsp
  /\ done = FALSE /\ errlog = {}
  /\ pc = "open" /\ cnt = 0 /\ siz = 0
  /\ pos = 0 /\ retr = 1 /\ out = << >> /\ retw = 0
  /\ sigs = 0 /\ ret = "running"

\* Both fd_open(); a failure ends in release(ERR_INI).
Open ==
  /\ pc = "open"
  /\ \/ pc' = "top" /\ UNCHANGED <<done, errlog>>
     \/ pc' = "end" /\ done' = TRUE /\ errlog' = errlog \union {"ini"}
  /\ UNCHANGED <<opt, ring, stalls, cnt, siz, pos, retr, out, retw, sigs, ret>>

Top ==
  /\ pc = "top"
  /\ \/ done /\ pc' = "outt" /\ UNCHANGED cnt
     \/ ~done /\ pc' = "rloop" /\ cnt' = opt.rcnt
  /\ UNCHANGED <<opt, ring, stalls, done, errlog, siz, pos, retr, out, retw, sigs,
                 ret>>

\* while ((siz = buf_can_r()) && cnt--): the decision is taken, with what it
\* does to rstall, before the count is looked at.
RLoop ==
  LET emp == Emp(got, did)
      n   == GrantR(opt, emp, rstall)
  IN  /\ pc = "rloop"
      /\ rstall' = StallsR(opt, emp, rstall)
      /\ siz' = n
      /\ \/ n # 0 /\ cnt > 0 /\ pc' = "read" /\ cnt' = cnt - 1
         \/ (n = 0 \/ cnt = 0) /\ pc' = "wloop" /\ cnt' = opt.wcnt
      /\ UNCHANGED <<opt, ring, wstall, wmin, wsp, done, errlog, pos, retr, out,
                     retw, sigs, ret>>

\* Fetch, read and commit one block; or the end of the input, or an error.
Read ==
  /\ pc = "read"
  /\ \/ \E n \in 1 .. Least(siz, MaxIn - pos) :
          LET c == [k \in 0 .. n - 1 |-> pos + k + 1]
          IN  /\ mem' = IF Direct(opt, got, siz) THEN Store(opt, mem, got, n, c)
                        ELSE BounceIn(mem, got, n, c)
              /\ got' = Mask(got + n)
              /\ pos' = pos + n
              /\ pc' = "rloop" /\ UNCHANGED retr
     \/ /\ retr' \in {0, -1}
        /\ pc' = "outt" /\ UNCHANGED <<got, mem, pos>>
  /\ UNCHANGED <<opt, did, stalls, done, errlog, cnt, siz, out, retw, sigs, ret>>

WLoop ==
  LET hav == Hav(got, did)
      n   == GrantW(opt, hav, wstall, wmin, wsp)
  IN  /\ pc = "wloop"
      /\ wstall' = StallsW(opt, hav, wstall, wmin, wsp)
      /\ siz' = n
      /\ \/ n # 0 /\ cnt > 0 /\ pc' = "write" /\ cnt' = cnt - 1
         \/ (n = 0 \/ cnt = 0) /\ pc' = "top" /\ UNCHANGED cnt
      /\ UNCHANGED <<opt, ring, rstall, wmin, wsp, done, errlog, pos, retr, out,
                     retw, sigs, ret>>

Write ==
  /\ pc = "write"
  /\ \/ \E n \in Taken(opt, siz) :
          /\ out' = out \o AsSeq(FetchW(opt, mem, did, siz), n)
          /\ did' = Mask(did + n)
          /\ pc' = "wloop" /\ UNCHANGED retw
     \/ retw' = -1 /\ pc' = "outt" /\ UNCHANGED <<did, out>>
  /\ UNCHANGED <<opt, got, mem, stalls, done, errlog, cnt, siz, pos, retr, sigs,
                 ret>>

\* if (retw >= 0) transfer_writer_epi(), which begins with buf_setlinew();
\* first one that, like the two-worker modes, only flushes at end of file.
OuttAtEof ==
  /\ pc = "outt"
  /\ pc' = IF retr = 0 /\ retw >= 0 THEN "epi" ELSE "end"
  /\ errlog' = IF retw < 0 THEN errlog \union {"err"} ELSE errlog
  /\ wmin' = 1 /\ wsp' = 0 /\ wstall' = FALSE
  /\ UNCHANGED <<opt, ring, rstall, done, cnt, siz, pos, retr, out, retw, sigs, ret>>

Outt ==
  /\ pc = "outt"
  /\ \/ retw >= 0 /\ pc' = "epi" /\ wmin' = 1 /\ wsp' = 0 /\ wstall' = FALSE
     \/ retw < 0 /\ pc' = "ends" /\ UNCHANGED <<wmin, wsp, wstall>>
  /\ UNCHANGED <<opt, ring, rstall, done, errlog, cnt, siz, pos, retr, out, retw,
                 sigs, ret>>

Epilogue ==
  LET n == GrantW(opt, Hav(got, did), wstall, wmin, wsp)
  IN  /\ pc = "epi" /\ siz' = n
      /\ pc' = IF n = 0 THEN "ends" ELSE "ewrite"
      /\ UNCHANGED <<opt, ring, stalls, done, errlog, cnt, pos, retr, out, retw,
                     sigs, ret>>

\* Fetch, pad, write and commit one block; only data bytes move the cursor.
EpiWrite ==
  /\ pc = "ewrite"
  /\ \/ \E n \in Taken(opt, siz + Padding(opt, siz)) :
          /\ out' = out \o AsSeq(FetchPadded(opt, mem, did, siz), n)
          /\ did' = Mask(did + Least(siz, n))
          /\ pc' = "epi" /\ UNCHANGED retw
     \/ retw' = -1 /\ pc' = "ends" /\ UNCHANGED <<did, out>>
  /\ UNCHANGED <<opt, got, mem, stalls, done, errlog, cnt, siz, pos, retr, sigs,
                 ret>>

\* if (retr < 0 || retw < 0) errlog[...] = 1; first with the read forgotten.
EndsForgetsRead ==
  /\ pc = "ends" /\ pc' = "end"
  /\ errlog' = IF retw < 0 THEN errlog \union {"err"} ELSE errlog
  /\ UNCHANGED <<opt, ring, stalls, done, cnt, siz, pos, retr, out, retw, sigs, ret>>

Ends ==
  /\ pc = "ends" /\ pc' = "end"
  /\ errlog' = IF retr < 0 \/ retw < 0 THEN errlog \union {"err"} ELSE errlog
  /\ UNCHANGED <<opt, ring, stalls, done, cnt, siz, pos, retr, out, retw, sigs, ret>>

\* reaper(), which has nobody to wait for.
Reap ==
  /\ pc = "end" /\ pc' = "over"
  /\ ret' = IF errlog = {} THEN "clean" ELSE "failed"
  /\ UNCHANGED <<opt, ring, stalls, done, errlog, cnt, siz, pos, retr, out, retw,
                 sigs>>

Task ==
  \/ Open \/ Top \/ RLoop \/ Read \/ WLoop \/ Write \/ Outt \/ Epilogue
  \/ EpiWrite \/ Ends \/ Reap

\* sh_terminate()
Signal ==
  /\ ret = "running" /\ sigs < MaxSignals
  /\ errlog' = errlog \union {"sig"} /\ done' = TRUE
  /\ sigs' = sigs + 1
  /\ UNCHANGED <<opt, ring, stalls, pc, cnt, siz, pos, retr, out, retw, ret>>

Terminated == ret # "running" /\ UNCHANGED vars

Next == Task \/ Signal \/ Terminated

Spec == Init /\ [][Next]_vars

\* The process keeps running, and its system calls return.
FairSpec == Spec /\ WF_vars(Task)

-----------------------------------------------------------------------------
(* Properties.                                                             *)
TypeOK ==
  /\ opt \in Options
  /\ got \in Slots /\ did \in Slots /\ mem \in [Slots -> 0 .. MaxIn]
  /\ rstall \in BOOLEAN /\ wstall \in BOOLEAN /\ wmin \in Nat /\ wsp \in Nat
  /\ done \in BOOLEAN /\ errlog \subseteq {"sig", "ini", "err"}
  /\ pc \in {"open", "top", "rloop", "read", "wloop", "write", "outt", "epi",
            "ewrite", "ends", "end", "over"}
  /\ cnt \in Nat /\ siz \in 0 .. Size - 1
  /\ pos \in 0 .. MaxIn /\ retr \in -1 .. 1
  /\ out \in Seq(0 .. MaxIn) /\ retw \in {-1, 0}
  /\ sigs \in 0 .. MaxSignals /\ ret \in {"running", "clean", "failed"}

\* The input is left alone from here on.
InputOver == pc \in {"outt", "epi", "ewrite", "ends", "end", "over"}

\* The output is the input in order; zeros only behind everything that was
\* read, only in strict mode, and only once nothing more will be read.
OutputFaithful ==
  \A i \in 1 .. Len(out) :
    \/ out[i] = i /\ i <= pos
    \/ out[i] = 0 /\ i > pos /\ InputOver /\ opt.strict

\* A clean verdict: the input ended, every byte of it was delivered, and in
\* strict mode with full writes the output is a whole number of blocks.
CleanMeansComplete ==
  ret = "clean" =>
    /\ retr = 0 /\ Len(out) >= pos
    /\ opt.strict /\ ~opt.shortw =>
         Len(out) % opt.wblk = 0 /\ Len(out) - pos < opt.wblk

\* Unlike the two-worker modes, sp mode delivers what it has read also when a
\* read error or a termination signal ended it.
FlushesWhatItRead ==
  ret # "running" /\ retw >= 0 => Len(out) >= pos

\* The transfer is a bounded byte pipe with a verdict, where the pipe's input
\* is over as soon as the task has left its loop, for whatever reason.
P == INSTANCE Pipe WITH Capacity <- Size - 1, taken <- pos, sent <- out,
                        eof <- InputOver, verdict <- ret
ImplementsPipe == P!Spec

\* The task never goes round its loop for ever with neither direction able to
\* move: every transfer of a finite input comes to an end.
Terminates == <>(ret # "running")
=============================================================================
