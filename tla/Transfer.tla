------------------------------ MODULE Transfer ------------------------------
(***************************************************************************)
(* The two-worker transfer of yancat.c in mt and mp mode: task_reader()    *)
(* and task_writer() around the shared buffer, the wake-up protocol over   *)
(* the semaphores nospace and nodata, the writer's epilogue, the abort by  *)
(* a termination signal (task_sigrelay() in mt, sh_terminate() in mp) and  *)
(* the verdict of reaper().                                                *)
(*                                                                         *)
(* A step is the code between two points where another task can intervene: *)
(* a lock or semaphore operation, a blocking call, or a store to done that *)
(* is made outside the lock.  Byte number i of the input is the number i,  *)
(* so `out' shows which bytes were delivered, in which order.              *)
(***************************************************************************)
EXTENDS Buffer, Sequences

CONSTANTS
  Options,    \* configurations: ValidOptions fields, iscir, mode, shortw
  MaxIn,      \* bound: longest input
  MaxSignals  \* bound: termination signals handled during one transfer

OptionType ==
  [rblk: Nat, wblk: Nat, rline: BOOLEAN, wline: BOOLEAN, rsp: Nat, wsp: Nat,
   strict: BOOLEAN, iscir: BOOLEAN, mode: {"mt", "mp"},
   shortw: BOOLEAN]   \* write() may take less than it was given

ASSUME OptionsAssumption ==
  Options \subseteq {o \in OptionType : ValidOptions(o)}

ASSUME BoundsAssumption == MaxIn \in Nat /\ MaxSignals \in Nat

VARIABLES
  opt,                              \* g_opts and the constant fields of buf_s
  got, did, mem,                    \* the ring
  rstall, wstall, wmin, wsp,        \* the changing fields of buf_s
  lock, nospace, nodata,            \* vars (its holder) and the semaphores
  mwait, swait, xrsiz, xwsiz,       \* the hand-over fields of shr_s
  done, abrt, errlog,               \* the termination fields of shr_s
  pc,                               \* where each task is
  pos, rsiz, rret, rchunk,          \* reader: input consumed, siz, retr, bounce
  out, wsiz, wret, wchunk,          \* writer: output, siz, retw, bounce
  sigs,                             \* termination signals so far
  ret                               \* the result of reaper()

ring    == <<got, did, mem>>
stalls  == <<rstall, wstall, wmin, wsp>>
sync    == <<lock, nospace, nodata>>
handoff == <<mwait, swait, xrsiz, xwsiz>>
ends    == <<done, abrt, errlog>>
rvars   == <<pos, rsiz, rret, rchunk>>
wvars   == <<out, wsiz, wret, wchunk>>
vars    == <<opt, ring, stalls, sync, handoff, ends, pc, rvars, wvars, sigs, ret>>

Tasks == {"arbiter", "reader", "writer", "sigrelay"}

Locations ==
  {"open", "lock", "loop", "wait", "woken", "read", "copy", "fetch", "write",
   "relock", "err", "fin", "post", "check", "epi", "ewrite", "end",
   "rel_done", "rel_nodata", "rel_nospace", "reap", "sigwait"}

Free  == "none"
NoChunk == [k \in {} |-> Junk]

Goto(t, from, to) == pc[t] = from /\ pc' = [pc EXCEPT ![t] = to]

\* errlog[type + role] = 1; abrt = 1
RecordOnly(type, role) ==
  /\ errlog' = errlog \union {<<type, role>>}
  /\ UNCHANGED abrt

Record(type, role) ==
  /\ errlog' = errlog \union {<<type, role>>}
  /\ abrt' = TRUE

Init ==
  /\ opt \in Options
  /\ got = 0 /\ did = 0 /\ mem = [s \in Slots |-> 0]
  /\ rstall = FALSE /\ wstall = (opt.wsp # 0)
  /\ wmin = WMin(opt) /\ wsp = opt.wsp
  /\ lock = Free /\ nospace = 0 /\ nodata = 0
  /\ mwait = FALSE /\ swait = FALSE /\ xrsiz = 0 /\ xwsiz = 0
  /\ done = FALSE /\ abrt = FALSE /\ errlog = {}
  /\ pc = [t \in Tasks |-> CASE t = "arbiter" -> "reap"
                             [] t = "sigrelay" -> "sigwait"
                             [] OTHER -> "open"]
  /\ pos = 0 /\ rsiz = 0 /\ rret = 1 /\ rchunk = NoChunk
  /\ out = << >> /\ wsiz = 0 /\ wret = 0 /\ wchunk = NoChunk
  /\ sigs = 0 /\ ret = "running"

-----------------------------------------------------------------------------
(* Steps the workers share.                                                *)

\* fd_open(); a failure enters release(ERR_INI).
Open(t) ==
  /\ \/ Goto(t, "open", "lock") /\ UNCHANGED ends
     \/ Goto(t, "open", "rel_done") /\ Record("ini", t) /\ UNCHANGED done
  /\ UNCHANGED <<opt, ring, stalls, sync, handoff, rvars, wvars, sigs, ret>>

Lock(t) ==
  /\ lock = Free /\ lock' = t
  /\ Goto(t, "lock", "loop")
  /\ UNCHANGED <<opt, ring, stalls, nospace, nodata, handoff, ends, rvars,
                 wvars, sigs, ret>>

\* release(): the stores, then both semaphores.  The pings of notify_tasks()
\* show as a read(), write() or open() that fails.
ReleaseDone(t) ==
  /\ Goto(t, "rel_done", IF t = "sigrelay" /\ opt.mode = "mp"
                         THEN "sigwait"           \* sh_terminate() ends here
                         ELSE "rel_nodata")
  /\ done' = TRUE
  /\ UNCHANGED <<opt, ring, stalls, sync, handoff, abrt, errlog, rvars, wvars,
                 sigs, ret>>

ReleaseData(t) ==
  /\ Goto(t, "rel_nodata", "rel_nospace")
  /\ nodata' = nodata + 1
  /\ UNCHANGED <<opt, ring, stalls, lock, nospace, handoff, ends, rvars, wvars,
                 sigs, ret>>

ReleaseSpace(t) ==
  /\ Goto(t, "rel_nospace", IF t = "sigrelay" THEN "sigwait" ELSE "end")
  /\ nospace' = nospace + 1
  /\ UNCHANGED <<opt, ring, stalls, lock, nodata, handoff, ends, rvars, wvars,
                 sigs, ret>>

Release(t) == ReleaseDone(t) \/ ReleaseData(t) \/ ReleaseSpace(t)

\* A failed read() or write(): the flags first, done in the next step.
Fail(t) ==
  /\ Goto(t, "err", "fin")
  /\ Record("err", t)
  /\ UNCHANGED <<opt, ring, stalls, sync, handoff, done, rvars, wvars, sigs, ret>>

Finish(t) ==
  /\ Goto(t, "fin", "post")
  /\ done' = TRUE
  /\ UNCHANGED <<opt, ring, stalls, sync, handoff, abrt, errlog, rvars, wvars,
                 sigs, ret>>

-----------------------------------------------------------------------------
(* transfer_reader()                                                       *)

\* Top of the loop, under the lock, up to Vm(): leave, sleep or go reading.
RLoop ==
  LET emp == Emp(got, did)
      siz == GrantR(opt, emp, rstall)
  IN  /\ lock = "reader" /\ lock' = Free
      /\ \/ /\ done
            /\ Goto("reader", "loop", "fin")
            /\ UNCHANGED <<rstall, mwait, rsiz>>
         \/ /\ ~done /\ siz = 0
            /\ Goto("reader", "loop", "wait")
            /\ rstall' = StallsR(opt, emp, rstall)
            /\ mwait' = TRUE
            /\ UNCHANGED rsiz
         \/ /\ ~done /\ siz # 0
            /\ Goto("reader", "loop", "read")
            /\ rstall' = FALSE
            /\ rsiz' = siz
            /\ UNCHANGED mwait
      /\ UNCHANGED <<opt, ring, wstall, wmin, wsp, nospace, nodata, swait, xrsiz,
                     xwsiz, ends, pos, rret, rchunk, wvars, sigs, ret>>

\* Pb(g_nospace)
RWait ==
  /\ Goto("reader", "wait", "woken")
  /\ nospace > 0 /\ nospace' = nospace - 1
  /\ UNCHANGED <<opt, ring, stalls, lock, nodata, handoff, ends, rvars, wvars,
                 sigs, ret>>

RWoken ==
  /\ \/ done /\ Goto("reader", "woken", "fin") /\ UNCHANGED rsiz
     \/ ~done /\ Goto("reader", "woken", "read") /\ rsiz' = xrsiz
  /\ UNCHANGED <<opt, ring, stalls, sync, handoff, ends, pos, rret, rchunk,
                 wvars, sigs, ret>>

\* buf_fetch_r() and read_i(): 1..rsiz bytes, end of file or an error.
RRead ==
  \/ \E n \in 1 .. Least(rsiz, MaxIn - pos) :
       LET c == [k \in 0 .. n - 1 |-> pos + k + 1]
       IN  /\ Goto("reader", "read", "copy")
           /\ IF Direct(opt, got, rsiz)
              THEN mem' = Store(opt, mem, got, n, c) /\ rchunk' = NoChunk
              ELSE rchunk' = c /\ UNCHANGED mem
           /\ pos' = pos + n /\ rret' = n
           /\ UNCHANGED <<opt, got, did, stalls, sync, handoff, ends, rsiz,
                          wvars, sigs, ret>>
  \/ /\ \/ Goto("reader", "read", "fin") /\ rret' = 0
        \/ Goto("reader", "read", "err") /\ rret' = -1
     /\ rsiz' = 0
     /\ UNCHANGED <<opt, ring, stalls, sync, handoff, ends, pos, rchunk, wvars,
                    sigs, ret>>

\* buf_commit_r(), outside the lock.
RCommit ==
  /\ Goto("reader", "copy", "relock")
  /\ mem' = IF Direct(opt, got, rsiz) THEN mem
            ELSE BounceIn(mem, got, rret, rchunk)
  /\ rchunk' = NoChunk
  /\ UNCHANGED <<opt, got, did, stalls, sync, handoff, ends, pos, rsiz, rret,
                 wvars, sigs, ret>>

\* if (swait && (siz = buf_can_w())) hand siz over to the writer.
WakeWriterForgets(hav) ==
  LET siz == GrantW(opt, hav, wstall, wmin, wsp)
  IN  \/ ~swait /\ UNCHANGED <<wstall, swait, xwsiz, nodata>>
      \/ /\ swait /\ swait' = FALSE /\ xwsiz' = siz
         /\ wstall' = StallsW(opt, hav, wstall, wmin, wsp)
         /\ nodata' = IF siz = 0 THEN nodata ELSE nodata + 1

WakeWriter(hav) ==
  LET siz == GrantW(opt, hav, wstall, wmin, wsp)
  IN  \/ ~swait /\ UNCHANGED <<wstall, swait, xwsiz, nodata>>
      \/ /\ swait /\ siz = 0
         /\ wstall' = StallsW(opt, hav, wstall, wmin, wsp)
         /\ UNCHANGED <<swait, xwsiz, nodata>>
      \/ /\ swait /\ siz # 0
         /\ wstall' = FALSE /\ swait' = FALSE /\ xwsiz' = siz
         /\ nodata' = nodata + 1

\* Pm(), buf_commit_rf() and the writer's wake-up; the lock is kept.
RAdvance ==
  /\ lock = Free /\ lock' = "reader"
  /\ Goto("reader", "relock", "loop")
  /\ got' = Mask(got + rret)
  /\ WakeWriter(Hav(Mask(got + rret), did))
  /\ rsiz' = 0 /\ rret' = 1      \* dead until the next read
  /\ UNCHANGED <<opt, did, mem, rstall, wmin, wsp, nospace, mwait, xrsiz, ends,
                 pos, rchunk, wvars, sigs, ret>>

RPostSilent ==
  /\ Goto("reader", "post", "end")
  /\ UNCHANGED <<opt, ring, stalls, sync, handoff, ends, rvars, wvars, sigs, ret>>

RPost ==
  /\ Goto("reader", "post", "end")
  /\ nodata' = nodata + 1
  /\ UNCHANGED <<opt, ring, stalls, lock, nospace, handoff, ends, rvars, wvars,
                 sigs, ret>>

Reader ==
  \/ Open("reader") \/ Lock("reader") \/ RLoop \/ RWait \/ RWoken \/ RRead
  \/ RCommit \/ RAdvance \/ Fail("reader") \/ Finish("reader") \/ RPost
  \/ Release("reader")

-----------------------------------------------------------------------------
(* transfer_writer()                                                       *)

WLoop ==
  LET hav == Hav(got, did)
      siz == GrantW(opt, hav, wstall, wmin, wsp)
  IN  /\ lock = "writer" /\ lock' = Free
      /\ \/ /\ done
            /\ Goto("writer", "loop", "post")
            /\ UNCHANGED <<wstall, swait, wsiz>>
         \/ /\ ~done /\ siz = 0
            /\ Goto("writer", "loop", "wait")
            /\ wstall' = StallsW(opt, hav, wstall, wmin, wsp)
            /\ swait' = TRUE
            /\ UNCHANGED wsiz
         \/ /\ ~done /\ siz # 0
            /\ Goto("writer", "loop", "fetch")
            /\ wstall' = FALSE
            /\ wsiz' = siz
            /\ UNCHANGED swait
      /\ UNCHANGED <<opt, ring, rstall, wmin, wsp, nospace, nodata, mwait, xrsiz,
                     xwsiz, ends, rvars, out, wret, wchunk, sigs, ret>>

\* Pb(g_nodata)
WWait ==
  /\ Goto("writer", "wait", "woken")
  /\ nodata > 0 /\ nodata' = nodata - 1
  /\ UNCHANGED <<opt, ring, stalls, lock, nospace, handoff, ends, rvars, wvars,
                 sigs, ret>>

WWoken ==
  /\ \/ done /\ Goto("writer", "woken", "post") /\ UNCHANGED wsiz
     \/ ~done /\ Goto("writer", "woken", "fetch") /\ wsiz' = xwsiz
  /\ UNCHANGED <<opt, ring, stalls, sync, handoff, ends, rvars, out, wret,
                 wchunk, sigs, ret>>

\* buf_fetch_w(): a bounced chunk leaves the ring now, a direct one only
\* when write() looks at it.
WFetch ==
  /\ Goto("writer", "fetch", "write")
  /\ wchunk' = IF Direct(opt, did, wsiz) THEN NoChunk
               ELSE BounceOut(mem, did, wsiz)
  /\ UNCHANGED <<opt, ring, stalls, sync, handoff, ends, rvars, out, wsiz, wret,
                 sigs, ret>>

Emit(n, c) == out' = out \o AsSeq(c, n)

\* write_i()
WWrite ==
  \/ \E n \in Taken(opt, wsiz) :
       /\ Goto("writer", "write", "relock")
       /\ Emit(n, IF Direct(opt, did, wsiz) THEN Load(opt, mem, did, wsiz)
                  ELSE wchunk)
       /\ wret' = n /\ wchunk' = NoChunk
       /\ UNCHANGED <<opt, ring, stalls, sync, handoff, ends, rvars, wsiz, sigs,
                      ret>>
  \/ /\ Goto("writer", "write", "err")
     /\ wsiz' = 0 /\ wchunk' = NoChunk
     /\ UNCHANGED <<opt, ring, stalls, sync, handoff, ends, rvars, out, wret,
                    sigs, ret>>

\* if (mwait && (siz = buf_can_r())) hand siz over to the reader.
WakeReader(emp) ==
  LET siz == GrantR(opt, emp, rstall)
  IN  \/ ~mwait /\ UNCHANGED <<rstall, mwait, xrsiz, nospace>>
      \/ /\ mwait /\ siz = 0
         /\ rstall' = StallsR(opt, emp, rstall)
         /\ UNCHANGED <<mwait, xrsiz, nospace>>
      \/ /\ mwait /\ siz # 0
         /\ rstall' = FALSE /\ mwait' = FALSE /\ xrsiz' = siz
         /\ nospace' = nospace + 1

WAdvance ==
  /\ lock = Free /\ lock' = "writer"
  /\ Goto("writer", "relock", "loop")
  /\ did' = Mask(did + wret)
  /\ WakeReader(Emp(got, Mask(did + wret)))
  /\ wsiz' = 0 /\ wret' = 0
  /\ UNCHANGED <<opt, got, mem, wstall, wmin, wsp, nodata, swait, xwsiz, ends,
                 rvars, out, wchunk, sigs, ret>>

WPost ==
  /\ Goto("writer", "post", "check")
  /\ nospace' = nospace + 1
  /\ UNCHANGED <<opt, ring, stalls, lock, nodata, handoff, ends, rvars, wvars,
                 sigs, ret>>

\* if (!abrt) transfer_writer_epi(), which begins with buf_setlinew().
WCheckKeepsBlocks ==
  /\ Goto("writer", "check", IF abrt THEN "end" ELSE "epi")
  /\ UNCHANGED <<opt, ring, stalls, sync, handoff, ends, rvars, wvars, sigs, ret>>

WCheck ==
  /\ \/ abrt /\ Goto("writer", "check", "end") /\ UNCHANGED stalls
     \/ /\ ~abrt /\ Goto("writer", "check", "epi")
        /\ wmin' = 1 /\ wsp' = 0 /\ wstall' = FALSE /\ UNCHANGED rstall
  /\ UNCHANGED <<opt, ring, sync, handoff, ends, rvars, wvars, sigs, ret>>

\* The epilogue's loop head, without the lock.
WEpilogue ==
  LET siz == GrantW(opt, Hav(got, did), wstall, wmin, wsp)
  IN  /\ Goto("writer", "epi", IF siz = 0 THEN "end" ELSE "ewrite")
      /\ wsiz' = siz
      /\ UNCHANGED <<opt, ring, stalls, sync, handoff, ends, rvars, out, wret,
                     wchunk, sigs, ret>>

\* Fetch, write and commit one block; only data bytes move the cursor.
WEpiWrite ==
  \/ \E n \in Taken(opt, wsiz + Padding(opt, wsiz)) :
       /\ Goto("writer", "ewrite", "epi")
       /\ Emit(n, FetchPadded(opt, mem, did, wsiz))
       /\ did' = Mask(did + Least(wsiz, n))
       /\ wsiz' = 0
       /\ UNCHANGED <<opt, got, mem, stalls, sync, handoff, ends, rvars, wret,
                      wchunk, sigs, ret>>
  \/ /\ Goto("writer", "ewrite", "end")
     /\ errlog' = errlog \union {<<"err", "writer">>}
     /\ wsiz' = 0
     /\ UNCHANGED <<opt, ring, stalls, sync, handoff, done, abrt, rvars, out,
                    wret, wchunk, sigs, ret>>

Writer ==
  \/ Open("writer") \/ Lock("writer") \/ WLoop \/ WWait \/ WWoken \/ WFetch
  \/ WWrite \/ WAdvance \/ Fail("writer") \/ Finish("writer") \/ WPost
  \/ WCheck \/ WEpilogue \/ WEpiWrite \/ Release("writer")

-----------------------------------------------------------------------------
(* Termination signals and the arbiter.                                    *)

\* mt: sigwait() returns in task_sigrelay(), which calls release(ERR_SIG);
\* mp: sh_terminate() runs in one of the three processes.
Signal ==
  /\ pc["arbiter"] = "reap" /\ sigs < MaxSignals
  /\ Goto("sigrelay", "sigwait", "rel_done")
  /\ \E role \in IF opt.mode = "mt" THEN {"arbiter"}
                 ELSE {"arbiter", "reader", "writer"} : Record("sig", role)
  /\ sigs' = sigs + 1
  /\ UNCHANGED <<opt, ring, stalls, sync, handoff, done, rvars, wvars, ret>>

SigRelay == Signal \/ (pc["arbiter"] = "reap" /\ Release("sigrelay"))

\* reaper(): both workers are joined, the relay is cancelled wherever it is
\* (first a verdict from abrt, which a failed epilogue does not set).
ReapOnAbort ==
  /\ pc["reader"] = "end" /\ pc["writer"] = "end"
  /\ Goto("arbiter", "reap", "end")
  /\ ret' = IF abrt THEN "failed" ELSE "clean"
  /\ UNCHANGED <<opt, ring, stalls, sync, handoff, ends, rvars, wvars, sigs>>

Reap ==
  /\ pc["reader"] = "end" /\ pc["writer"] = "end"
  /\ Goto("arbiter", "reap", "end")
  /\ ret' = IF errlog = {} THEN "clean" ELSE "failed"
  /\ UNCHANGED <<opt, ring, stalls, sync, handoff, ends, rvars, wvars, sigs>>

\* The program is over; nothing but stuttering is left.
Terminated == ret # "running" /\ UNCHANGED vars

Next == Reader \/ Writer \/ SigRelay \/ Reap \/ Terminated

Spec == Init /\ [][Next]_vars

\* Each task keeps running, and open(), read() and write() return.
Fairness ==
  /\ WF_vars(Reader) /\ WF_vars(Writer) /\ WF_vars(Reap)
  /\ WF_vars(pc["arbiter"] = "reap" /\ Release("sigrelay"))

FairSpec == Spec /\ Fairness

-----------------------------------------------------------------------------
(* Properties.                                                             *)

TypeOK ==
  /\ opt \in Options
  /\ got \in Slots /\ did \in Slots /\ mem \in [Slots -> 0 .. MaxIn]
  /\ rstall \in BOOLEAN /\ wstall \in BOOLEAN /\ wmin \in Nat /\ wsp \in Nat
  /\ lock \in {Free, "reader", "writer"} /\ nospace \in Nat /\ nodata \in Nat
  /\ mwait \in BOOLEAN /\ swait \in BOOLEAN /\ xrsiz \in Nat /\ xwsiz \in Nat
  /\ done \in BOOLEAN /\ abrt \in BOOLEAN
  /\ errlog \subseteq ({"sig", "ini", "err"} \X Tasks)
  /\ pc \in [Tasks -> Locations]
  /\ pos \in 0 .. MaxIn /\ rsiz \in Nat /\ rret \in -1 .. Size
  /\ out \in Seq(0 .. MaxIn) /\ wsiz \in Nat /\ wret \in 0 .. Size
  /\ sigs \in 0 .. MaxSignals /\ ret \in {"running", "clean", "failed"}

Asleep(t, sem) == pc[t] = "wait" /\ sem = 0

\* Room the reader may fill: what it works on, or what it was handed while
\* it slept.
ReaderClaim ==
  CASE pc["reader"] \in {"read", "copy", "relock"} -> rsiz
    [] pc["reader"] = "woken" /\ ~done             -> xrsiz
    [] pc["reader"] = "wait" /\ nospace > 0 /\ ~done -> xrsiz
    [] OTHER                                       -> 0

\* Data the writer is about to take out.
WriterClaim ==
  CASE pc["writer"] \in {"fetch", "write", "relock", "ewrite"} -> wsiz
    [] pc["writer"] = "woken" /\ ~done                         -> xwsiz
    [] pc["writer"] = "wait" /\ nodata > 0 /\ ~done             -> xwsiz
    [] OTHER                                                   -> 0

\* What a task acts on after it dropped the lock, or was handed by the other
\* task, is still there when it acts: the room the reader fills never touches
\* unread data, nor the last free byte that tells a full ring from an empty
\* one, and the writer never takes more than there is.
ClaimsFit ==
  /\ ReaderClaim + Hav(got, did) < Size
  /\ WriterClaim <= Hav(got, did)

\* The wake-ups cannot be lost: the two workers never both sleep on empty
\* semaphores, whatever the block sizes and resume points.
NeverBothAsleep == ~(Asleep("reader", nospace) /\ Asleep("writer", nodata))

\* The epilogue works without the lock, so the reader must be out of its loop
\* for good, and out of it because the input ended.
EpilogueAlone ==
  pc["writer"] \in {"epi", "ewrite"} =>
    pc["reader"] \in {"post", "end"} /\ rret = 0

\* The output is the input in order, nothing lost, repeated or overwritten,
\* with zeros only behind the complete input and only in strict mode.
OutputFaithful ==
  \A i \in 1 .. Len(out) :
    \/ out[i] = i /\ i <= pos
    \/ out[i] = 0 /\ i > pos /\ rret = 0 /\ opt.strict

\* A clean verdict is given only for a complete transfer: the input ended,
\* every byte of it was delivered, and in strict mode with full writes the
\* output is a whole number of blocks, padded by less than one.
CleanMeansComplete ==
  ret = "clean" =>
    /\ rret = 0 /\ Len(out) >= pos
    /\ opt.strict /\ ~opt.shortw =>
         Len(out) % opt.wblk = 0 /\ Len(out) - pos < opt.wblk

\* The read resume point (README, "resume points for reading"): after an
\* overrun nothing is read until the fill level has dropped to it.
ReadResumes ==
  [][rstall => /\ pos' = pos
               /\ ~rstall' => Hav(got', did') <= opt.rsp]_vars

\* The write resume point: after an underrun, and at the start, nothing is
\* written until the fill level has risen to it or the epilogue begins.
WriteResumes ==
  [][wstall => /\ out' = out
               /\ ~wstall' => \/ Hav(got', did') >= opt.wsp
                              \/ pc'["writer"] = "epi"]_vars

\* The transfer is a bounded byte pipe with a verdict.
P == INSTANCE Pipe WITH Capacity <- Size - 1, taken <- pos, sent <- out,
                        eof <- (rret = 0), verdict <- ret
ImplementsPipe == P!Spec

\* Every transfer comes to an end, however it is interleaved or interrupted.
Terminates == <>(ret # "running")
=============================================================================
