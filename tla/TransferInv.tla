----------------------------- MODULE TransferInv -----------------------------
(***************************************************************************)
(* The inductive invariant of Transfer: what the two workers rely on, from *)
(* either side of the lock, for the safety properties to hold.             *)
(***************************************************************************)
EXTENDS Transfer

rpc == pc["reader"]
wpc == pc["writer"]
hav == Hav(got, did)

ReaderLocations ==
  {"open", "lock", "loop", "wait", "woken", "read", "copy", "relock", "err",
   "fin", "post", "end", "rel_done", "rel_nodata", "rel_nospace"}
WriterLocations ==
  {"open", "lock", "loop", "wait", "woken", "fetch", "write", "relock", "err",
   "fin", "post", "check", "epi", "ewrite", "end", "rel_done", "rel_nodata",
   "rel_nospace"}

\* Which task can be where, and the shape of the two bounce areas.
Placed ==
  /\ rpc \in ReaderLocations /\ wpc \in WriterLocations
  /\ pc["arbiter"] \in {"reap", "end"}
  /\ pc["sigrelay"] \in {"sigwait", "rel_done", "rel_nodata", "rel_nospace"}
  /\ rpc = "copy" /\ ~Direct(opt, got, rsiz) =>
       rchunk \in [0 .. rret - 1 -> 0 .. MaxIn]
  /\ wpc = "write" /\ ~Direct(opt, did, wsiz) =>
       wchunk \in [0 .. wsiz - 1 -> 0 .. MaxIn]

\* The mutex vars is held exactly at the top of a loop.
Mutex ==
  /\ lock = "reader" <=> rpc = "loop"
  /\ lock = "writer" <=> wpc = "loop"

\* done is set before anything that follows the loops, abrt before done
\* unless the reader ended with the input.
Shutdown ==
  /\ rpc \in {"post", "end", "rel_nodata", "rel_nospace"} => done
  /\ wpc \in {"post", "check", "epi", "ewrite", "end", "rel_nodata",
              "rel_nospace"} => done
  /\ pc["sigrelay"] \in {"rel_nodata", "rel_nospace"} => done
  /\ \A t \in Tasks : pc[t] = "rel_done" => abrt
  /\ rpc = "fin" => abrt \/ rret = 0
  /\ wpc = "fin" => abrt
  /\ done /\ ~abrt => rpc \in {"post", "end"} /\ rret = 0
  /\ wpc \in {"epi", "ewrite"} => rpc \in {"post", "end"} /\ rret = 0

\* The writer's limits are the configured ones until the epilogue lifts them.
Limits ==
  /\ wpc \notin {"epi", "ewrite", "end"} => wmin = WMin(opt) /\ wsp = opt.wsp
  /\ wpc \in {"epi", "ewrite"} => wmin = 1 /\ wsp = 0 /\ ~wstall
  /\ wmin \in {1, WMin(opt)} /\ wsp \in {0, opt.wsp}

\* Until the end, a semaphore is posted only to hand something to a sleeper
\* that asked for it, and at most once.
Handshake ==
  ~done =>
    /\ mwait => rpc = "wait"
    /\ swait => wpc = "wait"
    /\ nospace = IF rpc = "wait" /\ ~mwait THEN 1 ELSE 0
    /\ nodata  = IF wpc = "wait" /\ ~swait THEN 1 ELSE 0

\* n bytes fit and leave one free; n bytes are there.
Room(n) == n > 0 /\ n + hav < Size
Data(n) == n > 0 /\ n <= hav

\* What a worker holds on to, or was handed, is good.
Claims ==
  /\ rpc \in {"read", "copy", "relock"} => Room(rsiz)
  /\ rpc \in {"copy", "relock"} => rret > 0 /\ rret <= rsiz
  /\ ~done /\ rpc \in {"wait", "woken"} /\ ~mwait => Room(xrsiz)
  /\ wpc \in {"fetch", "write", "relock", "ewrite"} => Data(wsiz)
  /\ wpc = "relock" => wret > 0 /\ wret <= wsiz
  /\ ~done /\ wpc \in {"wait", "woken"} /\ ~swait => Data(xwsiz)

\* A worker that works neither waits nor is stalled, nor is one that was
\* handed something.
NotStalled ==
  /\ rstall => opt.rsp # 0
  /\ wstall => wsp # 0
  /\ rstall \/ mwait =>
       rpc \notin {"open", "lock", "loop", "read", "copy", "relock"}
  /\ swait => wpc \notin {"open", "lock", "loop", "fetch", "write", "relock"}
  /\ wstall => wpc \notin {"fetch", "write", "relock"}
  /\ rstall /\ rpc \in {"wait", "woken"} /\ ~done => mwait
  /\ wstall /\ wpc \in {"wait", "woken"} /\ ~done => swait

\* A sleeper has nothing to do; and if both directions are stalled, there is
\* enough for the writer to resume.
Sleepers ==
  /\ Asleep("reader", nospace) => mwait /\ GrantR(opt, Size - hav, rstall) = 0
  /\ Asleep("writer", nodata)  => swait /\ GrantW(opt, hav, wstall, wmin, wsp) = 0
  /\ Asleep("reader", nospace) /\ rstall /\ wstall => hav >= opt.wsp

IInv ==
  /\ TypeOK /\ Placed /\ Mutex /\ Shutdown /\ Limits /\ Handshake /\ Claims
  /\ NotStalled /\ Sleepers

-----------------------------------------------------------------------------
(* What the bytes are: where each byte of the input is between the read()   *)
(* that took it and the write() that delivers it.                          *)

\* Read, but not yet counted by the producer's cursor.
InFlight == IF rpc \in {"copy", "relock"} THEN rret ELSE 0

\* Those of them that are in the ring already.
Landed ==
  IF rpc = "relock" \/ (rpc = "copy" /\ Direct(opt, got, rsiz)) THEN rret ELSE 0

\* Bytes the consumer's cursor has passed.
Passed == pos - hav - InFlight

\* Written, but not yet counted by the consumer's cursor.
Ahead == IF wpc = "relock" THEN wret ELSE 0

\* The ring holds, from the consumer's cursor on, the bytes that come next.
RingHolds ==
  \A k \in 0 .. hav + Landed - 1 : mem[Mask(did + k)] = Passed + k + 1

\* So do the bounce areas: the reader's what comes behind the ring, the
\* writer's what comes first in it.
ReaderHolds ==
  rpc = "copy" /\ ~Direct(opt, got, rsiz) =>
    \A k \in 0 .. rret - 1 : rchunk[k] = Passed + hav + k + 1

WriterHolds ==
  wpc = "write" /\ ~Direct(opt, did, wsiz) =>
    \A k \in 0 .. wsiz - 1 : wchunk[k] = Passed + k + 1

\* Nothing was written but the bytes before the cursor and, with the input
\* over and the ring empty, less than a block of zeros.
Unpadded == Len(out) = Passed + Ahead
Padded ==
  /\ opt.strict /\ hav = 0 /\ rret = 0 /\ rpc \in {"post", "end"}
  /\ wpc \in {"epi", "end"}
  /\ pos < Len(out) /\ Len(out) < pos + opt.wblk

Delivered == \A i \in 1 .. Len(out) : out[i] = IF i <= pos THEN i ELSE 0

Written == (Unpadded \/ Padded) /\ Delivered

\* The epilogue writes blocks, or all that is left.
LastBlock ==
  wpc = "ewrite" => wsiz = opt.wblk \/ (wsiz < opt.wblk /\ wsiz = hav)

Content == RingHolds /\ ReaderHolds /\ WriterHolds /\ Written /\ LastBlock

\* The end of the input is seen once, and only a broken transfer is left
\* without the epilogue or with data in the ring.
Verdict ==
  /\ rret = 0 => rpc \in {"fin", "post", "end"}
  /\ abrt => errlog # {}
  /\ \A t \in {"reader", "writer"} :
       pc[t] \in {"rel_nodata", "rel_nospace"} => errlog # {}
  /\ wpc = "end" /\ errlog = {} =>
       hav = 0 /\ rret = 0 /\ rpc \in {"post", "end"}
  /\ ret # "running" => rpc = "end" /\ wpc = "end" /\ pc["arbiter"] = "end"
  /\ ret = "running" => pc["arbiter"] = "reap"
  /\ ret = "clean" => rret = 0 /\ hav = 0

\* In strict mode with full writes every write is one of a whole block.
WholeBlocks ==
  opt.strict /\ ~opt.shortw =>
    /\ Len(out) % opt.wblk = 0
    /\ wpc \in {"fetch", "write"} => wsiz = opt.wblk
    /\ ~done /\ wpc \in {"wait", "woken"} /\ ~swait => xwsiz = opt.wblk

DInv == IInv /\ Content /\ Verdict /\ WholeBlocks
=============================================================================
