--------------------------- MODULE TransferProofs ---------------------------
(***************************************************************************)
(* The safety of Transfer for every ring size, every accepted              *)
(* configuration with a block-mode reader, every input length and any      *)
(* number of signals: first the control, IInv, then the bytes, DInv, each  *)
(* with one lemma per action and one step per conjunct.  With a byte-mode  *)
(* reader (-l) ClaimsFit is false, see the run byte_reader.  At the end the *)
(* transfers of TransferCrash, whose processes may be killed.              *)
(***************************************************************************)
EXTENDS TransferInv, TransferCrash, BufferProofs

\* No configuration has the byte mode of option -l on the reader's side, which
\* with blocks of one byte changes nothing.
BlockReaders == \A o \in Options : RMin(o) = o.rblk

\* What the option checks of the program establish, for any configuration.
LEMMA OptionFacts ==
  ASSUME BlockReaders, NEW o \in Options
  PROVE  /\ Accepted(o) /\ RMin(o) = o.rblk
         /\ WMin(o) \in Nat /\ WMin(o) > 0 /\ WMin(o) <= o.wblk
         /\ o.rblk \in Nat /\ o.rblk > 0 /\ o.wblk \in Nat /\ o.wblk > 0
         /\ 2 * o.rblk < Size /\ 2 * o.wblk < Size
         /\ o.rsp \in Nat /\ o.wsp \in Nat
         /\ o.rsp # 0 => o.wblk < o.rsp /\ o.rsp < Size - o.rblk
         /\ o.wsp # 0 => o.wblk < o.wsp /\ o.wsp < Size - o.rblk
<1>1. o \in OptionType /\ ValidOptions(o)
  BY OptionsAssumption
<1>2. Accepted(o) /\ RMin(o) = o.rblk
  BY <1>1 DEF OptionType, Accepted, BlockReaders
<1>3. o.wblk \in Nat /\ o.wblk > 0
  BY <1>1 DEF ValidOptions
<1> QED BY <1>1, <1>2, <1>3 DEF ValidOptions, Accepted, WMin

\* The fill level of the current state.
LEMMA HavNow ==
  ASSUME TypeOK
  PROVE  /\ hav \in 0 .. Size - 1 /\ hav \in Nat
         /\ Hav(got, did) = hav /\ Emp(got, did) = Size - hav
BY FillLevel, SizeAssumption DEF TypeOK, hav

\* What the invariant says of the fill level and of the configuration.
LEMMA Here ==
  ASSUME BlockReaders, IInv
  PROVE  /\ hav \in 0 .. Size - 1 /\ hav \in Nat /\ Size \in Nat
         /\ Hav(got, did) = hav /\ Emp(got, did) = Size - hav
         /\ Accepted(opt) /\ RMin(opt) = opt.rblk
         /\ WMin(opt) \in Nat /\ WMin(opt) > 0 /\ WMin(opt) <= opt.wblk
         /\ opt.rblk \in Nat /\ opt.wblk \in Nat
         /\ opt.rsp \in Nat /\ opt.wsp \in Nat
         /\ opt.rsp # 0 => opt.wblk < opt.rsp /\ opt.rsp < Size - opt.rblk
         /\ opt.wsp # 0 => opt.wblk < opt.wsp /\ opt.wsp < Size - opt.rblk
BY HavNow, OptionFacts, SizeAssumption DEF IInv, TypeOK

-----------------------------------------------------------------------------
(* Steps the workers share.                                                *)

\* fd_open() preserves the invariant: a failure records abrt before done.
LEMMA OpenInv ==
  ASSUME BlockReaders, IInv, NEW t \in {"reader", "writer"}, Open(t)
  PROVE  IInv'
<1>1. /\ pc[t] = "open" /\ pc'[t] \in {"lock", "rel_done"}
      /\ pc' \in [Tasks -> Locations]
      /\ \A u \in Tasks \ {t} : pc'[u] = pc[u]
      /\ pc'[t] = "lock" => UNCHANGED ends
      /\ pc'[t] = "rel_done" => /\ abrt' = TRUE /\ done' = done
                                /\ errlog' = errlog \union {<<"ini", t>>}
  BY DEF IInv, TypeOK, Open, Goto, Record, Tasks, Locations
<1>2. /\ UNCHANGED <<opt, ring, stalls, sync, handoff, rvars, wvars, sigs, ret>>
      /\ hav' = hav
  BY DEF Open, hav, ring
<1>3. TypeOK'
  <2>1. errlog' \subseteq ({"sig", "ini", "err"} \X Tasks)
    BY <1>1 DEF IInv, TypeOK, ends, Tasks
  <2> QED BY <2>1, <1>1, <1>2 DEF IInv, TypeOK, ring, stalls, sync, handoff, ends,
                                  rvars, wvars
<1>4. Placed'
  BY <1>1, <1>2 DEF IInv, Placed, ReaderLocations, WriterLocations, ring, rvars,
                    wvars, rpc, wpc, Tasks
<1>5. Mutex'
  BY <1>1, <1>2 DEF IInv, Mutex, sync, rpc, wpc, Tasks
<1>6. Shutdown'
  BY <1>1, <1>2 DEF IInv, Shutdown, rvars, ends, rpc, wpc, Tasks
<1>7. Limits'
  BY <1>1, <1>2 DEF IInv, Limits, stalls, wpc, Tasks
<1>8. Handshake'
  BY <1>1, <1>2 DEF IInv, Handshake, sync, handoff, ends, rpc, wpc, Tasks
<1>9. Claims'
  BY <1>1, <1>2 DEF IInv, Claims, Room, Data, handoff, ends, rvars, wvars, rpc,
                    wpc, Tasks
<1>10. NotStalled'
  BY <1>1, <1>2 DEF IInv, NotStalled, stalls, handoff, ends, rpc, wpc, Tasks
<1>11. Sleepers'
  BY <1>1, <1>2 DEF IInv, Sleepers, Asleep, stalls, sync, handoff, Tasks
<1> QED BY <1>3, <1>4, <1>5, <1>6, <1>7, <1>8, <1>9, <1>10, <1>11 DEF IInv

\* Pm() preserves the invariant.
LEMMA LockInv ==
  ASSUME BlockReaders, IInv, NEW t \in {"reader", "writer"}, Lock(t)
  PROVE  IInv'
<1>1. /\ pc[t] = "lock" /\ pc'[t] = "loop"
      /\ pc' \in [Tasks -> Locations]
      /\ \A u \in Tasks \ {t} : pc'[u] = pc[u]
  BY DEF IInv, TypeOK, Lock, Goto, Tasks, Locations
<1>2. /\ lock = Free /\ lock' = t /\ UNCHANGED <<nospace, nodata>>
      /\ UNCHANGED <<opt, ring, stalls, handoff, ends, rvars, wvars, sigs, ret>>
      /\ hav' = hav
  BY DEF Lock, hav, ring
<1>3. TypeOK'
  BY <1>1, <1>2 DEF IInv, TypeOK, ring, stalls, sync, handoff, ends, rvars,
     wvars, Free, Tasks
<1>4. Placed'
  BY <1>1, <1>2 DEF IInv, Placed, ReaderLocations, WriterLocations, ring,
     rvars, wvars, rpc, wpc, Tasks
<1>5. Mutex'
  BY <1>1, <1>2 DEF IInv, Mutex, Free, sync, rpc, wpc, Tasks
<1>6. Shutdown'
  BY <1>1, <1>2 DEF IInv, Shutdown, rvars, ends, rpc, wpc, Tasks
<1>7. Limits'
  BY <1>1, <1>2 DEF IInv, Limits, stalls, wpc, Tasks
<1>8. Handshake'
  BY <1>1, <1>2 DEF IInv, Handshake, sync, handoff, ends, rpc, wpc, Tasks
<1>9. Claims'
  BY <1>1, <1>2 DEF IInv, Claims, Room, Data, handoff, ends, rvars, wvars, rpc,
     wpc, Tasks
<1>10. NotStalled'
  BY <1>1, <1>2 DEF IInv, NotStalled, stalls, handoff, ends, rpc, wpc, Tasks
<1>11. Sleepers'
  BY <1>1, <1>2 DEF IInv, Sleepers, Asleep, stalls, sync, handoff, Tasks
<1> QED BY <1>3, <1>4, <1>5, <1>6, <1>7, <1>8, <1>9, <1>10, <1>11 DEF IInv

\* The store to done in release() comes after the one to abrt.
LEMMA ReleaseDoneInv ==
  ASSUME BlockReaders, IInv, NEW t \in {"reader", "writer", "sigrelay"}, ReleaseDone(t)
  PROVE  IInv'
<1>1. /\ pc[t] = "rel_done" /\ pc'[t] \in {"rel_nodata", "sigwait"}
      /\ t # "sigrelay" => pc'[t] = "rel_nodata"
      /\ pc' \in [Tasks -> Locations]
      /\ \A u \in Tasks \ {t} : pc'[u] = pc[u]
  BY DEF IInv, TypeOK, ReleaseDone, Goto, Tasks, Locations
<1>2. /\ done' = TRUE /\ abrt' = abrt /\ errlog' = errlog
      /\ UNCHANGED <<opt, ring, stalls, sync, handoff, rvars, wvars, sigs, ret>>
      /\ hav' = hav
  BY DEF ReleaseDone, hav, ring
<1>3. TypeOK'
  BY <1>1, <1>2 DEF IInv, TypeOK, ring, stalls, sync, handoff, ends, rvars,
     wvars, Free, Tasks
<1>4. Placed'
  BY <1>1, <1>2 DEF IInv, Placed, ReaderLocations, WriterLocations, ring,
     rvars, wvars, rpc, wpc, Tasks
<1>5. Mutex'
  BY <1>1, <1>2 DEF IInv, Mutex, Free, sync, rpc, wpc, Tasks
<1>6. Shutdown'
  BY <1>1, <1>2 DEF IInv, Shutdown, rvars, ends, rpc, wpc, Tasks
<1>7. Limits'
  BY <1>1, <1>2 DEF IInv, Limits, stalls, wpc, Tasks
<1>8. Handshake'
  BY <1>1, <1>2 DEF IInv, Handshake, sync, handoff, ends, rpc, wpc, Tasks
<1>9. Claims'
  BY <1>1, <1>2 DEF IInv, Claims, Room, Data, handoff, ends, rvars, wvars, rpc,
     wpc, Tasks
<1>10. NotStalled'
  BY <1>1, <1>2 DEF IInv, NotStalled, stalls, handoff, ends, rpc, wpc, Tasks
<1>11. Sleepers'
  BY <1>1, <1>2 DEF IInv, Sleepers, Asleep, stalls, sync, handoff, Tasks
<1> QED BY <1>3, <1>4, <1>5, <1>6, <1>7, <1>8, <1>9, <1>10, <1>11 DEF IInv

\* The unconditional posts come when done is set, so they hand nothing over.
LEMMA ReleaseDataInv ==
  ASSUME BlockReaders, IInv, NEW t \in {"reader", "writer", "sigrelay"}, ReleaseData(t)
  PROVE  IInv'
<1>1. /\ pc[t] = "rel_nodata" /\ pc'[t] = "rel_nospace"
      /\ pc' \in [Tasks -> Locations]
      /\ \A u \in Tasks \ {t} : pc'[u] = pc[u]
  BY DEF IInv, TypeOK, ReleaseData, Goto, Tasks, Locations
<1>2. /\ nodata' = nodata + 1 /\ UNCHANGED <<lock, nospace>>
      /\ UNCHANGED <<opt, ring, stalls, handoff, ends, rvars, wvars, sigs, ret>>
      /\ hav' = hav
  BY DEF ReleaseData, hav, ring
<1>3. TypeOK'
  BY <1>1, <1>2 DEF IInv, TypeOK, ring, stalls, sync, handoff, ends, rvars,
     wvars, Free, Tasks
<1>4. Placed'
  BY <1>1, <1>2 DEF IInv, Placed, ReaderLocations, WriterLocations, ring,
     rvars, wvars, rpc, wpc, Tasks
<1>5. Mutex'
  BY <1>1, <1>2 DEF IInv, Mutex, Free, sync, rpc, wpc, Tasks
<1>6. Shutdown'
  BY <1>1, <1>2 DEF IInv, Shutdown, rvars, ends, rpc, wpc, Tasks
<1>7. Limits'
  BY <1>1, <1>2 DEF IInv, Limits, stalls, wpc, Tasks
<1>8. Handshake'
  BY <1>1, <1>2 DEF IInv, Handshake, sync, handoff, ends, rpc, wpc, Tasks,
     Shutdown
<1>9. Claims'
  BY <1>1, <1>2 DEF IInv, Claims, Room, Data, handoff, ends, rvars, wvars, rpc,
     wpc, Tasks
<1>10. NotStalled'
  BY <1>1, <1>2 DEF IInv, NotStalled, stalls, handoff, ends, rpc, wpc, Tasks
<1>11. Sleepers'
  BY <1>1, <1>2 DEF IInv, Sleepers, Asleep, stalls, sync, handoff, Tasks,
     TypeOK
<1> QED BY <1>3, <1>4, <1>5, <1>6, <1>7, <1>8, <1>9, <1>10, <1>11 DEF IInv

\* As ReleaseDataInv, for nospace.
LEMMA ReleaseSpaceInv ==
  ASSUME BlockReaders, IInv, NEW t \in {"reader", "writer", "sigrelay"}, ReleaseSpace(t)
  PROVE  IInv'
<1>1. /\ pc[t] = "rel_nospace" /\ pc'[t] \in {"sigwait", "end"}
      /\ t = "sigrelay" <=> pc'[t] = "sigwait"
      /\ pc' \in [Tasks -> Locations]
      /\ \A u \in Tasks \ {t} : pc'[u] = pc[u]
  BY DEF IInv, TypeOK, ReleaseSpace, Goto, Tasks, Locations
<1>2. /\ nospace' = nospace + 1 /\ UNCHANGED <<lock, nodata>>
      /\ UNCHANGED <<opt, ring, stalls, handoff, ends, rvars, wvars, sigs, ret>>
      /\ hav' = hav
  BY DEF ReleaseSpace, hav, ring
<1>3. TypeOK'
  BY <1>1, <1>2 DEF IInv, TypeOK, ring, stalls, sync, handoff, ends, rvars,
     wvars, Free, Tasks
<1>4. Placed'
  BY <1>1, <1>2 DEF IInv, Placed, ReaderLocations, WriterLocations, ring,
     rvars, wvars, rpc, wpc, Tasks
<1>5. Mutex'
  BY <1>1, <1>2 DEF IInv, Mutex, Free, sync, rpc, wpc, Tasks
<1>6. Shutdown'
  BY <1>1, <1>2 DEF IInv, Shutdown, rvars, ends, rpc, wpc, Tasks
<1>7. Limits'
  BY <1>1, <1>2 DEF IInv, Limits, stalls, wpc, Tasks
<1>8. Handshake'
  BY <1>1, <1>2 DEF IInv, Handshake, sync, handoff, ends, rpc, wpc, Tasks,
     Shutdown
<1>9. Claims'
  BY <1>1, <1>2 DEF IInv, Claims, Room, Data, handoff, ends, rvars, wvars, rpc,
     wpc, Tasks
<1>10. NotStalled'
  BY <1>1, <1>2 DEF IInv, NotStalled, stalls, handoff, ends, rpc, wpc, Tasks
<1>11. Sleepers'
  BY <1>1, <1>2 DEF IInv, Sleepers, Asleep, stalls, sync, handoff, Tasks,
     TypeOK
<1> QED BY <1>3, <1>4, <1>5, <1>6, <1>7, <1>8, <1>9, <1>10, <1>11 DEF IInv

\* A failed read() or write() records abrt, which done will follow.
LEMMA FailInv ==
  ASSUME BlockReaders, IInv, NEW t \in {"reader", "writer"}, Fail(t)
  PROVE  IInv'
<1>1. /\ pc[t] = "err" /\ pc'[t] = "fin"
      /\ pc' \in [Tasks -> Locations]
      /\ \A u \in Tasks \ {t} : pc'[u] = pc[u]
  BY DEF IInv, TypeOK, Fail, Goto, Tasks, Locations
<1>2. /\ abrt' = TRUE /\ done' = done
      /\ errlog' = errlog \union {<<"err", t>>}
      /\ UNCHANGED <<opt, ring, stalls, sync, handoff, rvars, wvars, sigs, ret>>
      /\ hav' = hav
  BY DEF Fail, Record, hav, ring
<1>3. TypeOK'
  <2>1. errlog' \subseteq ({"sig", "ini", "err"} \X Tasks)
    BY <1>2 DEF IInv, TypeOK, Tasks
  <2> QED BY <2>1, <1>1, <1>2 DEF IInv, TypeOK, ring, stalls, sync, handoff,
                                  rvars, wvars
<1>4. Placed'
  BY <1>1, <1>2 DEF IInv, Placed, ReaderLocations, WriterLocations, ring,
     rvars, wvars, rpc, wpc, Tasks
<1>5. Mutex'
  BY <1>1, <1>2 DEF IInv, Mutex, Free, sync, rpc, wpc, Tasks
<1>6. Shutdown'
  BY <1>1, <1>2 DEF IInv, Shutdown, rvars, ends, rpc, wpc, Tasks
<1>7. Limits'
  BY <1>1, <1>2 DEF IInv, Limits, stalls, wpc, Tasks
<1>8. Handshake'
  BY <1>1, <1>2 DEF IInv, Handshake, sync, handoff, ends, rpc, wpc, Tasks
<1>9. Claims'
  BY <1>1, <1>2 DEF IInv, Claims, Room, Data, handoff, ends, rvars, wvars, rpc,
     wpc, Tasks
<1>10. NotStalled'
  BY <1>1, <1>2 DEF IInv, NotStalled, stalls, handoff, ends, rpc, wpc, Tasks
<1>11. Sleepers'
  BY <1>1, <1>2 DEF IInv, Sleepers, Asleep, stalls, sync, handoff, Tasks
<1> QED BY <1>3, <1>4, <1>5, <1>6, <1>7, <1>8, <1>9, <1>10, <1>11 DEF IInv

\* done is set for a reason: the input ended, or abrt is there already.
LEMMA FinishInv ==
  ASSUME BlockReaders, IInv, NEW t \in {"reader", "writer"}, Finish(t)
  PROVE  IInv'
<1>1. /\ pc[t] = "fin" /\ pc'[t] = "post"
      /\ pc' \in [Tasks -> Locations]
      /\ \A u \in Tasks \ {t} : pc'[u] = pc[u]
  BY DEF IInv, TypeOK, Finish, Goto, Tasks, Locations
<1>2. /\ done' = TRUE /\ abrt' = abrt /\ errlog' = errlog
      /\ UNCHANGED <<opt, ring, stalls, sync, handoff, rvars, wvars, sigs, ret>>
      /\ hav' = hav
  BY DEF Finish, hav, ring
<1>3. TypeOK'
  BY <1>1, <1>2 DEF IInv, TypeOK, ring, stalls, sync, handoff, ends, rvars,
     wvars, Free, Tasks
<1>4. Placed'
  BY <1>1, <1>2 DEF IInv, Placed, ReaderLocations, WriterLocations, ring,
     rvars, wvars, rpc, wpc, Tasks
<1>5. Mutex'
  BY <1>1, <1>2 DEF IInv, Mutex, Free, sync, rpc, wpc, Tasks
<1>6. Shutdown'
  BY <1>1, <1>2 DEF IInv, Shutdown, rvars, ends, rpc, wpc, Tasks
<1>7. Limits'
  BY <1>1, <1>2 DEF IInv, Limits, stalls, wpc, Tasks
<1>8. Handshake'
  BY <1>1, <1>2 DEF IInv, Handshake, sync, handoff, ends, rpc, wpc, Tasks
<1>9. Claims'
  BY <1>1, <1>2 DEF IInv, Claims, Room, Data, handoff, ends, rvars, wvars, rpc,
     wpc, Tasks
<1>10. NotStalled'
  BY <1>1, <1>2 DEF IInv, NotStalled, stalls, handoff, ends, rpc, wpc, Tasks
<1>11. Sleepers'
  BY <1>1, <1>2 DEF IInv, Sleepers, Asleep, stalls, sync, handoff, Tasks
<1> QED BY <1>3, <1>4, <1>5, <1>6, <1>7, <1>8, <1>9, <1>10, <1>11 DEF IInv

\* The limits buf_can_w() works with.
LEMMA WriterLimits ==
  ASSUME BlockReaders, IInv
  PROVE  /\ wmin \in Nat /\ wmin > 0 /\ wmin <= opt.wblk /\ wsp \in Nat
         /\ wsp # 0 => opt.wblk < wsp
         /\ wstall => wsp # 0
         /\ wstall \in BOOLEAN
<1>1. wmin \in {1, WMin(opt)} /\ wsp \in {0, opt.wsp}
  BY DEF IInv, Limits
<1>2. opt.wblk >= 1
  BY Here
<1>3. (wstall => wsp # 0) /\ wstall \in BOOLEAN
  BY DEF IInv, TypeOK, NotStalled
<1> QED BY <1>1, <1>2, <1>3, Here

-----------------------------------------------------------------------------
(* The reader.                                                             *)

\* The reader leaves with room, or sleeps with nothing to do.
LEMMA RLoopInv ==
  ASSUME BlockReaders, IInv, RLoop
  PROVE  IInv'
<1> DEFINE n == GrantR(opt, Size - hav, rstall)
           s == StallsR(opt, Size - hav, rstall)
<1>1. rpc = "loop" /\ ~rstall /\ ~mwait
  BY DEF RLoop, Goto, rpc, IInv, NotStalled
<1>2. /\ n \in Nat
      /\ n # 0 => n > 0 /\ n + hav < Size
      /\ n = 0 => GrantR(opt, Size - hav, s) = 0
      /\ s \in BOOLEAN /\ (s => opt.rsp # 0)
      /\ n = 0 => Size - hav <= opt.rblk
  BY <1>1, Here, GrantRFits DEF IInv, TypeOK
<1>3. /\ rpc' = IF done THEN "fin" ELSE IF n = 0 THEN "wait" ELSE "read"
      /\ pc' \in [Tasks -> Locations]
      /\ \A u \in Tasks \ {"reader"} : pc'[u] = pc[u]
  BY Here DEF IInv, TypeOK, RLoop, Goto, rpc, Tasks, Locations
<1>4. /\ lock = "reader" /\ lock' = Free /\ UNCHANGED <<nospace, nodata>>
      /\ done => UNCHANGED <<rstall, mwait, rsiz>>
      /\ ~done /\ n = 0 => rstall' = s /\ mwait' = TRUE /\ UNCHANGED rsiz
      /\ ~done /\ n # 0 => rstall' = FALSE /\ rsiz' = n /\ UNCHANGED mwait
      /\ UNCHANGED <<opt, ring, wstall, wmin, wsp, swait, xrsiz, xwsiz, ends, pos,
                    rret, rchunk, wvars, sigs, ret>>
      /\ hav' = hav
  BY Here DEF RLoop, hav, ring
<1> HIDE DEF n, s
<1>5. TypeOK'
  BY <1>1, <1>2, <1>3, <1>4 DEF IInv, TypeOK, ring, stalls, sync, handoff,
     ends, rvars, wvars, Free, Tasks
<1>6. Placed'
  BY <1>1, <1>2, <1>3, <1>4 DEF IInv, Placed, ReaderLocations, WriterLocations,
     ring, rvars, wvars, rpc, wpc, Tasks
<1>7. Mutex'
  BY <1>1, <1>2, <1>3, <1>4 DEF IInv, Mutex, Free, sync, rpc, wpc, Tasks
<1>8. Shutdown'
  BY <1>1, <1>2, <1>3, <1>4 DEF IInv, Shutdown, rvars, ends, rpc, wpc, Tasks
<1>9. Limits'
  BY <1>1, <1>2, <1>3, <1>4 DEF IInv, Limits, stalls, wpc, Tasks
<1>10. Handshake'
  BY <1>1, <1>2, <1>3, <1>4 DEF IInv, Handshake, sync, handoff, ends, rpc, wpc,
     Tasks
<1>11. Claims'
  BY <1>1, <1>2, <1>3, <1>4 DEF IInv, Claims, Room, Data, handoff, ends, rvars,
     wvars, rpc, wpc, Tasks
<1>12. NotStalled'
  BY <1>1, <1>2, <1>3, <1>4 DEF IInv, NotStalled, stalls, handoff, ends, rpc,
     wpc, Tasks
<1>13. Sleepers'
  <2>1. ASSUME Asleep("reader", nospace)'
        PROVE  mwait' /\ GrantR(opt, Size - hav, rstall)' = 0 /\ n = 0
    <3>1. ~done /\ n = 0
      BY <2>1, <1>3 DEF Asleep, rpc
    <3>2. mwait' = TRUE /\ rstall' = s
      BY <3>1, <1>4
    <3> QED BY <3>1, <3>2, <1>2, <1>4
  <2>2. Asleep("writer", nodata)' =>
          swait' /\ GrantW(opt, hav, wstall, wmin, wsp)' = 0
    BY <1>3, <1>4 DEF IInv, Sleepers, Asleep, Tasks
  <2>3. ASSUME Asleep("reader", nospace)', rstall', wstall'
        PROVE  (hav >= opt.wsp)'
    BY <2>1, <2>3, <1>2, <1>4, Here DEF IInv, NotStalled, Limits
  <2> QED BY <2>1, <2>2, <2>3 DEF Sleepers
<1> QED BY <1>5, <1>6, <1>7, <1>8, <1>9, <1>10, <1>11, <1>12, <1>13 DEF IInv

\* Pb(): before the end the one post there is was a hand-over.
LEMMA RWaitInv ==
  ASSUME BlockReaders, IInv, RWait
  PROVE  IInv'
<1>1. /\ rpc = "wait" /\ rpc' = "woken"
      /\ pc' \in [Tasks -> Locations]
      /\ \A u \in Tasks \ {"reader"} : pc'[u] = pc[u]
  BY DEF IInv, TypeOK, RWait, Goto, Tasks, Locations, rpc
<1>2. /\ nospace > 0 /\ nospace' = nospace - 1 /\ UNCHANGED <<lock, nodata>>
      /\ UNCHANGED <<opt, ring, stalls, handoff, ends, rvars, wvars, sigs, ret>>
      /\ hav' = hav
  BY DEF RWait, hav, ring
<1>3. TypeOK'
  BY <1>1, <1>2 DEF IInv, TypeOK, ring, stalls, sync, handoff, ends, rvars,
     wvars, Free, Tasks
<1>4. Placed'
  BY <1>1, <1>2 DEF IInv, Placed, ReaderLocations, WriterLocations, ring,
     rvars, wvars, rpc, wpc, Tasks
<1>5. Mutex'
  BY <1>1, <1>2 DEF IInv, Mutex, Free, sync, rpc, wpc, Tasks
<1>6. Shutdown'
  BY <1>1, <1>2 DEF IInv, Shutdown, rvars, ends, rpc, wpc, Tasks
<1>7. Limits'
  BY <1>1, <1>2 DEF IInv, Limits, stalls, wpc, Tasks
<1>8. Handshake'
  BY <1>1, <1>2 DEF IInv, Handshake, sync, handoff, ends, rpc, wpc, Tasks,
     TypeOK
<1>9. Claims'
  BY <1>1, <1>2 DEF IInv, Claims, Room, Data, handoff, ends, rvars, wvars, rpc,
     wpc, Tasks
<1>10. NotStalled'
  BY <1>1, <1>2 DEF IInv, NotStalled, stalls, handoff, ends, rpc, wpc, Tasks
<1>11. Sleepers'
  BY <1>1, <1>2 DEF IInv, Sleepers, Asleep, stalls, sync, handoff, rpc, wpc,
     Tasks
<1> QED BY <1>3, <1>4, <1>5, <1>6, <1>7, <1>8, <1>9, <1>10, <1>11 DEF IInv

\* The reader that was handed xrsiz finds that room.
LEMMA RWokenInv ==
  ASSUME BlockReaders, IInv, RWoken
  PROVE  IInv'
<1>1. /\ rpc = "woken" /\ rpc' = IF done THEN "fin" ELSE "read"
      /\ pc' \in [Tasks -> Locations]
      /\ \A u \in Tasks \ {"reader"} : pc'[u] = pc[u]
  BY DEF IInv, TypeOK, RWoken, Goto, Tasks, Locations, rpc
<1>2. /\ rsiz' = IF done THEN rsiz ELSE xrsiz
      /\ UNCHANGED <<pos, rret, rchunk>>
      /\ UNCHANGED <<opt, ring, stalls, sync, handoff, ends, wvars, sigs, ret>>
      /\ hav' = hav
  BY DEF RWoken, hav, ring
<1>3. TypeOK'
  BY <1>1, <1>2 DEF IInv, TypeOK, ring, stalls, sync, handoff, ends, rvars,
     wvars, Free, Tasks
<1>4. Placed'
  BY <1>1, <1>2 DEF IInv, Placed, ReaderLocations, WriterLocations, ring,
     rvars, wvars, rpc, wpc, Tasks
<1>5. Mutex'
  BY <1>1, <1>2 DEF IInv, Mutex, Free, sync, rpc, wpc, Tasks
<1>6. Shutdown'
  BY <1>1, <1>2 DEF IInv, Shutdown, rvars, ends, rpc, wpc, Tasks
<1>7. Limits'
  BY <1>1, <1>2 DEF IInv, Limits, stalls, wpc, Tasks
<1>8. Handshake'
  BY <1>1, <1>2 DEF IInv, Handshake, sync, handoff, ends, rpc, wpc, Tasks
<1>9. Claims'
  BY <1>1, <1>2 DEF IInv, Claims, Room, Data, handoff, ends, rvars, wvars, rpc,
     wpc, Tasks, Handshake
<1>10. NotStalled'
  BY <1>1, <1>2 DEF IInv, NotStalled, stalls, handoff, ends, rpc, wpc, Tasks,
     Handshake
<1>11. Sleepers'
  BY <1>1, <1>2 DEF IInv, Sleepers, Asleep, stalls, sync, handoff, rpc, wpc,
     Tasks
<1> QED BY <1>3, <1>4, <1>5, <1>6, <1>7, <1>8, <1>9, <1>10, <1>11 DEF IInv

\* A chunk of n consecutive bytes of the input, behind byte number p.
LEMMA InputType ==
  ASSUME NEW p \in Nat, NEW n \in Nat, p + n <= MaxIn
  PROVE  [k \in 0 .. n - 1 |-> p + k + 1] \in [0 .. n - 1 -> 0 .. MaxIn]
BY BoundsAssumption

\* read() fills at most the room the reader holds.
LEMMA RReadInv ==
  ASSUME BlockReaders, IInv, RRead
  PROVE  IInv'
<1>1. /\ rpc = "read"
      /\ rpc' \in {"copy", "fin", "err"}
      /\ pc' \in [Tasks -> Locations]
      /\ \A u \in Tasks \ {"reader"} : pc'[u] = pc[u]
  BY DEF IInv, TypeOK, RRead, Goto, Tasks, Locations, rpc
<1>2. rsiz \in Nat /\ rsiz > 0 /\ rsiz + hav < Size
  BY <1>1 DEF IInv, TypeOK, Claims, Room
<1>3. /\ rpc' # "copy" => rret' \in {0, -1} /\ rsiz' = 0 /\ UNCHANGED <<mem, pos, rchunk>>
      /\ rpc' = "fin" => rret' = 0
      /\ rpc' = "copy" => rret' \in Nat /\ 0 < rret' /\ rret' <= rsiz /\ rsiz' = rsiz
      /\ pos' \in 0 .. MaxIn
      /\ mem' \in [Slots -> 0 .. MaxIn]
      /\ rpc' = "copy" /\ ~Direct(opt, got, rsiz) =>
           rchunk' \in [0 .. rret' - 1 -> 0 .. MaxIn]
  <2>1. ASSUME NEW n \in 1 .. Least(rsiz, MaxIn - pos),
               LET c == [k \in 0 .. n - 1 |-> pos + k + 1]
               IN  IF Direct(opt, got, rsiz)
                   THEN mem' = Store(opt, mem, got, n, c) /\ rchunk' = NoChunk
                   ELSE rchunk' = c /\ UNCHANGED mem,
               rpc' = "copy", pos' = pos + n, rret' = n, rsiz' = rsiz
        PROVE  <1>3!:
    <3>1. n \in Nat /\ 0 < n /\ n <= rsiz /\ pos \in Nat /\ pos + n <= MaxIn
      BY <1>2, BoundsAssumption DEF Least, IInv, TypeOK
    <3>2. [k \in 0 .. n - 1 |-> pos + k + 1] \in [0 .. n - 1 -> 0 .. MaxIn]
      BY <3>1, InputType
    <3>3. mem' \in [Slots -> 0 .. MaxIn]
      <4>1. CASE Direct(opt, got, rsiz)
        <5>1. mem' = Store(opt, mem, got, n, [k \in 0 .. n - 1 |-> pos + k + 1])
          BY <2>1, <4>1
        <5> QED BY <5>1, <3>1, <3>2, StoreType DEF IInv, TypeOK
      <4>2. CASE ~Direct(opt, got, rsiz)
        BY <2>1, <4>2 DEF IInv, TypeOK
      <4> QED BY <4>1, <4>2
    <3> QED BY <2>1, <3>1, <3>2, <3>3, BoundsAssumption
  <2>2. ASSUME rpc' \in {"fin", "err"}, rret' = IF rpc' = "fin" THEN 0 ELSE -1,
               rsiz' = 0, UNCHANGED <<mem, pos, rchunk>>
        PROVE  <1>3!:
    BY <2>2 DEF IInv, TypeOK
  <2> QED BY <2>1, <2>2, <1>1 DEF RRead, Goto, rpc, ring, IInv, TypeOK, Tasks
<1>4. /\ UNCHANGED <<opt, got, did, stalls, sync, handoff, ends, wvars, sigs, ret>>
      /\ hav' = hav
  BY DEF RRead, hav, ring
<1>5. TypeOK'
  <2>1. rret' \in -1 .. Size /\ rsiz' \in Nat
    BY <1>1, <1>2, <1>3, Here
  <2> QED BY <2>1, <1>1, <1>3, <1>4 DEF IInv, TypeOK, stalls, sync, handoff, ends,
                                        wvars
<1>6. Placed'
  BY <1>1, <1>3, <1>4 DEF IInv, Placed, ReaderLocations, WriterLocations, wvars,
                          rpc, wpc, Tasks
<1>7. Mutex'
  BY <1>1, <1>2, <1>3, <1>4 DEF IInv, Mutex, Free, sync, rpc, wpc, Tasks
<1>8. Shutdown'
  BY <1>1, <1>2, <1>3, <1>4 DEF IInv, Shutdown, rvars, ends, rpc, wpc, Tasks
<1>9. Limits'
  BY <1>1, <1>2, <1>3, <1>4 DEF IInv, Limits, stalls, wpc, Tasks
<1>10. Handshake'
  BY <1>1, <1>2, <1>3, <1>4 DEF IInv, Handshake, sync, handoff, ends, rpc, wpc,
     Tasks
<1>11. Claims'
  BY <1>1, <1>2, <1>3, <1>4 DEF IInv, Claims, Room, Data, handoff, ends, rvars,
     wvars, rpc, wpc, Tasks
<1>12. NotStalled'
  BY <1>1, <1>2, <1>3, <1>4 DEF IInv, NotStalled, stalls, handoff, ends, rpc,
     wpc, Tasks
<1>13. Sleepers'
  BY <1>1, <1>2, <1>3, <1>4 DEF IInv, Sleepers, Asleep, stalls, sync, handoff,
     rpc, wpc, Tasks
<1> QED BY <1>5, <1>6, <1>7, <1>8, <1>9, <1>10, <1>11, <1>12, <1>13 DEF IInv

\* A bounced chunk is bytes of the input.
LEMMA RCommitInv ==
  ASSUME BlockReaders, IInv, RCommit
  PROVE  IInv'
<1>1. /\ rpc = "copy" /\ rpc' = "relock"
      /\ pc' \in [Tasks -> Locations]
      /\ \A u \in Tasks \ {"reader"} : pc'[u] = pc[u]
  BY DEF IInv, TypeOK, RCommit, Goto, Tasks, Locations, rpc
<1>2. mem' \in [Slots -> 0 .. MaxIn]
  <2>1. CASE Direct(opt, got, rsiz)
    BY <2>1 DEF RCommit, IInv, TypeOK
  <2>2. CASE ~Direct(opt, got, rsiz)
    <3>1. rret \in Nat /\ rchunk \in [0 .. rret - 1 -> 0 .. MaxIn]
      BY <2>2, <1>1 DEF IInv, TypeOK, Placed, Claims
    <3>2. mem' = BounceIn(mem, got, rret, rchunk)
      BY <2>2 DEF RCommit
    <3> QED BY <3>1, <3>2, BounceInType DEF IInv, TypeOK
  <2> QED BY <2>1, <2>2
<1>3. /\ rchunk' = NoChunk /\ UNCHANGED <<got, did, pos, rsiz, rret>>
      /\ UNCHANGED <<opt, stalls, sync, handoff, ends, wvars, sigs, ret>>
      /\ hav' = hav
  BY DEF RCommit, hav
<1>4. TypeOK'
  BY <1>1, <1>2, <1>3 DEF IInv, TypeOK, ring, stalls, sync, handoff, ends,
     rvars, wvars, Free, Tasks
<1>5. Placed'
  BY <1>1, <1>2, <1>3 DEF IInv, Placed, ReaderLocations, WriterLocations, ring,
     rvars, wvars, rpc, wpc, Tasks
<1>6. Mutex'
  BY <1>1, <1>2, <1>3 DEF IInv, Mutex, Free, sync, rpc, wpc, Tasks
<1>7. Shutdown'
  BY <1>1, <1>2, <1>3 DEF IInv, Shutdown, rvars, ends, rpc, wpc, Tasks
<1>8. Limits'
  BY <1>1, <1>2, <1>3 DEF IInv, Limits, stalls, wpc, Tasks
<1>9. Handshake'
  BY <1>1, <1>2, <1>3 DEF IInv, Handshake, sync, handoff, ends, rpc, wpc, Tasks
<1>10. Claims'
  BY <1>1, <1>2, <1>3 DEF IInv, Claims, Room, Data, handoff, ends, rvars,
     wvars, rpc, wpc, Tasks
<1>11. NotStalled'
  BY <1>1, <1>2, <1>3 DEF IInv, NotStalled, stalls, handoff, ends, rpc, wpc,
     Tasks
<1>12. Sleepers'
  BY <1>1, <1>2, <1>3 DEF IInv, Sleepers, Asleep, stalls, sync, handoff, rpc,
     wpc, Tasks
<1> QED BY <1>4, <1>5, <1>6, <1>7, <1>8, <1>9, <1>10, <1>11, <1>12 DEF IInv

\* The new data are data, and the writer is woken if they suffice.
LEMMA RAdvanceInv ==
  ASSUME BlockReaders, IInv, RAdvance
  PROVE  IInv'
<1> DEFINE m == GrantW(opt, hav', wstall, wmin, wsp)
           s == StallsW(opt, hav', wstall, wmin, wsp)
<1>1. /\ rpc = "relock" /\ rpc' = "loop"
      /\ pc' \in [Tasks -> Locations]
      /\ \A u \in Tasks \ {"reader"} : pc'[u] = pc[u]
  BY DEF IInv, TypeOK, RAdvance, Goto, Tasks, Locations, rpc
<1>2. rret \in Nat /\ rret > 0 /\ rret + hav < Size
  BY <1>1, Here DEF IInv, TypeOK, Claims, Room
<1>3. got' \in Slots /\ hav' = hav + rret /\ hav' \in 0 .. Size - 1
  <2>1. got' = Mask(got + rret) /\ did' = did
    BY <1>1 DEF RAdvance
  <2>2. got \in Slots /\ did \in Slots /\ hav \in Nat /\ Size \in Nat
    BY Here DEF IInv, TypeOK
  <2>3. Mask(got + rret) \in Slots /\ Hav(Mask(got + rret), did) = hav + rret
    BY <1>2, <2>2, FillRises DEF hav
  <2>4. got' \in Slots /\ hav' = hav + rret
    BY <2>1, <2>3 DEF hav
  <2> HIDE DEF hav
  <2> QED BY <1>2, <2>2, <2>4
<1>4. /\ m \in Nat
      /\ m # 0 => m > 0 /\ m <= hav'
      /\ m = 0 => GrantW(opt, hav', s, wmin, wsp) = 0
      /\ s \in BOOLEAN /\ (s => wsp # 0)
  <2>1. /\ wmin \in Nat /\ wmin > 0 /\ wmin <= opt.wblk /\ wsp \in Nat
        /\ (wsp # 0 => opt.wblk < wsp) /\ (wstall => wsp # 0) /\ wstall \in BOOLEAN
    BY WriterLimits
  <2>2. Accepted(opt)
    BY Here
  <2> QED BY <2>1, <2>2, <1>3, GrantWThere
<1>5. /\ lock = Free /\ lock' = "reader"
      /\ ~swait => UNCHANGED <<wstall, swait, xwsiz, nodata>>
      /\ swait /\ m = 0 => wstall' = s /\ UNCHANGED <<swait, xwsiz, nodata>>
      /\ swait /\ m # 0 => /\ wstall' = FALSE /\ swait' = FALSE /\ xwsiz' = m
                        /\ nodata' = nodata + 1
      /\ rsiz' = 0 /\ rret' = 1 /\ UNCHANGED <<pos, rchunk>>
      /\ UNCHANGED <<opt, did, mem, rstall, wmin, wsp, nospace, mwait, xrsiz, ends,
                    wvars, sigs, ret>>
  BY <1>3, Here DEF RAdvance, WakeWriter, hav
<1> HIDE DEF m, s
<1>6. TypeOK'
  <2>1. xwsiz' \in Nat /\ nodata' \in Nat
    BY <1>4, <1>5 DEF IInv, TypeOK
  <2>3. wstall' \in BOOLEAN /\ swait' \in BOOLEAN
    BY <1>4, <1>5 DEF IInv, TypeOK
  <2>2. rret' \in -1 .. Size
    BY <1>5, Here
  <2> QED BY <2>1, <2>2, <2>3, <1>1, <1>3, <1>5 DEF IInv, TypeOK, ends, wvars
<1>7. Placed'
  BY <1>1, <1>2, <1>3, <1>4, <1>5 DEF IInv, Placed, ReaderLocations,
     WriterLocations, ring, rvars, wvars, rpc, wpc, Tasks
<1>8. Mutex'
  BY <1>1, <1>2, <1>3, <1>4, <1>5 DEF IInv, Mutex, Free, sync, rpc, wpc, Tasks
<1>9. Shutdown'
  BY <1>1, <1>2, <1>3, <1>4, <1>5 DEF IInv, Shutdown, rvars, ends, rpc, wpc,
     Tasks
<1>10. Limits'
  BY <1>1, <1>2, <1>3, <1>4, <1>5 DEF IInv, Limits, stalls, wpc, Tasks
<1>11. Handshake'
  BY <1>1, <1>2, <1>3, <1>4, <1>5 DEF IInv, Handshake, sync, handoff, ends,
     rpc, wpc, Tasks, TypeOK
<1>12. Claims'
  <2>1. hav' >= hav /\ hav \in Nat /\ hav' \in Nat
    BY <1>2, <1>3, Here
  <2>2. /\ wpc \in {"fetch", "write", "relock", "ewrite"} => Data(wsiz)'
        /\ wpc = "relock" => wret > 0 /\ wret <= wsiz
    BY <2>1, <1>5 DEF IInv, TypeOK, Claims, Data, wvars
  <2>3. ~done /\ wpc \in {"wait", "woken"} /\ ~swait' => Data(xwsiz)'
    BY <2>1, <1>4, <1>5 DEF IInv, TypeOK, Claims, Data
  <2> QED BY <2>2, <2>3, <1>1, <1>5 DEF Claims, ends, wvars, rpc, wpc, Tasks
<1>13. NotStalled'
  BY <1>1, <1>2, <1>3, <1>4, <1>5 DEF IInv, NotStalled, stalls, handoff, ends,
     rpc, wpc, Tasks, Handshake
<1>14. Sleepers'
  BY <1>1, <1>2, <1>3, <1>4, <1>5 DEF IInv, Sleepers, Asleep, stalls, sync,
     handoff, rpc, wpc, Tasks, NotStalled, TypeOK
<1> QED BY <1>6, <1>7, <1>8, <1>9, <1>10, <1>11, <1>12, <1>13, <1>14 DEF IInv

\* The last post of the reader comes after done.
LEMMA RPostInv ==
  ASSUME BlockReaders, IInv, RPost
  PROVE  IInv'
<1>1. /\ rpc = "post" /\ rpc' = "end"
      /\ pc' \in [Tasks -> Locations]
      /\ \A u \in Tasks \ {"reader"} : pc'[u] = pc[u]
  BY DEF IInv, TypeOK, RPost, Goto, Tasks, Locations, rpc
<1>2. /\ nodata' = nodata + 1 /\ UNCHANGED <<lock, nospace>>
      /\ UNCHANGED <<opt, ring, stalls, handoff, ends, rvars, wvars, sigs, ret>>
      /\ hav' = hav
  BY DEF RPost, hav, ring
<1>3. TypeOK'
  BY <1>1, <1>2 DEF IInv, TypeOK, ring, stalls, sync, handoff, ends, rvars,
     wvars, Free, Tasks
<1>4. Placed'
  BY <1>1, <1>2 DEF IInv, Placed, ReaderLocations, WriterLocations, ring,
     rvars, wvars, rpc, wpc, Tasks
<1>5. Mutex'
  BY <1>1, <1>2 DEF IInv, Mutex, Free, sync, rpc, wpc, Tasks
<1>6. Shutdown'
  BY <1>1, <1>2 DEF IInv, Shutdown, rvars, ends, rpc, wpc, Tasks
<1>7. Limits'
  BY <1>1, <1>2 DEF IInv, Limits, stalls, wpc, Tasks
<1>8. Handshake'
  BY <1>1, <1>2 DEF IInv, Handshake, sync, handoff, ends, rpc, wpc, Tasks,
     Shutdown
<1>9. Claims'
  BY <1>1, <1>2 DEF IInv, Claims, Room, Data, handoff, ends, rvars, wvars, rpc,
     wpc, Tasks
<1>10. NotStalled'
  BY <1>1, <1>2 DEF IInv, NotStalled, stalls, handoff, ends, rpc, wpc, Tasks
<1>11. Sleepers'
  BY <1>1, <1>2 DEF IInv, Sleepers, Asleep, stalls, sync, handoff, rpc, wpc,
     Tasks, TypeOK
<1> QED BY <1>3, <1>4, <1>5, <1>6, <1>7, <1>8, <1>9, <1>10, <1>11 DEF IInv

-----------------------------------------------------------------------------
(* The writer.                                                             *)

\* The writer leaves with data, or sleeps with nothing to do.
LEMMA WLoopInv ==
  ASSUME BlockReaders, IInv, WLoop
  PROVE  IInv'
<1> DEFINE m == GrantW(opt, hav, wstall, wmin, wsp)
           s == StallsW(opt, hav, wstall, wmin, wsp)
<1>1. wpc = "loop" /\ ~swait
  BY DEF WLoop, Goto, wpc, IInv, NotStalled
<1>2. /\ m \in Nat
      /\ m # 0 => m > 0 /\ m <= hav
      /\ m = 0 => GrantW(opt, hav, s, wmin, wsp) = 0
      /\ s \in BOOLEAN /\ (s => wsp # 0)
      /\ m = 0 /\ ~wstall => hav < opt.wblk
  BY <1>1, Here, WriterLimits, GrantWThere
<1>3. /\ wpc' = IF done THEN "post" ELSE IF m = 0 THEN "wait" ELSE "fetch"
      /\ pc' \in [Tasks -> Locations]
      /\ \A u \in Tasks \ {"writer"} : pc'[u] = pc[u]
  BY Here DEF IInv, TypeOK, WLoop, Goto, wpc, Tasks, Locations
<1>4. /\ lock = "writer" /\ lock' = Free /\ UNCHANGED <<nospace, nodata>>
      /\ done => UNCHANGED <<wstall, swait, wsiz>>
      /\ ~done /\ m = 0 => wstall' = s /\ swait' = TRUE /\ UNCHANGED wsiz
      /\ ~done /\ m # 0 => wstall' = FALSE /\ wsiz' = m /\ UNCHANGED swait
      /\ UNCHANGED <<opt, ring, rstall, wmin, wsp, mwait, xrsiz, xwsiz, ends, rvars,
                    out, wret, wchunk, sigs, ret>>
      /\ hav' = hav
  BY Here DEF WLoop, hav, ring
<1> HIDE DEF m, s
<1>5. TypeOK'
  BY <1>1, <1>2, <1>3, <1>4 DEF IInv, TypeOK, ring, stalls, sync, handoff,
     ends, rvars, wvars, Free, Tasks
<1>6. Placed'
  BY <1>1, <1>2, <1>3, <1>4 DEF IInv, Placed, ReaderLocations, WriterLocations,
     ring, rvars, wvars, rpc, wpc, Tasks
<1>7. Mutex'
  BY <1>1, <1>2, <1>3, <1>4 DEF IInv, Mutex, Free, sync, rpc, wpc, Tasks
<1>8. Shutdown'
  BY <1>1, <1>2, <1>3, <1>4 DEF IInv, Shutdown, rvars, ends, rpc, wpc, Tasks,
     rpc
<1>9. Limits'
  BY <1>1, <1>2, <1>3, <1>4 DEF IInv, Limits, stalls, wpc, Tasks
<1>10. Handshake'
  BY <1>1, <1>2, <1>3, <1>4 DEF IInv, Handshake, sync, handoff, ends, rpc, wpc,
     Tasks
<1>11. Claims'
  BY <1>1, <1>2, <1>3, <1>4 DEF IInv, Claims, Room, Data, handoff, ends, rvars,
     wvars, rpc, wpc, Tasks
<1>12. NotStalled'
  BY <1>1, <1>2, <1>3, <1>4 DEF IInv, NotStalled, stalls, handoff, ends, rpc,
     wpc, Tasks
<1>13. Sleepers'
  <2>1. Asleep("reader", nospace)' => mwait' /\ GrantR(opt, Size - hav, rstall)' = 0
    BY <1>3, <1>4 DEF IInv, Sleepers, Asleep, Tasks
  <2>2. ASSUME Asleep("writer", nodata)'
        PROVE  swait' /\ GrantW(opt, hav, wstall, wmin, wsp)' = 0
    <3>1. ~done /\ m = 0
      BY <2>2, <1>3 DEF Asleep, wpc
    <3>2. swait' = TRUE /\ wstall' = s
      BY <3>1, <1>4
    <3> QED BY <3>1, <3>2, <1>2, <1>4
  <2>3. ASSUME Asleep("reader", nospace)', rstall', wstall'
        PROVE  (hav >= opt.wsp)'
    <3>1. /\ Asleep("reader", nospace) /\ rstall
          /\ GrantR(opt, Size - hav, rstall) = 0
      BY <2>3, <1>3, <1>4 DEF IInv, Sleepers, Asleep, Tasks
    <3>2. CASE wstall
      BY <3>1, <3>2, <1>4 DEF IInv, Sleepers
    <3>3. CASE ~wstall
      <4>1. opt.rsp # 0 /\ hav > opt.rsp
        BY <3>1, Here, GrantRFits DEF IInv, TypeOK, NotStalled
      <4>2. m = 0
        BY <2>3, <3>3, <1>4
      <4> QED BY <4>1, <4>2, <3>3, <1>2, Here
    <3> QED BY <3>2, <3>3
  <2> QED BY <2>1, <2>2, <2>3 DEF Sleepers
<1> QED BY <1>5, <1>6, <1>7, <1>8, <1>9, <1>10, <1>11, <1>12, <1>13 DEF IInv

\* Pb(), on the other side.
LEMMA WWaitInv ==
  ASSUME BlockReaders, IInv, WWait
  PROVE  IInv'
<1>1. /\ wpc = "wait" /\ wpc' = "woken"
      /\ pc' \in [Tasks -> Locations]
      /\ \A u \in Tasks \ {"writer"} : pc'[u] = pc[u]
  BY DEF IInv, TypeOK, WWait, Goto, Tasks, Locations, wpc
<1>2. /\ nodata > 0 /\ nodata' = nodata - 1 /\ UNCHANGED <<lock, nospace>>
      /\ UNCHANGED <<opt, ring, stalls, handoff, ends, rvars, wvars, sigs, ret>>
      /\ hav' = hav
  BY DEF WWait, hav, ring
<1>3. TypeOK'
  BY <1>1, <1>2 DEF IInv, TypeOK, ring, stalls, sync, handoff, ends, rvars,
     wvars, Free, Tasks
<1>4. Placed'
  BY <1>1, <1>2 DEF IInv, Placed, ReaderLocations, WriterLocations, ring,
     rvars, wvars, rpc, wpc, Tasks
<1>5. Mutex'
  BY <1>1, <1>2 DEF IInv, Mutex, Free, sync, rpc, wpc, Tasks
<1>6. Shutdown'
  BY <1>1, <1>2 DEF IInv, Shutdown, rvars, ends, rpc, wpc, Tasks
<1>7. Limits'
  BY <1>1, <1>2 DEF IInv, Limits, stalls, wpc, Tasks
<1>8. Handshake'
  BY <1>1, <1>2 DEF IInv, Handshake, sync, handoff, ends, rpc, wpc, Tasks,
     TypeOK
<1>9. Claims'
  BY <1>1, <1>2 DEF IInv, Claims, Room, Data, handoff, ends, rvars, wvars, rpc,
     wpc, Tasks
<1>10. NotStalled'
  BY <1>1, <1>2 DEF IInv, NotStalled, stalls, handoff, ends, rpc, wpc, Tasks
<1>11. Sleepers'
  BY <1>1, <1>2 DEF IInv, Sleepers, Asleep, stalls, sync, handoff, rpc, wpc,
     Tasks
<1> QED BY <1>3, <1>4, <1>5, <1>6, <1>7, <1>8, <1>9, <1>10, <1>11 DEF IInv

\* The writer that was handed xwsiz finds those data.
LEMMA WWokenInv ==
  ASSUME BlockReaders, IInv, WWoken
  PROVE  IInv'
<1>1. /\ wpc = "woken" /\ wpc' = IF done THEN "post" ELSE "fetch"
      /\ pc' \in [Tasks -> Locations]
      /\ \A u \in Tasks \ {"writer"} : pc'[u] = pc[u]
  BY DEF IInv, TypeOK, WWoken, Goto, Tasks, Locations, wpc
<1>2. /\ wsiz' = IF done THEN wsiz ELSE xwsiz
      /\ UNCHANGED <<out, wret, wchunk>>
      /\ UNCHANGED <<opt, ring, stalls, sync, handoff, ends, rvars, sigs, ret>>
      /\ hav' = hav
  BY DEF WWoken, hav, ring
<1>3. TypeOK'
  BY <1>1, <1>2 DEF IInv, TypeOK, ring, stalls, sync, handoff, ends, rvars,
     wvars, Free, Tasks
<1>4. Placed'
  BY <1>1, <1>2 DEF IInv, Placed, ReaderLocations, WriterLocations, ring,
     rvars, wvars, rpc, wpc, Tasks
<1>5. Mutex'
  BY <1>1, <1>2 DEF IInv, Mutex, Free, sync, rpc, wpc, Tasks
<1>6. Shutdown'
  BY <1>1, <1>2 DEF IInv, Shutdown, rvars, ends, rpc, wpc, Tasks
<1>7. Limits'
  BY <1>1, <1>2 DEF IInv, Limits, stalls, wpc, Tasks
<1>8. Handshake'
  BY <1>1, <1>2 DEF IInv, Handshake, sync, handoff, ends, rpc, wpc, Tasks
<1>9. Claims'
  BY <1>1, <1>2 DEF IInv, Claims, Room, Data, handoff, ends, rvars, wvars, rpc,
     wpc, Tasks, Handshake
<1>10. NotStalled'
  BY <1>1, <1>2 DEF IInv, NotStalled, stalls, handoff, ends, rpc, wpc, Tasks,
     Handshake
<1>11. Sleepers'
  BY <1>1, <1>2 DEF IInv, Sleepers, Asleep, stalls, sync, handoff, rpc, wpc,
     Tasks
<1> QED BY <1>3, <1>4, <1>5, <1>6, <1>7, <1>8, <1>9, <1>10, <1>11 DEF IInv

\* A bounced chunk is a chunk of the ring.
LEMMA WFetchInv ==
  ASSUME BlockReaders, IInv, WFetch
  PROVE  IInv'
<1>1. /\ wpc = "fetch" /\ wpc' = "write"
      /\ pc' \in [Tasks -> Locations]
      /\ \A u \in Tasks \ {"writer"} : pc'[u] = pc[u]
  BY DEF IInv, TypeOK, WFetch, Goto, Tasks, Locations, wpc
<1>2. ~Direct(opt, did, wsiz) => wchunk' \in [0 .. wsiz - 1 -> 0 .. MaxIn]
  <2> SUFFICES ASSUME ~Direct(opt, did, wsiz)
               PROVE  wchunk' \in [0 .. wsiz - 1 -> 0 .. MaxIn]
    OBVIOUS
  <2>1. wsiz \in Nat /\ wsiz <= Size
    BY <1>1, Here DEF IInv, TypeOK, Claims, Data
  <2> QED BY <2>1, BounceOutType DEF WFetch, IInv, TypeOK
<1>3. /\ UNCHANGED <<out, wsiz, wret>>
      /\ UNCHANGED <<opt, ring, stalls, sync, handoff, ends, rvars, sigs, ret>>
      /\ hav' = hav
  BY DEF WFetch, hav, ring
<1>4. TypeOK'
  BY <1>1, <1>2, <1>3 DEF IInv, TypeOK, ring, stalls, sync, handoff, ends,
     rvars, wvars, Free, Tasks
<1>5. Placed'
  BY <1>1, <1>2, <1>3 DEF IInv, Placed, ReaderLocations, WriterLocations, ring,
     rvars, wvars, rpc, wpc, Tasks
<1>6. Mutex'
  BY <1>1, <1>2, <1>3 DEF IInv, Mutex, Free, sync, rpc, wpc, Tasks
<1>7. Shutdown'
  BY <1>1, <1>2, <1>3 DEF IInv, Shutdown, rvars, ends, rpc, wpc, Tasks
<1>8. Limits'
  BY <1>1, <1>2, <1>3 DEF IInv, Limits, stalls, wpc, Tasks
<1>9. Handshake'
  BY <1>1, <1>2, <1>3 DEF IInv, Handshake, sync, handoff, ends, rpc, wpc, Tasks
<1>10. Claims'
  BY <1>1, <1>2, <1>3 DEF IInv, Claims, Room, Data, handoff, ends, rvars,
     wvars, rpc, wpc, Tasks
<1>11. NotStalled'
  BY <1>1, <1>2, <1>3 DEF IInv, NotStalled, stalls, handoff, ends, rpc, wpc,
     Tasks
<1>12. Sleepers'
  BY <1>1, <1>2, <1>3 DEF IInv, Sleepers, Asleep, stalls, sync, handoff, rpc,
     wpc, Tasks
<1> QED BY <1>4, <1>5, <1>6, <1>7, <1>8, <1>9, <1>10, <1>11, <1>12 DEF IInv

\* write() takes at most the data the writer holds.
LEMMA WWriteInv ==
  ASSUME BlockReaders, IInv, WWrite
  PROVE  IInv'
<1>1. /\ wpc = "write"
      /\ wpc' \in {"relock", "err"}
      /\ pc' \in [Tasks -> Locations]
      /\ \A u \in Tasks \ {"writer"} : pc'[u] = pc[u]
  BY DEF IInv, TypeOK, WWrite, Goto, Tasks, Locations, wpc
<1>2. wsiz \in Nat /\ wsiz > 0 /\ wsiz <= hav
  BY <1>1, Here DEF IInv, TypeOK, Claims, Data
<1>3. /\ wpc' = "relock" => wsiz' = wsiz /\ wret' \in Nat /\ 0 < wret' /\ wret' <= wsiz
      /\ wpc' = "err" => wsiz' = 0 /\ wret' = wret
      /\ out' \in Seq(0 .. MaxIn)
  <2> DEFINE c == IF Direct(opt, did, wsiz) THEN Load(opt, mem, did, wsiz)
                  ELSE wchunk
  <2>1. c \in [0 .. wsiz - 1 -> 0 .. MaxIn]
    BY <1>1, <1>2, LoadType DEF IInv, TypeOK, Placed
  <2> HIDE DEF c
  <2>2. ASSUME NEW n \in Taken(opt, wsiz), wpc' = "relock", wret' = n, wsiz' = wsiz,
               out' = out \o AsSeq(c, n)
        PROVE  <1>3!:
    <3>1. n \in Nat /\ 0 < n /\ n <= wsiz
      BY <1>2 DEF Taken
    <3>2. AsSeq(c, n) \in Seq(0 .. MaxIn)
      BY <2>1, <3>1, <1>2, AsSeqType
    <3> QED BY <2>2, <3>1, <3>2 DEF IInv, TypeOK
  <2>3. ASSUME wpc' = "err", wsiz' = 0, UNCHANGED <<out, wret>>
        PROVE  <1>3!:
    BY <2>3 DEF IInv, TypeOK
  <2> QED BY <2>2, <2>3, <1>1 DEF WWrite, Emit, c, Goto, wpc, IInv, TypeOK, Tasks
<1>4. /\ UNCHANGED <<opt, ring, stalls, sync, handoff, ends, rvars, sigs, ret>>
      /\ hav' = hav
  BY DEF WWrite, hav, ring
<1>5. TypeOK'
  <2>1. wret' \in 0 .. Size /\ wsiz' \in Nat
    <3>1. CASE wpc' = "relock"
      BY <3>1, <1>2, <1>3, Here
    <3>2. CASE wpc' = "err"
      BY <3>2, <1>3 DEF IInv, TypeOK
    <3> QED BY <3>1, <3>2, <1>1
  <2> QED BY <2>1, <1>1, <1>3, <1>4 DEF IInv, TypeOK, ring, stalls, sync, handoff,
                                        ends, rvars
<1>6. Placed'
  BY <1>1, <1>2, <1>3, <1>4 DEF IInv, Placed, ReaderLocations, WriterLocations,
     ring, rvars, wvars, rpc, wpc, Tasks
<1>7. Mutex'
  BY <1>1, <1>2, <1>3, <1>4 DEF IInv, Mutex, Free, sync, rpc, wpc, Tasks
<1>8. Shutdown'
  BY <1>1, <1>2, <1>3, <1>4 DEF IInv, Shutdown, rvars, ends, rpc, wpc, Tasks
<1>9. Limits'
  BY <1>1, <1>2, <1>3, <1>4 DEF IInv, Limits, stalls, wpc, Tasks
<1>10. Handshake'
  BY <1>1, <1>2, <1>3, <1>4 DEF IInv, Handshake, sync, handoff, ends, rpc, wpc,
     Tasks
<1>11. Claims'
  BY <1>1, <1>2, <1>3, <1>4 DEF IInv, Claims, Room, Data, handoff, ends, rvars,
     wvars, rpc, wpc, Tasks
<1>12. NotStalled'
  BY <1>1, <1>2, <1>3, <1>4 DEF IInv, NotStalled, stalls, handoff, ends, rpc,
     wpc, Tasks
<1>13. Sleepers'
  BY <1>1, <1>2, <1>3, <1>4 DEF IInv, Sleepers, Asleep, stalls, sync, handoff,
     rpc, wpc, Tasks
<1> QED BY <1>5, <1>6, <1>7, <1>8, <1>9, <1>10, <1>11, <1>12, <1>13 DEF IInv

\* The new room is room, and the reader is woken if it suffices.
LEMMA WAdvanceInv ==
  ASSUME BlockReaders, IInv, WAdvance
  PROVE  IInv'
<1> DEFINE n == GrantR(opt, Size - hav', rstall)
           s == StallsR(opt, Size - hav', rstall)
<1>1. /\ wpc = "relock" /\ wpc' = "loop"
      /\ pc' \in [Tasks -> Locations]
      /\ \A u \in Tasks \ {"writer"} : pc'[u] = pc[u]
  BY DEF IInv, TypeOK, WAdvance, Goto, Tasks, Locations, wpc
<1>2. wret \in Nat /\ wret > 0 /\ wret <= hav /\ ~wstall
  BY <1>1, Here DEF IInv, TypeOK, Claims, Data, NotStalled
<1>3. /\ did' \in Slots /\ hav' = hav - wret /\ hav' \in 0 .. Size - 1
      /\ Emp(got, Mask(did + wret)) = Size - hav'
  <2>1. /\ Mask(did + wret) \in Slots
        /\ Hav(got, Mask(did + wret)) = hav - wret
    BY <1>2, Here, FillFalls DEF IInv, TypeOK
  <2>2. did' = Mask(did + wret) /\ got' = got /\ got \in Slots
    BY DEF WAdvance, IInv, TypeOK
  <2> QED BY <2>1, <2>2, FillLevel DEF hav
<1>4. /\ n \in Nat
      /\ n # 0 => n > 0 /\ n + hav' < Size
      /\ n = 0 => GrantR(opt, Size - hav', s) = 0
      /\ s \in BOOLEAN /\ (s => opt.rsp # 0)
  <2>1. Accepted(opt) /\ RMin(opt) = opt.rblk
    BY Here
  <2>2. rstall \in BOOLEAN /\ (rstall => opt.rsp # 0)
    BY DEF IInv, TypeOK, NotStalled
  <2> QED BY <2>1, <2>2, <1>3, GrantRFits
<1>5. /\ lock = Free /\ lock' = "writer"
      /\ ~mwait => UNCHANGED <<rstall, mwait, xrsiz, nospace>>
      /\ mwait /\ n = 0 => rstall' = s /\ UNCHANGED <<mwait, xrsiz, nospace>>
      /\ mwait /\ n # 0 => /\ rstall' = FALSE /\ mwait' = FALSE /\ xrsiz' = n
                        /\ nospace' = nospace + 1
      /\ wsiz' = 0 /\ wret' = 0 /\ UNCHANGED <<out, wchunk>>
      /\ UNCHANGED <<opt, got, mem, wstall, wmin, wsp, nodata, swait, xwsiz, ends,
                    rvars, sigs, ret>>
  BY <1>3, Here DEF WAdvance, WakeReader, hav
<1> HIDE DEF n, s
<1>6. TypeOK'
  <2>1. xrsiz' \in Nat /\ nospace' \in Nat
    BY <1>4, <1>5 DEF IInv, TypeOK
  <2>2. rstall' \in BOOLEAN /\ mwait' \in BOOLEAN
    BY <1>4, <1>5 DEF IInv, TypeOK
  <2>3. wret' \in 0 .. Size
    BY <1>5, Here
  <2> QED BY <2>1, <2>2, <2>3, <1>1, <1>3, <1>5 DEF IInv, TypeOK, ends, rvars
<1>7. Placed'
  BY <1>1, <1>2, <1>3, <1>4, <1>5 DEF IInv, Placed, ReaderLocations,
     WriterLocations, ring, rvars, wvars, rpc, wpc, Tasks
<1>8. Mutex'
  BY <1>1, <1>2, <1>3, <1>4, <1>5 DEF IInv, Mutex, Free, sync, rpc, wpc, Tasks
<1>9. Shutdown'
  BY <1>1, <1>2, <1>3, <1>4, <1>5 DEF IInv, Shutdown, rvars, ends, rpc, wpc,
     Tasks
<1>10. Limits'
  BY <1>1, <1>2, <1>3, <1>4, <1>5 DEF IInv, Limits, stalls, wpc, Tasks
<1>11. Handshake'
  BY <1>1, <1>2, <1>3, <1>4, <1>5 DEF IInv, Handshake, sync, handoff, ends,
     rpc, wpc, Tasks, TypeOK
<1>12. Claims'
  <2>1. hav >= hav' /\ hav \in Nat /\ hav' \in Nat
    BY <1>2, <1>3, Here
  <2>2. /\ rpc \in {"read", "copy", "relock"} => Room(rsiz)'
        /\ rpc \in {"copy", "relock"} => rret > 0 /\ rret <= rsiz
    BY <2>1, <1>5, Here DEF IInv, TypeOK, Claims, Room, rvars
  <2>3. ~done /\ rpc \in {"wait", "woken"} /\ ~mwait' => Room(xrsiz)'
    <3>1. CASE mwait
      BY <3>1, <1>4, <1>5 DEF Room
    <3>2. CASE ~mwait
      BY <3>2, <2>1, <1>5, Here DEF IInv, TypeOK, Claims, Room
    <3> QED BY <3>1, <3>2
  <2> QED BY <2>2, <2>3, <1>1, <1>5 DEF Claims, ends, rvars, rpc, wpc, Tasks
<1>13. NotStalled'
  BY <1>1, <1>2, <1>3, <1>4, <1>5 DEF IInv, NotStalled, stalls, handoff, ends,
     rpc, wpc, Tasks, Handshake
<1>14. Sleepers'
  BY <1>1, <1>2, <1>3, <1>4, <1>5 DEF IInv, Sleepers, Asleep, stalls, sync,
     handoff, rpc, wpc, Tasks, NotStalled, TypeOK
<1> QED BY <1>6, <1>7, <1>8, <1>9, <1>10, <1>11, <1>12, <1>13, <1>14 DEF IInv

\* The last post of the writer comes after done.
LEMMA WPostInv ==
  ASSUME BlockReaders, IInv, WPost
  PROVE  IInv'
<1>1. /\ wpc = "post" /\ wpc' = "check"
      /\ pc' \in [Tasks -> Locations]
      /\ \A u \in Tasks \ {"writer"} : pc'[u] = pc[u]
  BY DEF IInv, TypeOK, WPost, Goto, Tasks, Locations, wpc
<1>2. /\ nospace' = nospace + 1 /\ UNCHANGED <<lock, nodata>>
      /\ UNCHANGED <<opt, ring, stalls, handoff, ends, rvars, wvars, sigs, ret>>
      /\ hav' = hav
  BY DEF WPost, hav, ring
<1>3. TypeOK'
  BY <1>1, <1>2 DEF IInv, TypeOK, ring, stalls, sync, handoff, ends, rvars,
     wvars, Free, Tasks
<1>4. Placed'
  BY <1>1, <1>2 DEF IInv, Placed, ReaderLocations, WriterLocations, ring,
     rvars, wvars, rpc, wpc, Tasks
<1>5. Mutex'
  BY <1>1, <1>2 DEF IInv, Mutex, Free, sync, rpc, wpc, Tasks
<1>6. Shutdown'
  BY <1>1, <1>2 DEF IInv, Shutdown, rvars, ends, rpc, wpc, Tasks
<1>7. Limits'
  BY <1>1, <1>2 DEF IInv, Limits, stalls, wpc, Tasks
<1>8. Handshake'
  BY <1>1, <1>2 DEF IInv, Handshake, sync, handoff, ends, rpc, wpc, Tasks,
     Shutdown
<1>9. Claims'
  BY <1>1, <1>2 DEF IInv, Claims, Room, Data, handoff, ends, rvars, wvars, rpc,
     wpc, Tasks
<1>10. NotStalled'
  BY <1>1, <1>2 DEF IInv, NotStalled, stalls, handoff, ends, rpc, wpc, Tasks
<1>11. Sleepers'
  BY <1>1, <1>2 DEF IInv, Sleepers, Asleep, stalls, sync, handoff, rpc, wpc,
     Tasks, TypeOK
<1> QED BY <1>3, <1>4, <1>5, <1>6, <1>7, <1>8, <1>9, <1>10, <1>11 DEF IInv

\* The epilogue begins only when the reader is through with the input.
LEMMA WCheckInv ==
  ASSUME BlockReaders, IInv, WCheck
  PROVE  IInv'
<1>1. /\ wpc = "check" /\ wpc' = IF abrt THEN "end" ELSE "epi"
      /\ pc' \in [Tasks -> Locations]
      /\ \A u \in Tasks \ {"writer"} : pc'[u] = pc[u]
  BY DEF IInv, TypeOK, WCheck, Goto, Tasks, Locations, wpc
<1>2. /\ abrt => UNCHANGED stalls
      /\ ~abrt => wmin' = 1 /\ wsp' = 0 /\ wstall' = FALSE /\ UNCHANGED rstall
      /\ UNCHANGED <<opt, ring, sync, handoff, ends, rvars, wvars, sigs, ret>>
      /\ hav' = hav
  BY DEF WCheck, hav, ring
<1>3. TypeOK'
  <2>1. wmin' \in Nat /\ wsp' \in Nat
    BY <1>2 DEF IInv, TypeOK, stalls
  <2>2. rstall' \in BOOLEAN /\ wstall' \in BOOLEAN
    BY <1>2 DEF IInv, TypeOK, stalls
  <2> QED BY <2>1, <2>2, <1>1, <1>2 DEF IInv, TypeOK, ring, sync, handoff, ends,
                                        rvars, wvars
<1>4. Placed'
  BY <1>1, <1>2 DEF IInv, Placed, ReaderLocations, WriterLocations, ring,
     rvars, wvars, rpc, wpc, Tasks
<1>5. Mutex'
  BY <1>1, <1>2 DEF IInv, Mutex, Free, sync, rpc, wpc, Tasks
<1>6. Shutdown'
  BY <1>1, <1>2 DEF IInv, Shutdown, rvars, ends, rpc, wpc, Tasks
<1>7. Limits'
  BY <1>1, <1>2 DEF IInv, Limits, stalls, wpc, Tasks
<1>8. Handshake'
  BY <1>1, <1>2 DEF IInv, Handshake, sync, handoff, ends, rpc, wpc, Tasks,
     Shutdown
<1>9. Claims'
  BY <1>1, <1>2 DEF IInv, Claims, Room, Data, handoff, ends, rvars, wvars, rpc,
     wpc, Tasks
<1>10. NotStalled'
  BY <1>1, <1>2 DEF IInv, NotStalled, stalls, handoff, ends, rpc, wpc, Tasks
<1>11. Sleepers'
  BY <1>1, <1>2 DEF IInv, Sleepers, Asleep, stalls, sync, handoff, rpc, wpc,
     Tasks
<1> QED BY <1>3, <1>4, <1>5, <1>6, <1>7, <1>8, <1>9, <1>10, <1>11 DEF IInv

\* In the epilogue whatever is there is granted, up to a block.
LEMMA WEpilogueInv ==
  ASSUME BlockReaders, IInv, WEpilogue
  PROVE  IInv'
<1> DEFINE m == GrantW(opt, hav, wstall, wmin, wsp)
<1>1. /\ wpc = "epi" /\ wpc' = IF m = 0 THEN "end" ELSE "ewrite"
      /\ pc' \in [Tasks -> Locations]
      /\ \A u \in Tasks \ {"writer"} : pc'[u] = pc[u]
  BY Here DEF IInv, TypeOK, WEpilogue, Goto, Tasks, Locations, wpc
<1>2. m \in Nat /\ (m # 0 => m > 0 /\ m <= hav)
  BY Here, WriterLimits, GrantWThere
<1>3. /\ wsiz' = m /\ UNCHANGED <<out, wret, wchunk>>
      /\ UNCHANGED <<opt, ring, stalls, sync, handoff, ends, rvars, sigs, ret>>
      /\ hav' = hav
  BY Here DEF WEpilogue, hav, ring
<1> HIDE DEF m
<1>4. TypeOK'
  BY <1>1, <1>2, <1>3 DEF IInv, TypeOK, ring, stalls, sync, handoff, ends,
     rvars, wvars, Free, Tasks
<1>5. Placed'
  BY <1>1, <1>2, <1>3 DEF IInv, Placed, ReaderLocations, WriterLocations, ring,
     rvars, wvars, rpc, wpc, Tasks
<1>6. Mutex'
  BY <1>1, <1>2, <1>3 DEF IInv, Mutex, Free, sync, rpc, wpc, Tasks
<1>7. Shutdown'
  BY <1>1, <1>2, <1>3 DEF IInv, Shutdown, rvars, ends, rpc, wpc, Tasks
<1>8. Limits'
  BY <1>1, <1>2, <1>3 DEF IInv, Limits, stalls, wpc, Tasks
<1>9. Handshake'
  BY <1>1, <1>2, <1>3 DEF IInv, Handshake, sync, handoff, ends, rpc, wpc,
     Tasks, Shutdown
<1>10. Claims'
  BY <1>1, <1>2, <1>3 DEF IInv, Claims, Room, Data, handoff, ends, rvars,
     wvars, rpc, wpc, Tasks
<1>11. NotStalled'
  BY <1>1, <1>2, <1>3 DEF IInv, NotStalled, stalls, handoff, ends, rpc, wpc,
     Tasks
<1>12. Sleepers'
  BY <1>1, <1>2, <1>3 DEF IInv, Sleepers, Asleep, stalls, sync, handoff, rpc,
     wpc, Tasks
<1> QED BY <1>4, <1>5, <1>6, <1>7, <1>8, <1>9, <1>10, <1>11, <1>12 DEF IInv

\* The cursor moves by data only, never by the padding.
LEMMA WEpiWriteInv ==
  ASSUME BlockReaders, IInv, WEpiWrite
  PROVE  IInv'
<1>1. /\ wpc = "ewrite"
      /\ wpc' \in {"epi", "end"}
      /\ pc' \in [Tasks -> Locations]
      /\ \A u \in Tasks \ {"writer"} : pc'[u] = pc[u]
  BY DEF IInv, TypeOK, WEpiWrite, Goto, Tasks, Locations, wpc
<1>2. wsiz \in Nat /\ wsiz > 0 /\ wsiz <= hav
  BY <1>1, Here DEF IInv, TypeOK, Claims, Data
<1>3. /\ did' \in Slots /\ hav' \in 0 .. Size - 1
      /\ out' \in Seq(0 .. MaxIn)
      /\ errlog' \subseteq ({"sig", "ini", "err"} \X Tasks)
  <2> DEFINE c == FetchPadded(opt, mem, did, wsiz)
             k == wsiz + Padding(opt, wsiz)
  <2>1. k \in Nat /\ wsiz <= k /\ c \in [0 .. k - 1 -> 0 .. MaxIn]
    <3>1. wsiz \in Nat /\ wsiz <= Size /\ opt.wblk \in Nat
      BY <1>2, Here
    <3>2. /\ Padding(opt, wsiz) \in Nat
          /\ FetchPadded(opt, mem, did, wsiz) \in
               [0 .. wsiz + Padding(opt, wsiz) - 1 -> 0 .. MaxIn]
      BY <3>1, FetchPaddedType, BoundsAssumption DEF IInv, TypeOK
    <3> QED BY <3>1, <3>2
  <2> HIDE DEF c, k
  <2>2. ASSUME NEW n \in Taken(opt, k), did' = Mask(did + Least(wsiz, n)),
               got' = got, out' = out \o AsSeq(c, n), UNCHANGED errlog
        PROVE  <1>3!:
    <3>1. n \in Nat /\ n <= k
      BY <2>1 DEF Taken
    <3>2. Least(wsiz, n) \in Nat /\ Least(wsiz, n) <= hav
      BY <3>1, <1>2, Here DEF Least
    <3>3. Mask(did + Least(wsiz, n)) \in Slots
      BY <3>2, Here, FillFalls DEF IInv, TypeOK
    <3>4. hav' \in 0 .. Size - 1
      BY <2>2, <3>3, FillLevel DEF hav, IInv, TypeOK
    <3>5. AsSeq(c, n) \in Seq(0 .. MaxIn)
      BY <2>1, <3>1, AsSeqType
    <3> QED BY <2>2, <3>3, <3>4, <3>5 DEF IInv, TypeOK
  <2>3. ASSUME errlog' = errlog \union {<<"err", "writer">>},
               UNCHANGED <<got, did, out>>
        PROVE  <1>3!:
    <3>1. hav' = hav
      BY <2>3 DEF hav
    <3>2. errlog' \subseteq ({"sig", "ini", "err"} \X Tasks)
      BY <2>3 DEF IInv, TypeOK, Tasks
    <3> QED BY <2>3, <3>1, <3>2, Here DEF IInv, TypeOK
  <2> QED BY <2>2, <2>3 DEF WEpiWrite, Emit, c, k, ring, ends
<1>4. /\ wsiz' = 0 /\ UNCHANGED <<wret, wchunk, done, abrt>>
      /\ UNCHANGED <<opt, got, mem, stalls, sync, handoff, rvars, sigs, ret>>
  BY DEF WEpiWrite, ring, ends
<1>5. rpc \in {"post", "end"} /\ done /\ rpc' = rpc
  BY <1>1 DEF IInv, Shutdown, rpc, Tasks
<1>6. TypeOK'
  BY <1>1, <1>2, <1>3, <1>4, <1>5 DEF IInv, TypeOK, ring, stalls, sync,
     handoff, ends, rvars, wvars, Free, Tasks
<1>7. Placed'
  BY <1>1, <1>2, <1>3, <1>4, <1>5 DEF IInv, Placed, ReaderLocations,
     WriterLocations, ring, rvars, wvars, rpc, wpc, Tasks
<1>8. Mutex'
  BY <1>1, <1>2, <1>3, <1>4, <1>5 DEF IInv, Mutex, Free, sync, rpc, wpc, Tasks
<1>9. Shutdown'
  BY <1>1, <1>2, <1>3, <1>4, <1>5 DEF IInv, Shutdown, rvars, ends, rpc, wpc,
     Tasks
<1>10. Limits'
  BY <1>1, <1>2, <1>3, <1>4, <1>5 DEF IInv, Limits, stalls, wpc, Tasks
<1>11. Handshake'
  BY <1>1, <1>2, <1>3, <1>4, <1>5 DEF IInv, Handshake, sync, handoff, ends,
     rpc, wpc, Tasks
<1>12. Claims'
  BY <1>1, <1>2, <1>3, <1>4, <1>5 DEF IInv, Claims, Room, Data, handoff, ends,
     rvars, wvars, rpc, wpc, Tasks
<1>13. NotStalled'
  BY <1>1, <1>2, <1>3, <1>4, <1>5 DEF IInv, NotStalled, stalls, handoff, ends,
     rpc, wpc, Tasks
<1>14. Sleepers'
  BY <1>1, <1>2, <1>3, <1>4, <1>5 DEF IInv, Sleepers, Asleep, stalls, sync,
     handoff, rpc, wpc, Tasks, Sleepers
<1> QED BY <1>6, <1>7, <1>8, <1>9, <1>10, <1>11, <1>12, <1>13, <1>14 DEF IInv

-----------------------------------------------------------------------------
(* Signals, the arbiter, and the whole.                                    *)

\* A signal records abrt; done follows.
LEMMA SignalInv ==
  ASSUME BlockReaders, IInv, Signal
  PROVE  IInv'
<1>1. /\ pc["sigrelay"] = "sigwait" /\ pc'["sigrelay"] = "rel_done"
      /\ pc' \in [Tasks -> Locations]
      /\ \A u \in Tasks \ {"sigrelay"} : pc'[u] = pc[u]
  BY DEF IInv, TypeOK, Signal, Goto, Tasks, Locations
<1>2. /\ abrt' = TRUE /\ done' = done
      /\ errlog' \subseteq ({"sig", "ini", "err"} \X Tasks)
      /\ sigs' \in 0 .. MaxSignals
  <2>1. PICK role \in {"arbiter", "reader", "writer"} :
          errlog' = errlog \union {<<"sig", role>>}
    BY DEF Signal, Record
  <2>2. errlog' \subseteq ({"sig", "ini", "err"} \X Tasks)
    BY <2>1 DEF IInv, TypeOK, Tasks
  <2> QED BY <2>2, BoundsAssumption DEF Signal, Record, IInv, TypeOK
<1>3. /\ UNCHANGED <<opt, ring, stalls, sync, handoff, rvars, wvars, ret>>
      /\ hav' = hav
  BY DEF Signal, hav, ring
<1>4. TypeOK'
  BY <1>1, <1>2, <1>3 DEF IInv, TypeOK, ring, stalls, sync, handoff, ends,
     rvars, wvars, Free, Tasks
<1>5. Placed'
  BY <1>1, <1>2, <1>3 DEF IInv, Placed, ReaderLocations, WriterLocations, ring,
     rvars, wvars, rpc, wpc, Tasks
<1>6. Mutex'
  BY <1>1, <1>2, <1>3 DEF IInv, Mutex, Free, sync, rpc, wpc, Tasks
<1>7. Shutdown'
  BY <1>1, <1>2, <1>3 DEF IInv, Shutdown, rvars, ends, rpc, wpc, Tasks
<1>8. Limits'
  BY <1>1, <1>2, <1>3 DEF IInv, Limits, stalls, wpc, Tasks
<1>9. Handshake'
  BY <1>1, <1>2, <1>3 DEF IInv, Handshake, sync, handoff, ends, rpc, wpc, Tasks
<1>10. Claims'
  BY <1>1, <1>2, <1>3 DEF IInv, Claims, Room, Data, handoff, ends, rvars,
     wvars, rpc, wpc, Tasks
<1>11. NotStalled'
  BY <1>1, <1>2, <1>3 DEF IInv, NotStalled, stalls, handoff, ends, rpc, wpc,
     Tasks
<1>12. Sleepers'
  BY <1>1, <1>2, <1>3 DEF IInv, Sleepers, Asleep, stalls, sync, handoff, rpc,
     wpc, Tasks
<1> QED BY <1>4, <1>5, <1>6, <1>7, <1>8, <1>9, <1>10, <1>11, <1>12 DEF IInv

\* The verdict leaves everything else as it is, whenever it is given.
LEMMA JudgedInv ==
  ASSUME IInv, Goto("arbiter", "reap", "end"), ret' \in {"clean", "failed"},
         UNCHANGED <<opt, ring, stalls, sync, handoff, ends, rvars, wvars, sigs>>
  PROVE  IInv'
<1>1. /\ pc["arbiter"] = "reap" /\ pc'["arbiter"] = "end"
      /\ pc' \in [Tasks -> Locations]
      /\ \A u \in Tasks \ {"arbiter"} : pc'[u] = pc[u]
  BY DEF IInv, TypeOK, Goto, Tasks, Locations
<1>2. /\ ret' \in {"clean", "failed"}
      /\ UNCHANGED <<opt, ring, stalls, sync, handoff, ends, rvars, wvars, sigs>>
      /\ hav' = hav
  BY DEF hav, ring
<1>3. TypeOK'
  BY <1>1, <1>2 DEF IInv, TypeOK, ring, stalls, sync, handoff, ends, rvars,
     wvars, Free, Tasks
<1>4. Placed'
  BY <1>1, <1>2 DEF IInv, Placed, ReaderLocations, WriterLocations, ring,
     rvars, wvars, rpc, wpc, Tasks
<1>5. Mutex'
  BY <1>1, <1>2 DEF IInv, Mutex, Free, sync, rpc, wpc, Tasks
<1>6. Shutdown'
  BY <1>1, <1>2 DEF IInv, Shutdown, rvars, ends, rpc, wpc, Tasks
<1>7. Limits'
  BY <1>1, <1>2 DEF IInv, Limits, stalls, wpc, Tasks
<1>8. Handshake'
  BY <1>1, <1>2 DEF IInv, Handshake, sync, handoff, ends, rpc, wpc, Tasks
<1>9. Claims'
  BY <1>1, <1>2 DEF IInv, Claims, Room, Data, handoff, ends, rvars, wvars, rpc,
     wpc, Tasks
<1>10. NotStalled'
  BY <1>1, <1>2 DEF IInv, NotStalled, stalls, handoff, ends, rpc, wpc, Tasks
<1>11. Sleepers'
  BY <1>1, <1>2 DEF IInv, Sleepers, Asleep, stalls, sync, handoff, rpc, wpc,
     Tasks
<1> QED BY <1>3, <1>4, <1>5, <1>6, <1>7, <1>8, <1>9, <1>10, <1>11 DEF IInv

LEMMA ReapInv ==
  ASSUME IInv, Reap
  PROVE  IInv'
  BY JudgedInv DEF Reap

\* So does a step that changes nothing.
LEMMA StutterInv ==
  ASSUME IInv, UNCHANGED vars
  PROVE  IInv'
<1>1. UNCHANGED <<opt, ring, stalls, sync, handoff, ends, rvars, wvars, pc,
                  sigs, ret>>
  BY DEF vars
<1>2. rpc' = rpc /\ wpc' = wpc /\ hav' = hav
  BY <1>1 DEF rpc, wpc, hav, ring
<1>3. TypeOK'
  BY <1>1 DEF IInv, TypeOK, ring, stalls, sync, handoff, ends, rvars, wvars
<1>4. Placed' /\ Mutex'
  BY <1>1, <1>2 DEF IInv, Placed, Mutex, ring, sync, rvars, wvars
<1>5. Shutdown' /\ Limits' /\ Handshake'
  BY <1>1, <1>2 DEF IInv, Shutdown, Limits, Handshake, stalls, sync, handoff, ends,
     rvars
<1>6. Claims'
  BY <1>1, <1>2 DEF IInv, Claims, Room, Data, handoff, ends, rvars, wvars
<1>7. NotStalled' /\ Sleepers'
  BY <1>1, <1>2 DEF IInv, NotStalled, Sleepers, Asleep, stalls, sync, handoff, ends
<1> QED BY <1>3, <1>4, <1>5, <1>6, <1>7 DEF IInv

\* setup_env() establishes the invariant.
LEMMA InitInv ==
  ASSUME BlockReaders, Init
  PROVE  IInv
<1>1. opt \in Options /\ WMin(opt) \in Nat /\ opt.wsp \in Nat
  BY OptionFacts DEF Init
<1>2. pc \in [Tasks -> Locations]
  BY DEF Init, Tasks, Locations
<1>3. rpc = "open" /\ wpc = "open" /\ pc["arbiter"] = "reap" /\ pc["sigrelay"] = "sigwait"
  BY DEF Init, rpc, wpc, Tasks
<1>4. TypeOK
  <2>1. rstall \in BOOLEAN /\ wstall \in BOOLEAN
    BY DEF Init
  <2>2. mem \in [Slots -> 0 .. MaxIn] /\ out \in Seq(0 .. MaxIn)
    BY BoundsAssumption DEF Init
  <2>3. got \in Slots /\ did \in Slots /\ rret \in -1 .. Size /\ wret \in 0 .. Size
    BY SizeAssumption DEF Init, Slots
  <2>4. wmin \in Nat /\ wsp \in Nat
    BY <1>1 DEF Init
  <2>5. pos \in 0 .. MaxIn /\ sigs \in 0 .. MaxSignals
    BY BoundsAssumption DEF Init
  <2>6. lock \in {Free, "reader", "writer"} /\ errlog = {}
    BY DEF Init
  <2> QED BY <2>1, <2>2, <2>3, <2>4, <2>5, <2>6, <1>1, <1>2 DEF Init, TypeOK
<1>5. Placed /\ Mutex /\ Limits /\ Handshake
  BY <1>3 DEF Init, Placed, Mutex, Limits, Handshake, ReaderLocations,
              WriterLocations, Free
<1>6. Shutdown
  BY <1>2, <1>3 DEF Init, Shutdown, Tasks
<1>7. Claims /\ Sleepers
  BY <1>3 DEF Init, Claims, Sleepers, Asleep, rpc, wpc
<1>8. NotStalled
  BY <1>3 DEF Init, NotStalled
<1> QED BY <1>4, <1>5, <1>6, <1>7, <1>8 DEF IInv

\* Every step preserves the invariant.
LEMMA NextInv ==
  ASSUME BlockReaders, IInv, [Next]_vars
  PROVE  IInv'
<1>1. CASE Reader
  BY <1>1, OpenInv, LockInv, RLoopInv, RWaitInv, RWokenInv, RReadInv, RCommitInv,
     RAdvanceInv, FailInv, FinishInv, RPostInv, ReleaseDoneInv, ReleaseDataInv,
     ReleaseSpaceInv
  DEF Reader, Release
<1>2. CASE Writer
  BY <1>2, OpenInv, LockInv, WLoopInv, WWaitInv, WWokenInv, WFetchInv, WWriteInv,
     WAdvanceInv, FailInv, FinishInv, WPostInv, WCheckInv, WEpilogueInv,
     WEpiWriteInv, ReleaseDoneInv, ReleaseDataInv, ReleaseSpaceInv
  DEF Writer, Release
<1>3. CASE SigRelay
  BY <1>3, SignalInv, ReleaseDoneInv, ReleaseDataInv, ReleaseSpaceInv
  DEF SigRelay, Release
<1>4. CASE Reap
  BY <1>4, ReapInv
<1>5. CASE Terminated \/ UNCHANGED vars
  BY <1>5, StutterInv DEF Terminated
<1> QED BY <1>1, <1>2, <1>3, <1>4, <1>5 DEF Next

\* IInv holds in every reachable state: setup establishes it and every handler,
\* of either worker, of a signal or of the arbiter, preserves it.
THEOREM Inductive == BlockReaders => (Spec => []IInv)
<1> SUFFICES ASSUME BlockReaders PROVE Spec => []IInv
  OBVIOUS
<1>1. Init => IInv
  BY InitInv
<1>2. IInv /\ [Next]_vars => IInv'
  BY NextInv
<1> QED BY <1>1, <1>2, PTL DEF Spec

\* Rooms and data held or handed over are what ClaimsFit speaks of.
LEMMA InvClaimsFit == ASSUME BlockReaders, IInv PROVE ClaimsFit
<1>1. ReaderClaim \in Nat /\ ReaderClaim + hav < Size
  <2>1. CASE rpc \in {"read", "copy", "relock"}
    BY <2>1, Here DEF IInv, TypeOK, Claims, Room, ReaderClaim, rpc
  <2>2. CASE rpc \in {"wait", "woken"} /\ ~done
    <3>1. rpc = "woken" \/ nospace > 0 => ~mwait
      BY <2>2 DEF IInv, Handshake
    <3>2. rpc = "woken" \/ nospace > 0 => Room(xrsiz)
      BY <2>2, <3>1 DEF IInv, Claims
    <3>3. CASE rpc = "woken" \/ nospace > 0
      BY <2>2, <3>2, <3>3, Here DEF IInv, TypeOK, Room, ReaderClaim, rpc
    <3>4. CASE ~(rpc = "woken" \/ nospace > 0)
      BY <2>2, <3>4, Here DEF ReaderClaim, rpc
    <3> QED BY <3>3, <3>4
  <2>3. CASE ~(rpc \in {"read", "copy", "relock"}) /\ ~(rpc \in {"wait", "woken"} /\ ~done)
    BY <2>3, Here DEF ReaderClaim, rpc
  <2> QED BY <2>1, <2>2, <2>3
<1>2. WriterClaim <= hav
  <2>1. CASE wpc \in {"fetch", "write", "relock", "ewrite"}
    BY <2>1, Here DEF IInv, TypeOK, Claims, Data, WriterClaim, wpc
  <2>2. CASE wpc \in {"wait", "woken"} /\ ~done
    <3>1. wpc = "woken" \/ nodata > 0 => ~swait
      BY <2>2 DEF IInv, Handshake
    <3>2. wpc = "woken" \/ nodata > 0 => Data(xwsiz)
      BY <2>2, <3>1 DEF IInv, Claims
    <3>3. CASE wpc = "woken" \/ nodata > 0
      BY <2>2, <3>2, <3>3, Here DEF IInv, TypeOK, Data, WriterClaim, wpc
    <3>4. CASE ~(wpc = "woken" \/ nodata > 0)
      BY <2>2, <3>4, Here DEF WriterClaim, wpc
    <3> QED BY <3>3, <3>4
  <2>3. CASE ~(wpc \in {"fetch", "write", "relock", "ewrite"}) /\ ~(wpc \in {"wait", "woken"} /\ ~done)
    BY <2>3, Here DEF WriterClaim, wpc
  <2> QED BY <2>1, <2>2, <2>3
<1> QED BY <1>1, <1>2, Here DEF ClaimsFit

\* The block sizes and resume points leave no fill level at which both
\* directions are refused.
LEMMA InvNeverBothAsleep == ASSUME BlockReaders, IInv PROVE NeverBothAsleep
<1> SUFFICES ASSUME Asleep("reader", nospace), Asleep("writer", nodata) PROVE FALSE
  BY DEF NeverBothAsleep
<1>1. /\ GrantR(opt, Size - hav, rstall) = 0
      /\ GrantW(opt, hav, wstall, wmin, wsp) = 0
      /\ rstall /\ wstall => hav >= opt.wsp
  BY DEF IInv, Sleepers
<1>2. /\ rstall => opt.rsp # 0 /\ hav > opt.rsp
      /\ ~rstall => Size - hav <= opt.rblk
  BY <1>1, Here, GrantRFits DEF IInv, TypeOK, NotStalled
<1>3. /\ wstall => hav < wsp
      /\ ~wstall => hav < wmin
  BY <1>1, Here, WriterLimits, GrantWThere
<1>4. wsp = opt.wsp /\ wmin <= opt.wblk /\ (wstall => opt.wsp # 0)
  BY WriterLimits DEF Asleep, IInv, Limits, wpc
<1>5. opt.rblk + opt.wblk < Size
  <2>1. 2 * opt.rblk < Size /\ 2 * opt.wblk < Size
    BY OptionFacts DEF IInv, TypeOK
  <2> QED BY <2>1, Here
<1>6. CASE rstall /\ wstall
  BY <1>6, <1>1, <1>3, <1>4, Here
<1>7. CASE rstall /\ ~wstall
  BY <1>7, <1>2, <1>3, <1>4, Here, WriterLimits
<1>8. CASE ~rstall /\ wstall
  BY <1>8, <1>2, <1>3, <1>4, Here
<1>9. CASE ~rstall /\ ~wstall
  BY <1>9, <1>2, <1>3, <1>4, <1>5, Here, WriterLimits
<1> QED BY <1>6, <1>7, <1>8, <1>9

\* Every variable keeps its type; in particular the cursors stay in the ring and
\* nothing but bytes of the input and zeros is written.
THEOREM TypeCorrect == BlockReaders => (Spec => []TypeOK)
<1>1. IInv => TypeOK
  BY DEF IInv
<1> QED BY <1>1, Inductive, PTL

\* transfer_reader() and transfer_writer() act, after they dropped the lock or
\* were woken, on room and data that are still there (ClaimsFit).
THEOREM ClaimsAlwaysFit == BlockReaders => (Spec => []ClaimsFit)
<1> SUFFICES ASSUME BlockReaders PROVE Spec => []ClaimsFit
  OBVIOUS
<1>1. IInv => ClaimsFit
  BY InvClaimsFit
<1> QED BY <1>1, Inductive, PTL

\* The workers are never both asleep on nospace and nodata, so the hand-over of
\* mwait, swait, xrsiz and xwsiz loses no wake-up (NeverBothAsleep).
THEOREM NoLostWakeup == BlockReaders => (Spec => []NeverBothAsleep)
<1> SUFFICES ASSUME BlockReaders PROVE Spec => []NeverBothAsleep
  OBVIOUS
<1>1. IInv => NeverBothAsleep
  BY InvNeverBothAsleep
<1> QED BY <1>1, Inductive, PTL

\* transfer_writer_epi(), which takes no lock, runs only after the reader left its
\* loop because the input ended (EpilogueAlone).
THEOREM EpilogueIsAlone == BlockReaders => (Spec => []EpilogueAlone)
<1>1. IInv => EpilogueAlone
  BY DEF IInv, Shutdown, EpilogueAlone, rpc, wpc
<1> QED BY <1>1, Inductive, PTL

-----------------------------------------------------------------------------
(* The resume points.                                                      *)

\* A stalled reader neither reads nor recovers above its resume point.
LEMMA StepReadResumes ==
  ASSUME BlockReaders, IInv, [Next]_vars, rstall
  PROVE  pos' = pos /\ (~rstall' => Hav(got', did') <= opt.rsp)
<1>1. ~(rpc \in {"loop", "read"})
  BY DEF IInv, NotStalled
<1>2. CASE RLoop \/ RRead
  BY <1>1, <1>2 DEF RLoop, RRead, Goto, rpc
<1>3. CASE WAdvance
  <2> DEFINE d == Mask(did + wret)
  <2>1. wpc = "relock"
    BY <1>3 DEF WAdvance, Goto, wpc
  <2>2. wret \in Nat /\ wret <= hav
    BY <2>1, Here DEF IInv, TypeOK, Claims, Data
  <2>3. d \in Slots /\ Hav(got, d) \in 0 .. Size - 1 /\ Emp(got, d) = Size - Hav(got, d)
    BY <2>2, Here, FillFalls, FillLevel DEF IInv, TypeOK
  <2>4. got' = got /\ did' = d /\ pos' = pos /\ WakeReader(Emp(got, d))
    BY <1>3 DEF WAdvance, rvars
  <2>5. ~rstall' => GrantR(opt, Size - Hav(got, d), rstall) # 0
    BY <2>3, <2>4, Here DEF WakeReader, StallsR
  <2>6. GrantR(opt, Size - Hav(got, d), rstall) # 0 => Hav(got, d) <= opt.rsp
    <3>1. GrantR(opt, Size - Hav(got, d), TRUE) =
            IF ReadSuspended(opt, Size - Hav(got, d)) THEN 0 ELSE opt.rblk
      BY DEF GrantR
    <3>2. rstall = TRUE
      BY DEF IInv, TypeOK
    <3>3. ~ReadSuspended(opt, Size - Hav(got, d)) => Hav(got, d) <= opt.rsp
      BY <2>3, Here DEF ReadSuspended
    <3> QED BY <3>1, <3>2, <3>3
  <2> QED BY <2>4, <2>5, <2>6
<1>4. CASE ~RLoop /\ ~RRead /\ ~WAdvance
  <2>1. UNCHANGED <<pos, rstall>>
    <3>1. CASE Reader
      BY <3>1, <1>4 DEF Reader, Release, Open, Lock, RWait, RWoken, RCommit,
         RAdvance, Fail, Finish, RPost, ReleaseDone, ReleaseData, ReleaseSpace,
         rvars, stalls
    <3>2. CASE Writer
      BY <3>2, <1>4 DEF Writer, Release, Open, Lock, WLoop, WWait, WWoken, WFetch,
         WWrite, Fail, Finish, WPost, WCheck, WEpilogue, WEpiWrite, ReleaseDone,
         ReleaseData, ReleaseSpace, rvars, stalls
    <3>3. CASE SigRelay
      BY <3>3 DEF SigRelay, Release, Signal, ReleaseDone, ReleaseData, ReleaseSpace,
         rvars, stalls
    <3>4. CASE Reap \/ Terminated \/ UNCHANGED vars
      BY <3>4 DEF Reap, Terminated, vars, rvars, stalls
    <3> QED BY <3>1, <3>2, <3>3, <3>4 DEF Next
  <2> QED BY <2>1
<1> QED BY <1>2, <1>3, <1>4

\* A stalled writer neither writes nor recovers below its resume point.
LEMMA StepWriteResumes ==
  ASSUME BlockReaders, IInv, [Next]_vars, wstall
  PROVE  /\ out' = out
         /\ ~wstall' => Hav(got', did') >= opt.wsp \/ pc'["writer"] = "epi"
<1>1. ~(wpc \in {"write", "ewrite"})
  BY DEF IInv, NotStalled, Limits
<1>2. CASE WWrite \/ WEpiWrite
  BY <1>1, <1>2 DEF WWrite, WEpiWrite, Goto, wpc
<1>3. wstall = TRUE
  BY DEF IInv, TypeOK
<1>4. wsp \in {0, opt.wsp} /\ wsp # 0
  BY DEF IInv, Limits, NotStalled
<1>5. ASSUME NEW h \in 0 .. Size - 1, GrantW(opt, h, wstall, wmin, wsp) # 0
      PROVE  h >= opt.wsp
  <2>1. GrantW(opt, h, TRUE, wmin, wsp) =
          IF WriteSuspended(h, wsp) THEN 0 ELSE opt.wblk
    BY DEF GrantW
  <2>2. ~WriteSuspended(h, wsp)
    BY <1>3, <1>5, <2>1
  <2> QED BY <2>2, <1>4, Here DEF WriteSuspended
<1>6. CASE WLoop
  <2>1. out' = out /\ hav' = hav
    BY <1>6 DEF WLoop, hav, ring
  <2>2. ~wstall' => GrantW(opt, hav, wstall, wmin, wsp) # 0
    BY <1>6, Here DEF WLoop, StallsW
  <2> QED BY <2>1, <2>2, <1>5, Here DEF hav
<1>7. CASE RAdvance
  <2> DEFINE g == Mask(got + rret)
  <2>1. rpc = "relock"
    BY <1>7 DEF RAdvance, Goto, rpc
  <2>2. rret \in Nat /\ rret + hav < Size
    BY <2>1, Here DEF IInv, TypeOK, Claims, Room
  <2>3. g \in Slots /\ Hav(g, did) \in 0 .. Size - 1
    BY <2>2, Here, FillRises, FillLevel DEF IInv, TypeOK
  <2>4. got' = g /\ did' = did /\ out' = out /\ WakeWriter(Hav(g, did))
    BY <1>7 DEF RAdvance, wvars
  <2>5. ~wstall' => GrantW(opt, Hav(g, did), wstall, wmin, wsp) # 0
    BY <2>4 DEF WakeWriter, StallsW
  <2> QED BY <2>3, <2>4, <2>5, <1>5
<1>8. CASE WCheck
  BY <1>8 DEF WCheck, Goto, wvars, stalls, IInv, TypeOK, Tasks
<1>9. CASE ~WWrite /\ ~WEpiWrite /\ ~WLoop /\ ~RAdvance /\ ~WCheck
  <2>1. UNCHANGED <<out, wstall>>
    <3>1. CASE Reader
      BY <3>1, <1>9 DEF Reader, Release, Open, Lock, RLoop, RWait, RWoken, RRead,
         RCommit, Fail, Finish, RPost, ReleaseDone, ReleaseData, ReleaseSpace,
         wvars, stalls
    <3>2. CASE Writer
      BY <3>2, <1>9 DEF Writer, Release, Open, Lock, WWait, WWoken, WFetch,
         WAdvance, Fail, Finish, WPost, WEpilogue, ReleaseDone, ReleaseData,
         ReleaseSpace, wvars, stalls
    <3>3. CASE SigRelay
      BY <3>3 DEF SigRelay, Release, Signal, ReleaseDone, ReleaseData, ReleaseSpace,
         wvars, stalls
    <3>4. CASE Reap \/ Terminated \/ UNCHANGED vars
      BY <3>4 DEF Reap, Terminated, vars, wvars, stalls
    <3> QED BY <3>1, <3>2, <3>3, <3>4 DEF Next
  <2> QED BY <2>1
<1> QED BY <1>2, <1>6, <1>7, <1>8, <1>9

\* buf_can_r(): after an overrun nothing is read before the fill level dropped to
\* the resume point (ReadResumes).
THEOREM ReadingResumes == BlockReaders => (Spec => ReadResumes)
<1> SUFFICES ASSUME BlockReaders PROVE Spec => ReadResumes
  OBVIOUS
<1>1. IInv /\ [Next]_vars =>
        [rstall => pos' = pos /\ (~rstall' => Hav(got', did') <= opt.rsp)]_vars
  BY StepReadResumes
<1> QED BY <1>1, Inductive, PTL DEF Spec, ReadResumes

\* buf_can_w(): after an underrun nothing is written before the fill level rose to
\* the resume point or the epilogue began (WriteResumes).
THEOREM WritingResumes == BlockReaders => (Spec => WriteResumes)
<1> SUFFICES ASSUME BlockReaders PROVE Spec => WriteResumes
  OBVIOUS
<1>1. IInv /\ [Next]_vars =>
        [wstall => /\ out' = out
                   /\ ~wstall' => \/ Hav(got', did') >= opt.wsp
                                  \/ pc'["writer"] = "epi"]_vars
  BY StepWriteResumes
<1> QED BY <1>1, Inductive, PTL DEF Spec, WriteResumes

-----------------------------------------------------------------------------
(* What the bytes do: DInv of TransferInv is an invariant, so the output   *)
(* is the input, a clean verdict is only given for all of it, and every    *)
(* step is one of the bounded pipe of module Pipe.                         *)


\* The numbers the content of the ring is told by.
LEMMA Counts ==
  ASSUME BlockReaders, IInv
  PROVE  /\ hav \in Nat /\ hav < Size /\ Size \in Nat
         /\ got \in Slots /\ did \in Slots /\ pos \in Nat
         /\ InFlight \in Nat /\ Landed \in Nat /\ Landed <= InFlight
         /\ InFlight + hav < Size
         /\ Passed \in Int
         /\ Ahead \in Nat /\ Ahead <= hav
         /\ got = Mask(did + hav)
         /\ out \in Seq(0 .. MaxIn) /\ Len(out) \in Nat
<1>1. got = Mask(did + hav)
  BY CursorAhead DEF IInv, TypeOK, hav
<1>2. /\ InFlight \in Nat /\ Landed \in Nat /\ Landed <= InFlight
      /\ InFlight + hav < Size
  <2>1. /\ hav \in Nat /\ hav < Size /\ rret \in Int
        /\ rpc \in {"copy", "relock"} =>
             rret > 0 /\ rret <= rsiz /\ rsiz \in Nat /\ rsiz + hav < Size
    BY Here, SizeAssumption DEF IInv, TypeOK, Claims, Room
  <2>2. Size \in Nat
    BY Here
  <2> HIDE DEF hav
  <2> QED BY <2>1, <2>2 DEF InFlight, Landed
<1>3. Ahead \in Nat /\ Ahead <= hav
  BY Here DEF IInv, TypeOK, Claims, Data, Ahead
<1>4. got \in Slots /\ did \in Slots /\ pos \in Nat
  BY BoundsAssumption DEF IInv, TypeOK
<1>5. out \in Seq(0 .. MaxIn) /\ Len(out) \in Nat
  BY DEF IInv, TypeOK
<1> HIDE DEF hav, InFlight, Landed, Ahead
<1> QED BY <1>1, <1>2, <1>3, <1>4, <1>5, Here DEF Passed

-----------------------------------------------------------------------------
(* Content is preserved.                                                   *)

\* A step that moves no byte and lets no task into, or out of, a place where
\* it has bytes in hand.
LEMMA QuietContent ==
  ASSUME Content,
         UNCHANGED <<opt, ring, pos, rchunk, out, wchunk>>,
         \/ rpc' = rpc /\ UNCHANGED <<rsiz, rret>>
         \/ rpc \notin {"copy", "relock"} /\ rpc' \notin {"copy", "relock"},
         \/ wpc' = wpc /\ UNCHANGED <<wsiz, wret>>
         \/ /\ wpc \notin {"write", "relock", "ewrite"}
            /\ wpc' \notin {"write", "relock", "ewrite"},
         Padded => Padded'
  PROVE  Content'
<1>1. UNCHANGED <<hav, InFlight, Landed, Passed, Ahead>>
  BY DEF ring, hav, InFlight, Landed, Passed, Ahead
<1>2. RingHolds'
  BY <1>1 DEF Content, RingHolds, ring
<1>3. ReaderHolds' /\ WriterHolds'
  BY <1>1 DEF Content, ReaderHolds, WriterHolds, ring
<1>4. Written'
  BY <1>1 DEF Content, Written, Unpadded, Delivered
<1>5. LastBlock'
  BY <1>1 DEF Content, LastBlock
<1> QED BY <1>2, <1>3, <1>4, <1>5 DEF Content

\* What the reader does between its calls.
LEMMA ReaderQuietContent ==
  ASSUME IInv, Content,
         \/ RLoop \/ RWait \/ RWoken \/ RPost
         \/ \E t \in {"reader"} : Open(t) \/ Lock(t) \/ Fail(t) \/ Finish(t) \/ Release(t)
  PROVE  Content'
<1>1. /\ UNCHANGED <<opt, ring, pos, rret, rchunk, wvars>>
      /\ wpc' = wpc
      /\ rpc \notin {"copy", "relock"} /\ rpc' \notin {"copy", "relock"}
      /\ rpc \in {"post", "end"} => rpc' \in {"post", "end"}
  BY DEF IInv, TypeOK, RLoop, RWait, RWoken, RPost, Open, Lock, Fail, Finish,
     Release, ReleaseDone, ReleaseData, ReleaseSpace, Goto, Tasks, rpc, wpc, rvars
<1>2. hav' = hav
  BY <1>1 DEF hav, ring
<1>3. Padded => Padded'
  BY <1>1, <1>2 DEF Padded, wvars
<1>4. UNCHANGED <<opt, ring, pos, rchunk, out, wchunk>>
  BY <1>1 DEF wvars
<1> QED BY <1>1, <1>3, <1>4, QuietContent DEF wvars

\* What the writer does between its calls.
LEMMA WriterQuietContent ==
  ASSUME IInv, Content,
         \/ WLoop \/ WWait \/ WWoken \/ WPost \/ WCheck
         \/ \E t \in {"writer"} : Open(t) \/ Lock(t) \/ Fail(t) \/ Finish(t) \/ Release(t)
  PROVE  Content'
<1>1. /\ UNCHANGED <<opt, ring, rvars, out, wret, wchunk>>
      /\ rpc' = rpc
      /\ wpc \notin {"write", "relock", "ewrite", "epi", "end"}
      /\ wpc' \notin {"write", "relock", "ewrite"}
  BY DEF IInv, TypeOK, WLoop, WWait, WWoken, WPost, WCheck, Open, Lock, Fail, Finish,
     Release, ReleaseDone, ReleaseData, ReleaseSpace, Goto, Tasks, rpc, wpc, wvars
<1>2. ~Padded
  BY <1>1 DEF Padded
<1>4. UNCHANGED <<opt, ring, pos, rchunk, out, wchunk>>
  BY <1>1 DEF rvars
<1> QED BY <1>1, <1>2, <1>4, QuietContent DEF rvars

\* Signals and the verdict.
LEMMA OtherQuietContent ==
  ASSUME IInv, Content, SigRelay \/ Reap \/ Terminated \/ UNCHANGED vars
  PROVE  Content'
<1>1. UNCHANGED <<opt, ring, rvars, wvars, rpc, wpc>>
  BY DEF IInv, TypeOK, SigRelay, Signal, Reap, Terminated, vars, Release, ReleaseDone,
     ReleaseData, ReleaseSpace, Goto, Tasks, rpc, wpc
<1>2. hav' = hav
  BY <1>1 DEF hav, ring
<1>3. Padded => Padded'
  BY <1>1, <1>2 DEF Padded, rvars, wvars
<1>4. UNCHANGED <<opt, ring, pos, rchunk, out, wchunk>>
  BY <1>1 DEF rvars, wvars
<1> QED BY <1>1, <1>3, <1>4, QuietContent DEF rvars, wvars

\* read() delivers the bytes that come next, into the ring or beside it.
LEMMA RReadContent ==
  ASSUME BlockReaders, IInv, Content, RRead
  PROVE  Content'
<1>1. /\ rpc = "read" /\ wpc' = wpc
      /\ UNCHANGED <<opt, got, did, hav, wvars>>
      /\ rpc' \in {"copy", "fin", "err"}
  <2>1. /\ rpc = "read" /\ wpc' = wpc
        /\ rpc' \in {"copy", "fin", "err"}
    BY DEF RRead, Goto, IInv, TypeOK, Tasks, rpc, wpc
  <2>2. UNCHANGED <<opt, got, did, hav, wvars>>
    BY DEF RRead, hav, ring
  <2> QED BY <2>1, <2>2
<1>2. InFlight = 0 /\ Landed = 0 /\ Passed = pos - hav
  BY <1>1, Counts DEF InFlight, Landed, Passed
<1>3. rsiz \in Nat /\ rsiz + hav < Size
  BY <1>1 DEF IInv, TypeOK, Claims, Room
<1>4. ~Padded
  BY <1>1 DEF Padded
<1>5. ASSUME NEW n \in 1 .. Least(rsiz, MaxIn - pos), NEW c,
             c = [k \in 0 .. n - 1 |-> pos + k + 1],
             IF Direct(opt, got, rsiz)
             THEN mem' = Store(opt, mem, got, n, c)
             ELSE rchunk' = c /\ UNCHANGED mem,
             rpc' = "copy", pos' = pos + n, rret' = n, rsiz' = rsiz
      PROVE  Content'
  <2>1. n \in Nat /\ n <= rsiz /\ n + hav < Size /\ hav + n < Size
    BY <1>3, Counts, BoundsAssumption DEF Least
  <2>2. InFlight' = n /\ Passed' = Passed /\ Ahead' = Ahead
    BY <1>1, <1>2, <1>5, <2>1, Counts DEF InFlight, Passed, Ahead, wvars
  <2>3. RingHolds'
    <3>1. CASE Direct(opt, got, rsiz)
      <4>1. Landed' = n
        BY <1>1, <1>5, <3>1 DEF Landed
      <4> SUFFICES ASSUME NEW k \in 0 .. hav + n - 1
                   PROVE  mem'[Mask(did + k)] = Passed + k + 1
        BY <1>1, <2>2, <4>1 DEF RingHolds
      <4>2. /\ mem' = Store(opt, mem, Mask(did + hav), n, c)
            /\ Direct(opt, Mask(did + hav), n)
        <5>1. Direct(opt, got, n)
          <6>1. got \in Nat /\ rsiz \in Nat /\ Size \in Nat
            BY <1>3, Counts DEF Slots
          <6> QED BY <2>1, <3>1, <6>1 DEF Direct
        <5> QED BY <1>5, <3>1, <5>1, Counts
      <4>3. hav \in Nat /\ did \in Slots /\ n \in Nat /\ hav + n < Size
        BY <2>1, Counts
      <4>4. /\ \A i \in 0 .. hav - 1 : mem'[Mask(did + i)] = mem[Mask(did + i)]
            /\ \A i \in 0 .. n - 1 : mem'[Mask(did + hav + i)] = c[i]
        <5> DEFINE S == Store(opt, mem, Mask(did + hav), n, c)
        <5>1. ASSUME NEW i \in 0 .. hav - 1
              PROVE  S[Mask(did + i)] = mem[Mask(did + i)]
          BY <4>2, <4>3, StoreKeeps
        <5>2. ASSUME NEW i \in 0 .. n - 1
              PROVE  S[Mask(did + hav + i)] = c[i]
          BY <4>2, <4>3, StorePuts
        <5>3. mem' = S
          BY <4>2
        <5> HIDE DEF S
        <5> QED BY <5>1, <5>2, <5>3
      <4>5. CASE k < hav
        <5>1. k \in 0 .. hav - 1 /\ k \in 0 .. hav + Landed - 1
          BY <1>2, <4>3, <4>5
        <5>2. mem[Mask(did + k)] = Passed + k + 1
          BY <5>1 DEF Content, RingHolds
        <5> QED BY <5>1, <5>2, <4>4
      <4>6. CASE k >= hav
        <5> DEFINE i == k - hav
        <5>1. i \in 0 .. n - 1 /\ did + hav + i = did + k /\ k = hav + i
          BY <4>3, <4>6 DEF Slots
        <5> HIDE DEF i
        <5>2. mem'[Mask(did + k)] = c[i]
          BY <5>1, <4>4
        <5>3. c[i] = pos + i + 1
          BY <1>5, <5>1
        <5> QED BY <5>1, <5>2, <5>3, <1>2, Counts
      <4> QED BY <4>3, <4>5, <4>6
    <3>2. CASE ~Direct(opt, got, rsiz)
      <4>1. Landed' = 0 /\ mem' = mem
        BY <1>1, <1>5, <3>2 DEF Landed
      <4> QED BY <1>1, <1>2, <2>2, <4>1, Counts DEF Content, RingHolds
    <3> QED BY <3>1, <3>2
  <2>4. ReaderHolds'
    <3> SUFFICES ASSUME ~Direct(opt, got, rsiz), NEW k \in 0 .. n - 1
                 PROVE  rchunk'[k] = Passed + hav + k + 1
      BY <1>1, <1>5, <2>2 DEF ReaderHolds
    <3> QED BY <1>2, <1>5, <2>1, Counts
  <2>5. WriterHolds'
    BY <1>1, <2>2 DEF Content, WriterHolds, wvars
  <2>6. Written'
    <3>1. Len(out) = Passed + Ahead
      BY <1>4 DEF Content, Written, Unpadded
    <3>2. Len(out) <= pos
      BY <1>2, <3>1, Counts
    <3>3. \A i \in 1 .. Len(out) : out[i] = IF i <= pos + n THEN i ELSE 0
      BY <2>1, <3>2, Counts DEF Content, Written, Delivered
    <3> QED BY <1>1, <1>5, <2>2, <3>1, <3>3 DEF Written, Unpadded, Delivered, wvars
  <2>7. LastBlock'
    BY <1>1 DEF Content, LastBlock, wvars
  <2> QED BY <2>3, <2>4, <2>5, <2>6, <2>7 DEF Content
<1>6. ASSUME rpc' \in {"fin", "err"}, UNCHANGED <<ring, pos, rchunk>>
      PROVE  Content'
  <2>1. UNCHANGED <<opt, ring, pos, rchunk, out, wchunk>> /\ UNCHANGED <<wsiz, wret>>
    BY <1>1, <1>6 DEF wvars
  <2> QED BY <1>1, <1>4, <1>6, <2>1, QuietContent
<1> QED BY <1>1, <1>5, <1>6 DEF RRead, Goto, IInv, TypeOK, Tasks, rpc

\* buf_commit_r() brings a bounced chunk to where a direct one is already.
LEMMA RCommitContent ==
  ASSUME BlockReaders, IInv, Content, RCommit
  PROVE  Content'
<1>1. /\ rpc = "copy" /\ rpc' = "relock" /\ wpc' = wpc
      /\ UNCHANGED <<opt, got, did, hav, pos, rsiz, rret, wvars>>
      /\ mem' = IF Direct(opt, got, rsiz) THEN mem ELSE BounceIn(mem, got, rret, rchunk)
  BY DEF RCommit, Goto, IInv, TypeOK, Tasks, rpc, wpc, hav
<1>2. /\ rret \in Nat /\ rret + hav < Size /\ hav + rret < Size
      /\ InFlight = rret /\ InFlight' = rret /\ Landed' = rret
      /\ UNCHANGED <<Passed, Ahead>>
  <2>1. InFlight = rret /\ InFlight' = rret /\ Landed' = rret
    BY <1>1 DEF InFlight, Landed
  <2>2. UNCHANGED <<Passed, Ahead>>
    BY <1>1, <2>1 DEF Passed, Ahead, wvars
  <2> QED BY <2>1, <2>2, Counts
<1>3. ~Padded
  BY <1>1 DEF Padded
<1>4. RingHolds'
  <2> SUFFICES ASSUME NEW k \in 0 .. hav + rret - 1
               PROVE  mem'[Mask(did + k)] = Passed + k + 1
    BY <1>1, <1>2 DEF RingHolds
  <2>1. CASE Direct(opt, got, rsiz)
    <3>1. Landed = rret
      BY <1>1, <2>1 DEF Landed
    <3> QED BY <1>1, <2>1, <3>1 DEF Content, RingHolds
  <2>2. CASE ~Direct(opt, got, rsiz)
    <3>1. mem' = BounceIn(mem, Mask(did + hav), rret, rchunk) /\ Landed = 0
      BY <1>1, <2>2, Counts DEF Landed
    <3>2. hav \in Nat /\ did \in Slots /\ rret \in Nat /\ hav + rret < Size
      BY <1>2, Counts
    <3>3. /\ \A i \in 0 .. hav - 1 : mem'[Mask(did + i)] = mem[Mask(did + i)]
          /\ \A i \in 0 .. rret - 1 : mem'[Mask(did + hav + i)] = rchunk[i]
      <4> DEFINE B == BounceIn(mem, Mask(did + hav), rret, rchunk)
      <4>1. ASSUME NEW i \in 0 .. hav - 1
            PROVE  B[Mask(did + i)] = mem[Mask(did + i)]
        BY <3>2, BounceInKeeps
      <4>2. ASSUME NEW i \in 0 .. rret - 1
            PROVE  B[Mask(did + hav + i)] = rchunk[i]
        BY <3>2, BounceInPuts
      <4>3. mem' = B
        BY <3>1
      <4> HIDE DEF B
      <4> QED BY <4>1, <4>2, <4>3
    <3>4. CASE k < hav
      <4>1. k \in 0 .. hav - 1 /\ k \in 0 .. hav + Landed - 1
        BY <3>1, <3>2, <3>4
      <4>2. mem[Mask(did + k)] = Passed + k + 1
        BY <4>1 DEF Content, RingHolds
      <4> QED BY <4>1, <4>2, <3>3
    <3>5. CASE k >= hav
      <4> DEFINE i == k - hav
      <4>1. i \in 0 .. rret - 1 /\ did + hav + i = did + k /\ k = hav + i
        BY <3>2, <3>5 DEF Slots
      <4> HIDE DEF i
      <4>2. mem'[Mask(did + k)] = rchunk[i]
        BY <4>1, <3>3
      <4>3. rchunk[i] = Passed + hav + i + 1
        BY <1>1, <2>2, <4>1 DEF Content, ReaderHolds
      <4> QED BY <4>1, <4>2, <4>3, Counts
    <3> QED BY <3>2, <3>4, <3>5
  <2> QED BY <2>1, <2>2
<1>5. ReaderHolds' /\ WriterHolds'
  BY <1>1, <1>2 DEF Content, ReaderHolds, WriterHolds, wvars
<1>6. Written'
  BY <1>1, <1>2, <1>3 DEF Content, Written, Unpadded, Delivered, wvars
<1>7. LastBlock'
  BY <1>1 DEF Content, LastBlock, wvars
<1> QED BY <1>4, <1>5, <1>6, <1>7 DEF Content

\* buf_commit_rf() makes the landed bytes part of the ring.
LEMMA RAdvanceContent ==
  ASSUME BlockReaders, IInv, Content, RAdvance
  PROVE  Content'
<1>1. /\ rpc = "relock" /\ rpc' = "loop" /\ wpc' = wpc
      /\ UNCHANGED <<opt, did, mem, pos, rchunk, wvars>>
      /\ got' = Mask(got + rret)
  BY DEF RAdvance, Goto, IInv, TypeOK, Tasks, rpc, wpc
<1>2. rret \in Nat /\ rret + hav < Size /\ InFlight = rret /\ Landed = rret
  BY <1>1, Counts DEF InFlight, Landed
<1>3. hav' = hav + rret
  BY <1>1, <1>2, FillRises, Counts DEF hav
<1>4. InFlight' = 0 /\ Landed' = 0 /\ UNCHANGED <<Passed, Ahead>>
  <2>1. InFlight' = 0 /\ Landed' = 0 /\ Ahead' = Ahead
    BY <1>1 DEF InFlight, Landed, Ahead, wvars
  <2>2. Passed' = Passed
    BY <1>1, <1>2, <1>3, <2>1, Counts DEF Passed
  <2> QED BY <2>1, <2>2
<1>5. RingHolds'
  BY <1>1, <1>2, <1>3, <1>4, Counts DEF Content, RingHolds
<1>6. ReaderHolds' /\ WriterHolds'
  BY <1>1, <1>4 DEF Content, ReaderHolds, WriterHolds, wvars
<1>7. Written'
  <2>1. ~Padded
    BY <1>1 DEF Padded
  <2> QED BY <1>1, <1>4, <2>1 DEF Content, Written, Unpadded, Delivered, wvars
<1>8. LastBlock'
  <2>1. wpc # "ewrite"
    BY <1>1 DEF IInv, Shutdown
  <2> QED BY <1>1, <2>1 DEF LastBlock
<1> QED BY <1>5, <1>6, <1>7, <1>8 DEF Content

\* buf_fetch_w() leaves the ring alone; a bounced block is a copy of it.
LEMMA WFetchContent ==
  ASSUME BlockReaders, IInv, Content, WFetch
  PROVE  Content'
<1>1. /\ wpc = "fetch" /\ wpc' = "write" /\ rpc' = rpc
      /\ UNCHANGED <<opt, got, did, mem, hav, rvars, out, wsiz, wret>>
      /\ wchunk' = IF Direct(opt, did, wsiz) THEN NoChunk ELSE BounceOut(mem, did, wsiz)
  BY DEF WFetch, Goto, IInv, TypeOK, Tasks, rpc, wpc, ring, hav
<1>2. UNCHANGED <<InFlight, Landed, Passed, Ahead>>
  BY <1>1 DEF InFlight, Landed, Passed, Ahead, rvars
<1>3. RingHolds' /\ ReaderHolds'
  BY <1>1, <1>2 DEF Content, RingHolds, ReaderHolds, rvars
<1>4. WriterHolds'
  <2> SUFFICES ASSUME ~Direct(opt, did, wsiz), NEW k \in 0 .. wsiz - 1
               PROVE  wchunk'[k] = Passed + k + 1
    BY <1>1, <1>2 DEF WriterHolds
  <2>1. wsiz \in Nat /\ wsiz <= hav /\ wsiz <= Size /\ did \in Slots
    BY <1>1, Counts DEF IInv, TypeOK, Claims, Data
  <2>2. wchunk'[k] = mem[Mask(did + k)]
    BY <1>1, <2>1, BounceOutRing
  <2>3. k \in 0 .. hav + Landed - 1
    BY <2>1, Counts
  <2> QED BY <2>2, <2>3 DEF Content, RingHolds
<1>5. Written'
  BY <1>1, <1>2 DEF Content, Written, Unpadded, Padded, Delivered, rvars
<1>6. LastBlock'
  BY <1>1 DEF LastBlock
<1> QED BY <1>3, <1>4, <1>5, <1>6 DEF Content

\* The bytes a write() finds are the ones that come next in the output.
LEMMA NextBytes ==
  ASSUME BlockReaders, IInv, Content, wpc \in {"write", "ewrite"},
         NEW k \in 0 .. wsiz - 1
  PROVE  /\ mem[Mask(did + k)] = Len(out) + k + 1
         /\ Len(out) = Passed
         /\ Len(out) + k + 1 <= pos /\ pos <= MaxIn
         /\ wpc = "write" /\ ~Direct(opt, did, wsiz) => wchunk[k] = Len(out) + k + 1
<1>1. wsiz \in Nat /\ wsiz <= hav /\ wsiz > 0
  BY Counts DEF IInv, TypeOK, Claims, Data
<1>2. Len(out) = Passed
  BY Counts DEF Content, Written, Unpadded, Padded, Ahead
<1>3. k \in 0 .. hav + Landed - 1
  BY <1>1, Counts
<1>4. mem[Mask(did + k)] = Passed + k + 1
  BY <1>3 DEF Content, RingHolds
<1>5. Passed + k + 1 <= pos
  BY <1>1, Counts DEF Passed
<1>6. pos <= MaxIn
  BY BoundsAssumption DEF IInv, TypeOK
<1>7. wpc = "write" /\ ~Direct(opt, did, wsiz) => wchunk[k] = Passed + k + 1
  BY DEF Content, WriterHolds
<1> QED BY <1>2, <1>4, <1>5, <1>6, <1>7

\* Appending bytes of the input, and zeros behind its end, to an output that
\* shows the input.
LEMMA EmitDelivers ==
  ASSUME BlockReaders, IInv, Delivered, pos' = pos,
         NEW n \in Nat, NEW c, Emit(n, c),
         \A k \in 0 .. n - 1 :
           /\ c[k] \in 0 .. MaxIn
           /\ Len(out) + k + 1 <= pos => c[k] = Len(out) + k + 1
           /\ Len(out) + k + 1 > pos  => c[k] = 0
  PROVE  Delivered' /\ Len(out') = Len(out) + n
<1>1. out \in Seq(0 .. MaxIn) /\ pos \in Nat /\ MaxIn \in Nat
  BY Counts, BoundsAssumption
<1>2. InputFirst(out, pos) /\ Continues(c, n, Len(out), pos, MaxIn)
  BY DEF Delivered, InputFirst, Continues
<1>3. Len(out \o AsSeq(c, n)) = Len(out) + n /\ InputFirst(out \o AsSeq(c, n), pos)
  BY <1>1, <1>2, AppendDelivers, ZenonT(30)
<1> QED BY <1>3 DEF Emit, Delivered, InputFirst

\* write() appends them.
LEMMA WWriteContent ==
  ASSUME BlockReaders, IInv, Content, WWrite
  PROVE  Content'
<1>1. /\ wpc = "write" /\ wpc' \in {"relock", "err"} /\ rpc' = rpc
      /\ UNCHANGED <<opt, got, did, mem, hav, rvars>>
  <2>1. wpc = "write" /\ wpc' \in {"relock", "err"} /\ rpc' = rpc
    BY DEF WWrite, Goto, IInv, TypeOK, Tasks, rpc, wpc
  <2>2. UNCHANGED <<opt, got, did, mem, hav, rvars>>
    BY DEF WWrite, ring, hav
  <2> QED BY <2>1, <2>2
<1>2. UNCHANGED <<InFlight, Landed, Passed>>
  BY <1>1 DEF InFlight, Landed, Passed, rvars
<1>3. RingHolds' /\ ReaderHolds'
  BY <1>1, <1>2 DEF Content, RingHolds, ReaderHolds, rvars
<1>4. WriterHolds' /\ LastBlock'
  BY <1>1 DEF WriterHolds, LastBlock
<1>5. wsiz \in Nat /\ wsiz > 0 /\ wsiz <= hav /\ wsiz <= Size /\ did \in Slots
  BY <1>1, Counts DEF IInv, TypeOK, Claims, Data
<1>6. ~Padded /\ Ahead = 0
  BY <1>1 DEF Padded, Ahead
<1>7. Len(out) = Passed
  BY <1>6, Counts DEF Content, Written, Unpadded
<1>8. ASSUME NEW n \in Taken(opt, wsiz), wpc' = "relock", wret' = n,
             Emit(n, IF Direct(opt, did, wsiz) THEN Load(opt, mem, did, wsiz)
                     ELSE wchunk)
      PROVE  Written'
  <2> DEFINE c == IF Direct(opt, did, wsiz) THEN Load(opt, mem, did, wsiz)
                  ELSE wchunk
  <2>1. n \in Nat /\ n <= wsiz
    BY <1>5 DEF Taken
  <2>2. ASSUME NEW k \in 0 .. n - 1
        PROVE  c[k] = Len(out) + k + 1 /\ c[k] <= pos /\ c[k] \in 0 .. MaxIn
    <3>1. k \in 0 .. wsiz - 1
      BY <1>5, <2>1
    <3>2. c[k] = Len(out) + k + 1
      <4>1. CASE Direct(opt, did, wsiz)
        <5>1. c[k] = mem[Mask(did + k)]
          BY <1>5, <3>1, <4>1, LoadRing
        <5> QED BY <1>1, <3>1, <5>1, NextBytes
      <4>2. CASE ~Direct(opt, did, wsiz)
        BY <1>1, <3>1, <4>2, NextBytes
      <4> QED BY <4>1, <4>2
    <3>3. Len(out) + k + 1 <= pos /\ pos <= MaxIn /\ Len(out) \in Nat
      BY <1>1, <3>1, NextBytes, Counts
    <3> HIDE DEF c
    <3> QED BY <3>2, <3>3, BoundsAssumption, Counts
  <2>3. Emit(n, c) /\ pos' = pos /\ Delivered
    BY <1>1, <1>8 DEF rvars, Content, Written
  <2> HIDE DEF c
  <2>4. \A k \in 0 .. n - 1 :
           /\ c[k] \in 0 .. MaxIn
           /\ Len(out) + k + 1 <= pos => c[k] = Len(out) + k + 1
           /\ Len(out) + k + 1 > pos  => c[k] = 0
    BY <2>1, <2>2, Counts
  <2>5. Delivered' /\ Len(out') = Len(out) + n
    BY <2>1, <2>3, <2>4, EmitDelivers
  <2>6. Unpadded'
    BY <1>2, <1>7, <1>8, <2>5 DEF Unpadded, Ahead
  <2> QED BY <2>5, <2>6 DEF Written
<1>9. ASSUME wpc' = "err", out' = out
      PROVE  Written'
  BY <1>1, <1>2, <1>6, <1>9 DEF Content, Written, Unpadded, Ahead, Delivered, rvars
<1>10. Written'
  BY <1>8, <1>9 DEF WWrite, Goto, IInv, TypeOK, Tasks, wpc
<1> QED BY <1>3, <1>4, <1>10 DEF Content

\* Moving the consumer's cursor over m bytes leaves the rest where it is.
LEMMA Consumed ==
  ASSUME BlockReaders, IInv, Content, NEW m \in Nat, m <= hav,
         did' = Mask(did + m), rpc' = rpc,
         UNCHANGED <<opt, got, mem, pos, rsiz, rret, rchunk>>
  PROVE  /\ hav' = hav - m /\ Passed' = Passed + m /\ InFlight' = InFlight
         /\ RingHolds' /\ ReaderHolds'
<1>1. hav' = hav - m
  BY FillFalls, Counts DEF hav
<1>2. InFlight' = InFlight /\ Landed' = Landed
  BY DEF InFlight, Landed
<1>3. Passed' = Passed + m
  BY <1>1, <1>2, Counts DEF Passed
<1>4. RingHolds'
  <2> SUFFICES ASSUME NEW k \in 0 .. hav - m + Landed - 1
               PROVE  mem[Mask(did' + k)] = Passed + m + k + 1
    BY <1>1, <1>2, <1>3 DEF RingHolds
  <2>1. /\ k \in Nat /\ m + k <= Size /\ m + k \in 0 .. hav + Landed - 1
        /\ did \in Slots /\ Passed \in Int
    BY Counts
  <2>2. Mask(Mask(did + m) + k) = Mask(did + m + k)
    BY <2>1, MovesAdd
  <2>3. did + m + k = did + (m + k)
    BY <2>1 DEF Slots
  <2>4. mem[Mask(did + (m + k))] = Passed + (m + k) + 1
    BY <2>1 DEF Content, RingHolds
  <2> QED BY <2>1, <2>2, <2>3, <2>4
<1>5. ReaderHolds'
  <2>1. Passed' + hav' = Passed + hav
    BY <1>1, <1>3, Counts
  <2> SUFFICES ASSUME rpc = "copy", ~Direct(opt, got, rsiz), NEW k \in 0 .. rret - 1
               PROVE  rchunk[k] = Passed' + hav' + k + 1
    BY DEF ReaderHolds
  <2> QED BY <2>1 DEF Content, ReaderHolds
<1> QED BY <1>1, <1>2, <1>3, <1>4, <1>5

\* buf_commit_wf() counts what was written.
LEMMA WAdvanceContent ==
  ASSUME BlockReaders, IInv, Content, WAdvance
  PROVE  Content'
<1>1. /\ wpc = "relock" /\ wpc' = "loop" /\ rpc' = rpc
      /\ UNCHANGED <<opt, got, mem, pos, rsiz, rret, rchunk, out>>
      /\ did' = Mask(did + wret)
  BY DEF WAdvance, Goto, IInv, TypeOK, Tasks, rpc, wpc, rvars
<1>2. wret \in Nat /\ wret <= hav /\ Ahead = wret /\ Ahead' = 0
  BY <1>1, Counts DEF IInv, TypeOK, Ahead
<1>3. Passed' = Passed + wret /\ RingHolds' /\ ReaderHolds'
  BY <1>1, <1>2, Consumed
<1>4. WriterHolds' /\ LastBlock'
  BY <1>1 DEF WriterHolds, LastBlock
<1>5. Written'
  <2>1. Len(out) = Passed + wret
    BY <1>1, <1>2 DEF Content, Written, Unpadded, Padded
  <2>2. Unpadded'
    BY <1>1, <1>2, <1>3, <2>1, Counts DEF Unpadded
  <2> QED BY <1>1, <2>2 DEF Content, Written, Delivered
<1> QED BY <1>3, <1>4, <1>5 DEF Content

\* The loop of the epilogue asks for a whole block, or for all there is.
LEMMA WEpilogueContent ==
  ASSUME BlockReaders, IInv, Content, WEpilogue
  PROVE  Content'
<1> DEFINE siz == GrantW(opt, hav, wstall, wmin, wsp)
<1>1. /\ wpc = "epi" /\ wpc' = IF siz = 0 THEN "end" ELSE "ewrite"
      /\ rpc' = rpc /\ wsiz' = siz
  BY DEF WEpilogue, Goto, IInv, TypeOK, Tasks, rpc, wpc, hav
<1>2. UNCHANGED <<opt, ring, hav, rvars, out, wret, wchunk>>
  BY DEF WEpilogue, hav, ring
<1>3. /\ siz = 0 \/ siz = opt.wblk \/ (siz < opt.wblk /\ siz = hav)
      /\ hav = 0 => siz = 0
  <2>1. wmin = 1 /\ ~wstall
    BY <1>1 DEF IInv, Limits
  <2>2. opt.wblk \in Nat /\ opt.wblk > 0 /\ hav \in Nat
    BY Here
  <2>3. GrantW(opt, hav, FALSE, 1, wsp) =
          IF hav >= opt.wblk THEN opt.wblk ELSE IF hav >= 1 THEN hav ELSE 0
    BY <2>2 DEF GrantW
  <2>4. siz = GrantW(opt, hav, FALSE, 1, wsp)
    BY <2>1 DEF IInv, TypeOK
  <2> HIDE DEF siz
  <2>5. siz = IF hav >= opt.wblk THEN opt.wblk ELSE IF hav >= 1 THEN hav ELSE 0
    BY <2>3, <2>4
  <2>6. hav >= opt.wblk => siz = opt.wblk
    BY <2>5
  <2>7. ~(hav >= opt.wblk) => siz = hav
    BY <2>2, <2>5
  <2> QED BY <2>2, <2>6, <2>7
<1> HIDE DEF siz
<1>4. UNCHANGED <<InFlight, Landed, Passed>> /\ Ahead = 0 /\ Ahead' = 0
  <2>1. UNCHANGED <<InFlight, Landed, Passed>>
    BY <1>1, <1>2 DEF InFlight, Landed, Passed, ring, rvars
  <2>2. Ahead = 0 /\ Ahead' = 0
    BY <1>1 DEF Ahead
  <2> QED BY <2>1, <2>2
<1>5. RingHolds' /\ ReaderHolds'
  BY <1>1, <1>2, <1>4 DEF Content, RingHolds, ReaderHolds, ring, rvars
<1>6. WriterHolds'
  BY <1>1 DEF WriterHolds
<1>7. LastBlock'
  BY <1>1, <1>2, <1>3 DEF LastBlock
<1>8. Written'
  <2>1. Padded => Padded'
    BY <1>1, <1>2, <1>3 DEF Padded, rvars
  <2>2. Unpadded => Unpadded'
    BY <1>2, <1>4 DEF Unpadded
  <2> QED BY <1>2, <2>1, <2>2 DEF Content, Written, Delivered, rvars
<1> QED BY <1>5, <1>6, <1>7, <1>8 DEF Content

\* The epilogue writes what is left, and zeros only behind all of it.
LEMMA WEpiWriteContent ==
  ASSUME BlockReaders, IInv, Content, WEpiWrite
  PROVE  Content'
<1>1. /\ wpc = "ewrite" /\ wpc' \in {"epi", "end"} /\ rpc' = rpc
      /\ UNCHANGED <<opt, got, mem, rvars>>
  <2>1. wpc = "ewrite" /\ wpc' \in {"epi", "end"} /\ rpc' = rpc
    BY DEF WEpiWrite, Goto, IInv, TypeOK, Tasks, rpc, wpc
  <2>2. UNCHANGED <<opt, got, mem, rvars>>
    BY DEF WEpiWrite, ring
  <2> QED BY <2>1, <2>2
<1>2. UNCHANGED <<pos, rsiz, rret, rchunk>>
  BY <1>1 DEF rvars
<1>3. /\ wsiz \in Nat /\ wsiz > 0 /\ wsiz <= hav /\ wsiz <= Size /\ did \in Slots
      /\ opt.wblk \in Nat
  BY <1>1, Counts, Here DEF IInv, TypeOK, Claims, Data
<1>4. ~Padded /\ Len(out) = Passed /\ Ahead = 0 /\ Ahead' = 0
  <2>1. ~Padded /\ Ahead = 0 /\ Ahead' = 0
    BY <1>1 DEF Padded, Ahead
  <2> QED BY <2>1, Counts DEF Content, Written, Unpadded
<1>5. WriterHolds' /\ LastBlock'
  BY <1>1 DEF WriterHolds, LastBlock
<1>6. rpc \in {"post", "end"} /\ rret = 0 /\ InFlight = 0
  BY <1>1 DEF IInv, Shutdown, InFlight
<1>7. ASSUME NEW n \in Taken(opt, wsiz + Padding(opt, wsiz)), wpc' = "epi",
             Emit(n, FetchPadded(opt, mem, did, wsiz)),
             did' = Mask(did + Least(wsiz, n))
      PROVE  Content'
  <2> DEFINE c == FetchPadded(opt, mem, did, wsiz)
             p == Padding(opt, wsiz)
             m == Least(wsiz, n)
  <2>1. p \in Nat /\ p = IF opt.strict /\ wsiz < opt.wblk THEN opt.wblk - wsiz ELSE 0
    BY <1>3 DEF Padding
  <2>2. n \in Nat /\ n > 0 /\ n <= wsiz + p
    BY <1>3, <2>1 DEF Taken
  <2>3. m \in Nat /\ m <= hav /\ m <= n
    BY <1>3, <2>2, Counts DEF Least
  <2>4. hav' = hav - m /\ Passed' = Passed + m /\ InFlight' = 0 /\ RingHolds' /\ ReaderHolds'
    BY <1>1, <1>2, <1>6, <1>7, <2>3, Consumed
  <2>5. n > wsiz => opt.strict /\ wsiz < opt.wblk /\ wsiz = hav /\ n <= opt.wblk
    BY <1>1, <1>3, <2>1, <2>2 DEF Content, LastBlock
  <2>6. Passed = pos - hav
    BY <1>6, Counts DEF Passed
  <2>7. ASSUME NEW k \in 0 .. n - 1
        PROVE  /\ c[k] \in 0 .. MaxIn
               /\ Len(out) + k + 1 <= pos => c[k] = Len(out) + k + 1
               /\ Len(out) + k + 1 > pos  => c[k] = 0
    <3>1. CASE k < wsiz
      <4>1. k \in 0 .. wsiz - 1
        BY <3>1, <1>3
      <4>2. c[k] = mem[Mask(did + k)]
        BY <1>3, <4>1, PaddedData
      <4> HIDE DEF c
      <4>3. /\ c[k] = Len(out) + k + 1
            /\ Len(out) + k + 1 <= pos /\ pos <= MaxIn
        BY <1>1, <4>1, <4>2, NextBytes
      <4> QED BY <4>1, <4>3, Counts, BoundsAssumption
    <3>2. CASE k >= wsiz
      <4>1. k \in wsiz .. wsiz + p - 1
        BY <3>2, <1>3, <2>1, <2>2
      <4>2. c[k] = 0
        BY <1>3, <4>1, PaddedZeros
      <4>3. Len(out) + k + 1 > pos
        BY <1>3, <1>4, <2>2, <2>5, <2>6, <3>2, Counts
      <4> QED BY <4>2, <4>3, BoundsAssumption, Counts
    <3> QED BY <1>3, <3>1, <3>2
  <2> HIDE DEF c
  <2>8. Delivered' /\ Len(out') = Len(out) + n
    <3>1. Delivered /\ pos' = pos /\ Emit(n, c) /\ n \in Nat
      BY <1>2, <1>7, <2>2 DEF c, Content, Written
    <3> QED BY <2>7, <3>1, EmitDelivers
  <2>9. Unpadded' \/ Padded'
    <3>1. CASE n <= wsiz
      <4>1. m = n
        BY <3>1, <1>3, <2>2 DEF Least
      <4> QED BY <4>1, <1>4, <2>2, <2>4, <2>8, Counts DEF Unpadded
    <3>2. CASE n > wsiz
      <4>1. m = hav /\ hav' = 0
        BY <3>2, <1>3, <2>2, <2>4, <2>5, Counts DEF Least
      <4>2. pos < Len(out') /\ Len(out') < pos + opt.wblk
        <5>1. hav \in Nat /\ pos \in Nat /\ Len(out) \in Nat
          BY Counts
        <5>2. Len(out) = pos - hav /\ Len(out') = Len(out) + n
          BY <1>4, <2>6, <2>8
        <5>3. wsiz = hav /\ n <= opt.wblk /\ n \in Nat /\ opt.wblk \in Nat
          BY <1>3, <2>2, <2>5, <3>2
        <5> QED BY <1>3, <3>2, <5>1, <5>2, <5>3
      <4> QED BY <4>1, <4>2, <1>1, <1>2, <1>6, <1>7, <2>5, <3>2 DEF Padded
    <3> QED BY <3>1, <3>2, <1>3, <2>2
  <2> QED BY <1>5, <2>4, <2>8, <2>9 DEF Content, Written
<1>8. ASSUME wpc' = "end", UNCHANGED <<ring, out>>
      PROVE  Content'
  <2>1. UNCHANGED <<hav, InFlight, Landed, Passed>>
    BY <1>1, <1>2, <1>8 DEF hav, ring, InFlight, Landed, Passed
  <2>2. RingHolds' /\ ReaderHolds'
    BY <1>1, <1>2, <1>8, <2>1 DEF Content, RingHolds, ReaderHolds, ring
  <2>3. Written'
    BY <1>2, <1>4, <1>8, <2>1 DEF Content, Written, Unpadded, Delivered
  <2> QED BY <1>5, <2>2, <2>3 DEF Content
<1> QED BY <1>7, <1>8 DEF WEpiWrite, Goto, IInv, TypeOK, Tasks, wpc

\* setup_env() starts with nothing read and nothing written.
LEMMA InitContent ==
  ASSUME BlockReaders, Init
  PROVE  Content
<1>1. rpc = "open" /\ wpc = "open"
  BY DEF Init, rpc, wpc, Tasks
<1>2. hav = 0
  BY MaskWraps, SizeAssumption DEF Init, hav, Hav, Slots
<1>3. InFlight = 0 /\ Landed = 0 /\ Ahead = 0 /\ Passed = 0
  <2>1. InFlight = 0 /\ Landed = 0 /\ Ahead = 0
    BY <1>1 DEF InFlight, Landed, Ahead
  <2>2. pos = 0
    BY DEF Init
  <2> QED BY <1>2, <2>1, <2>2 DEF Passed
<1>4. out = << >> /\ Len(out) = 0
  BY DEF Init
<1>5. RingHolds
  BY <1>2, <1>3 DEF RingHolds
<1>6. ReaderHolds /\ WriterHolds /\ LastBlock
  BY <1>1 DEF ReaderHolds, WriterHolds, LastBlock
<1>7. Written
  BY <1>3, <1>4 DEF Written, Unpadded, Delivered
<1> QED BY <1>5, <1>6, <1>7 DEF Content

\* Every step keeps the bytes where Content says they are.
LEMMA NextContent ==
  ASSUME BlockReaders, IInv, Content, [Next]_vars
  PROVE  Content'
<1>1. CASE Reader
  BY <1>1, ReaderQuietContent, RReadContent, RCommitContent, RAdvanceContent
  DEF Reader
<1>2. CASE Writer
  BY <1>2, WriterQuietContent, WFetchContent, WWriteContent, WAdvanceContent,
     WEpilogueContent, WEpiWriteContent
  DEF Writer
<1>3. CASE SigRelay \/ Reap \/ Terminated \/ UNCHANGED vars
  BY <1>3, OtherQuietContent
<1> QED BY <1>1, <1>2, <1>3 DEF Next

-----------------------------------------------------------------------------
(* Verdict is preserved.                                                   *)

\* The arbiter waits as long as a worker runs.
LEMMA ReaderVerdict ==
  ASSUME BlockReaders, IInv, Verdict, Reader
  PROVE  Verdict'
<1>1. /\ pc \in [Tasks -> Locations] /\ rpc # "end"
      /\ pc'["arbiter"] = pc["arbiter"] /\ wpc' = wpc
      /\ UNCHANGED <<did, ret>>
      /\ rpc \in {"post", "end"} => rpc' = "end" /\ rret' = rret /\ got' = got
  <2>1. pc \in [Tasks -> Locations]
    BY DEF IInv, TypeOK
  <2>2. /\ rpc # "end" /\ pc'["arbiter"] = pc["arbiter"] /\ wpc' = wpc
        /\ rpc \in {"post", "end"} => rpc' = "end"
    BY <2>1 DEF Reader, Open, Lock, RLoop, RWait, RWoken, RRead, RCommit, RAdvance,
       Fail, Finish, RPost, Release, ReleaseDone, ReleaseData, ReleaseSpace, Goto,
       Tasks, rpc, wpc
  <2>3. UNCHANGED <<did, ret>>
    BY DEF Reader, Open, Lock, RLoop, RWait, RWoken, RRead, RCommit, RAdvance,
       Fail, Finish, RPost, Release, ReleaseDone, ReleaseData, ReleaseSpace, ring
  <2>4. rpc \in {"post", "end"} => RPost
    BY DEF Reader, Open, Lock, RLoop, RWait, RWoken, RRead, RCommit, RAdvance,
       Fail, Finish, RPost, Release, ReleaseDone, ReleaseData, ReleaseSpace, Goto, rpc
  <2>5. RPost => rret' = rret /\ got' = got
    BY DEF RPost, rvars, ring
  <2> QED BY <2>1, <2>2, <2>3, <2>4, <2>5
<1>2. ret = "running" /\ ret' = "running" /\ pc'["arbiter"] = "reap"
  BY <1>1 DEF Verdict
<1>3. errlog \subseteq errlog' /\ (abrt' => errlog' # {})
  <2>1. \/ UNCHANGED <<errlog, abrt>>
        \/ errlog' = errlog \union {<<"ini", "reader">>}
        \/ errlog' = errlog \union {<<"err", "reader">>}
    BY DEF Reader, Open, Lock, RLoop, RWait, RWoken, RRead, RCommit, RAdvance,
       Fail, Finish, RPost, Release, ReleaseDone, ReleaseData, ReleaseSpace, ends,
       Record
  <2>2. abrt => errlog # {}
    BY DEF Verdict
  <2>3. CASE UNCHANGED <<errlog, abrt>>
    BY <2>2, <2>3
  <2>4. CASE \/ errlog' = errlog \union {<<"ini", "reader">>}
             \/ errlog' = errlog \union {<<"err", "reader">>}
    BY <2>4
  <2> QED BY <2>1, <2>3, <2>4
<1>4. rret' = 0 => rpc' \in {"fin", "post", "end"}
  <2>1. CASE RRead
    <3>1. rret' # 0 \/ Goto("reader", "read", "fin")
      <4>1. Least(rsiz, MaxIn - pos) \in Int
        BY BoundsAssumption DEF IInv, TypeOK, Least
      <4>2. \A n \in 1 .. Least(rsiz, MaxIn - pos) : n # 0
        BY <4>1
      <4>3. \/ \E n \in 1 .. Least(rsiz, MaxIn - pos) : rret' = n
            \/ Goto("reader", "read", "fin") \/ rret' = -1
        BY <2>1, Zenon DEF RRead
      <4> QED BY <4>2, <4>3
    <3>2. Goto("reader", "read", "fin") => rpc' = "fin"
      BY <1>1 DEF Goto, Tasks, rpc
    <3> QED BY <3>1, <3>2
  <2>2. CASE RAdvance
    BY <2>2 DEF RAdvance
  <2>3. CASE ~RRead /\ ~RAdvance
    <3>1. rret' = rret
      BY <2>3 DEF Reader, Open, Lock, RLoop, RWait, RWoken, RCommit,
         Fail, Finish, RPost, Release, ReleaseDone, ReleaseData, ReleaseSpace, rvars
    <3>2. rpc \in {"fin", "post"} => rpc' \in {"post", "end"}
      BY <1>1 DEF Reader, Open, Lock, RLoop, RWait, RWoken, RRead, RCommit, RAdvance,
         Fail, Finish, RPost, Release, ReleaseDone, ReleaseData, ReleaseSpace, Goto,
         Tasks, rpc
    <3> QED BY <3>1, <3>2, <1>1 DEF Verdict
  <2> QED BY <2>1, <2>2, <2>3
<1>5. \A t \in {"reader", "writer"} :
        pc'[t] \in {"rel_nodata", "rel_nospace"} => errlog' # {}
  <2>1. rpc' \in {"rel_nodata", "rel_nospace"} =>
          rpc \in {"rel_done", "rel_nodata"}
    BY <1>1 DEF Reader, Open, Lock, RLoop, RWait, RWoken, RRead, RCommit, RAdvance,
       Fail, Finish, RPost, Release, ReleaseDone, ReleaseData, ReleaseSpace, Goto,
       Tasks, rpc
  <2>2. rpc = "rel_done" => abrt
    BY DEF IInv, Shutdown, Tasks, rpc
  <2> QED BY <2>1, <2>2, <1>1, <1>3 DEF Verdict, rpc, wpc
<1>6. wpc' = "end" /\ errlog' = {} =>
        hav' = 0 /\ rret' = 0 /\ rpc' \in {"post", "end"}
  BY <1>1, <1>3 DEF Verdict, hav
<1> QED BY <1>2, <1>3, <1>4, <1>5, <1>6 DEF Verdict

\* The writer ends after a failure, or with the ring empty behind the input.
LEMMA WriterVerdict ==
  ASSUME BlockReaders, IInv, Verdict, Writer
  PROVE  Verdict'
<1>1. /\ pc \in [Tasks -> Locations] /\ wpc # "end"
      /\ pc'["arbiter"] = pc["arbiter"] /\ rpc' = rpc
      /\ UNCHANGED <<rret, ret>>
  <2>1. pc \in [Tasks -> Locations]
    BY DEF IInv, TypeOK
  <2>2. wpc # "end" /\ pc'["arbiter"] = pc["arbiter"] /\ rpc' = rpc
    BY <2>1 DEF Writer, Open, Lock, WLoop, WWait, WWoken, WFetch, WWrite, WAdvance,
       Fail, Finish, WPost, WCheck, WEpilogue, WEpiWrite, Release, ReleaseDone,
       ReleaseData, ReleaseSpace, Goto, Tasks, rpc, wpc
  <2>3. UNCHANGED <<rret, ret>>
    BY DEF Writer, Open, Lock, WLoop, WWait, WWoken, WFetch, WWrite, WAdvance,
       Fail, Finish, WPost, WCheck, WEpilogue, WEpiWrite, Release, ReleaseDone,
       ReleaseData, ReleaseSpace, rvars
  <2> QED BY <2>1, <2>2, <2>3
<1>2. ret = "running" /\ ret' = "running" /\ pc'["arbiter"] = "reap"
  BY <1>1 DEF Verdict
<1>3. errlog \subseteq errlog' /\ (abrt' => errlog' # {})
  <2>1. \/ UNCHANGED <<errlog, abrt>>
        \/ errlog' = errlog \union {<<"ini", "writer">>}
        \/ errlog' = errlog \union {<<"err", "writer">>}
    BY DEF Writer, Open, Lock, WLoop, WWait, WWoken, WFetch, WWrite, WAdvance,
       Fail, Finish, WPost, WCheck, WEpilogue, WEpiWrite, Release, ReleaseDone,
       ReleaseData, ReleaseSpace, ends, Record
  <2>2. abrt => errlog # {}
    BY DEF Verdict
  <2>3. CASE UNCHANGED <<errlog, abrt>>
    BY <2>2, <2>3
  <2>4. CASE \/ errlog' = errlog \union {<<"ini", "writer">>}
             \/ errlog' = errlog \union {<<"err", "writer">>}
    BY <2>4
  <2> QED BY <2>1, <2>3, <2>4
<1>4. \A t \in {"reader", "writer"} :
        pc'[t] \in {"rel_nodata", "rel_nospace"} => errlog' # {}
  <2>1. wpc' \in {"rel_nodata", "rel_nospace"} =>
          wpc \in {"rel_done", "rel_nodata"}
    BY <1>1 DEF Writer, Open, Lock, WLoop, WWait, WWoken, WFetch, WWrite, WAdvance,
       Fail, Finish, WPost, WCheck, WEpilogue, WEpiWrite, Release, ReleaseDone,
       ReleaseData, ReleaseSpace, Goto, Tasks, wpc
  <2>2. wpc = "rel_done" => abrt
    BY DEF IInv, Shutdown, Tasks, wpc
  <2> QED BY <2>1, <2>2, <1>1, <1>3 DEF Verdict, rpc, wpc
<1>5. wpc' = "end" /\ errlog' = {} =>
        hav' = 0 /\ rret' = 0 /\ rpc' \in {"post", "end"}
  <2> SUFFICES ASSUME wpc' = "end", errlog' = {}
               PROVE  hav' = 0 /\ rret' = 0 /\ rpc' \in {"post", "end"}
    OBVIOUS
  <2>1. errlog = {} /\ ~abrt /\ wpc # "rel_nospace"
    BY <1>3 DEF Verdict, wpc
  <2>2. WEpilogue
    <3>1. wpc = "rel_nospace" \/ WCheck \/ WEpilogue \/ <<"err", "writer">> \in errlog'
      BY <1>1 DEF Writer, Open, Lock, WLoop, WWait, WWoken, WFetch, WWrite, WAdvance,
         Fail, Finish, WPost, WEpiWrite, Release, ReleaseDone,
         ReleaseData, ReleaseSpace, Goto, Tasks, wpc
    <3>2. ~WCheck
      BY <2>1, <1>1 DEF WCheck, Goto, Tasks, wpc
    <3> QED BY <2>1, <3>1, <3>2
  <2>3. wpc = "epi" /\ hav' = hav /\ GrantW(opt, hav, wstall, wmin, wsp) = 0
    <3>1. hav' = hav
      BY <2>2 DEF WEpilogue, ring, hav
    <3>2. Goto("writer", "epi", IF GrantW(opt, hav, wstall, wmin, wsp) = 0
                                THEN "end" ELSE "ewrite")
      BY <2>2 DEF WEpilogue, hav
    <3> HIDE DEF hav
    <3>3. wpc = "epi" /\ (GrantW(opt, hav, wstall, wmin, wsp) # 0 => wpc' = "ewrite")
      BY <3>2, <1>1 DEF Goto, Tasks, wpc
    <3> QED BY <3>1, <3>3
  <2>4. wmin = 1 /\ wsp = 0 /\ ~wstall /\ rret = 0 /\ rpc \in {"post", "end"}
    BY <2>3 DEF IInv, Limits, Shutdown
  <2>5. hav < wmin
    BY <2>3, <2>4, Here, WriterLimits, GrantWThere DEF IInv, TypeOK
  <2> QED BY <1>1, <2>3, <2>4, <2>5, Here
<1> QED BY <1>1, <1>2, <1>3, <1>4, <1>5 DEF Verdict

\* A signal is recorded before anything it releases, and the arbiter reads
\* errlog when both workers are gone.
LEMMA OtherVerdict ==
  ASSUME BlockReaders, IInv, Verdict, SigRelay \/ Reap \/ Terminated \/ UNCHANGED vars
  PROVE  Verdict'
<1>1. pc \in [Tasks -> Locations]
  BY DEF IInv, TypeOK
<1>2. CASE SigRelay
  <2>1. /\ pc["arbiter"] = "reap" /\ pc'["arbiter"] = "reap"
        /\ rpc' = rpc /\ wpc' = wpc
    BY <1>1, <1>2 DEF SigRelay, Signal, Release, ReleaseDone, ReleaseData,
       ReleaseSpace, Goto, Tasks, rpc, wpc
  <2>2. UNCHANGED <<rret, got, did, ret>>
    BY <1>2 DEF SigRelay, Signal, Release, ReleaseDone, ReleaseData, ReleaseSpace,
       ring, rvars
  <2>3. errlog \subseteq errlog' /\ (UNCHANGED abrt \/ errlog' # {})
    BY <1>2 DEF SigRelay, Signal, Release, ReleaseDone, ReleaseData, ReleaseSpace,
       ends, Record
  <2>4. ret = "running" /\ hav' = hav
    BY <2>1, <2>2 DEF Verdict, IInv, TypeOK, hav
  <2> QED BY <2>1, <2>2, <2>3, <2>4 DEF Verdict, rpc, wpc
<1>3. CASE Reap
  <2>1. /\ rpc = "end" /\ wpc = "end" /\ rpc' = "end" /\ wpc' = "end"
        /\ pc'["arbiter"] = "end"
    BY <1>1, <1>3 DEF Reap, Goto, Tasks, rpc, wpc
  <2>2. ret' = IF errlog = {} THEN "clean" ELSE "failed"
    BY <1>3 DEF Reap
  <2>3. UNCHANGED <<rret, got, did, errlog, abrt>>
    BY <1>3 DEF Reap, ring, rvars, ends
  <2>4. hav' = hav
    BY <2>3 DEF hav
  <2>5. \A t \in {"reader", "writer"} : pc'[t] = "end"
    BY <2>1 DEF rpc, wpc
  <2> QED BY <2>1, <2>2, <2>3, <2>4, <2>5 DEF Verdict
<1>4. CASE Terminated \/ UNCHANGED vars
  BY <1>4 DEF Terminated, vars, ring, rvars, ends, Verdict, hav, rpc, wpc
<1> QED BY <1>2, <1>3, <1>4

\* No verdict is given before the workers have run.
LEMMA InitVerdict ==
  ASSUME Init
  PROVE  Verdict
<1>1. rpc = "open" /\ wpc = "open" /\ pc["arbiter"] = "reap"
  BY DEF Init, rpc, wpc, Tasks
<1> QED BY <1>1 DEF Init, Verdict, rpc, wpc

-----------------------------------------------------------------------------
(* WholeBlocks is preserved.                                               *)

\* In strict mode the writer is granted whole blocks until the epilogue.
LEMMA StrictGrant ==
  ASSUME BlockReaders, IInv, opt.strict, wpc \notin {"epi", "ewrite", "end"},
         NEW h \in Nat, GrantW(opt, h, wstall, wmin, wsp) # 0
  PROVE  GrantW(opt, h, wstall, wmin, wsp) = opt.wblk
<1>1. wmin = WMin(opt) /\ wsp \in Nat /\ wstall \in BOOLEAN
  BY DEF IInv, TypeOK, Limits
<1>2. opt.wblk \in Nat /\ opt.wblk > 0 /\ ~opt.wline
  BY Here DEF Accepted, ValidOptions
<1>3. WMin(opt) = opt.wblk
  BY <1>2 DEF WMin
<1> QED BY <1>1, <1>2, <1>3, GrantWBlocks

\* Every write of a strict transfer appends a block.
LEMMA NextWholeBlocks ==
  ASSUME BlockReaders, IInv, Content, WholeBlocks, [Next]_vars
  PROVE  WholeBlocks'
<1>1. pc \in [Tasks -> Locations] /\ opt' = opt /\ wsiz \in Nat
  BY DEF IInv, TypeOK, Next, Reader, Writer, SigRelay, Signal, Reap, Terminated, vars,
     Open, Lock, RLoop, RWait, RWoken, RRead, RCommit, RAdvance, Fail, Finish, RPost,
     WLoop, WWait, WWoken, WFetch, WWrite, WAdvance, WPost, WCheck, WEpilogue,
     WEpiWrite, Release, ReleaseDone, ReleaseData, ReleaseSpace
<1> SUFFICES ASSUME opt.strict, ~opt.shortw
             PROVE  /\ Len(out') % opt.wblk = 0
                    /\ wpc' \in {"fetch", "write"} => wsiz' = opt.wblk
                    /\ ~done' /\ wpc' \in {"wait", "woken"} /\ ~swait' =>
                         xwsiz' = opt.wblk
  BY <1>1 DEF WholeBlocks
<1>2. /\ Len(out) % opt.wblk = 0 /\ Len(out) \in Nat
      /\ wpc \in {"fetch", "write"} => wsiz = opt.wblk
      /\ ~done /\ wpc \in {"wait", "woken"} /\ ~swait => xwsiz = opt.wblk
      /\ opt.wblk \in Nat /\ opt.wblk > 0
  BY Here, Counts DEF WholeBlocks, Accepted, ValidOptions
<1>3. ASSUME wpc' = wpc, UNCHANGED <<out, wsiz, swait, xwsiz>>, done' = done \/ done'
      PROVE  /\ Len(out') % opt.wblk = 0
             /\ wpc' \in {"fetch", "write"} => wsiz' = opt.wblk
             /\ ~done' /\ wpc' \in {"wait", "woken"} /\ ~swait' =>
                  xwsiz' = opt.wblk
  BY <1>2, <1>3
<1>4. CASE RAdvance
  <2> DEFINE h == Hav(Mask(got + rret), did)
             siz == GrantW(opt, h, wstall, wmin, wsp)
  <2>1. wpc' = wpc /\ rpc = "relock"
    BY <1>1, <1>4 DEF RAdvance, Goto, Tasks, rpc, wpc
  <2>2. UNCHANGED <<out, wsiz, done>> /\ WakeWriter(h)
    BY <1>4 DEF RAdvance, wvars, ends
  <2>3. h \in Nat
    <3>1. rret \in Nat /\ rret + hav < Size
      BY <2>1, Counts DEF InFlight
    <3> QED BY <3>1, FillRises, Counts DEF hav
  <2>4. CASE UNCHANGED <<swait, xwsiz>>
    BY <1>3, <2>1, <2>2, <2>4
  <2>5. CASE siz # 0 /\ xwsiz' = siz
    <3>1. wpc \in {"wait", "woken"} => siz = opt.wblk
      BY <2>3, <2>5, StrictGrant
    <3> QED BY <1>2, <2>1, <2>2, <2>5, <3>1
  <2> QED BY <2>2, <2>4, <2>5 DEF WakeWriter
<1>5. CASE Reader /\ ~RAdvance
  <2>1. wpc' = wpc
    BY <1>1, <1>5 DEF Reader, Open, Lock, RLoop, RWait, RWoken, RRead, RCommit,
       Fail, Finish, RPost, Release, ReleaseDone, ReleaseData, ReleaseSpace, Goto,
       Tasks, wpc
  <2>2. UNCHANGED <<out, wsiz, swait, xwsiz>> /\ (done' = done \/ done')
    BY <1>5 DEF Reader, Open, Lock, RLoop, RWait, RWoken, RRead, RCommit,
       Fail, Finish, RPost, Release, ReleaseDone, ReleaseData, ReleaseSpace,
       handoff, ends, wvars
  <2> QED BY <1>3, <2>1, <2>2
<1>6. CASE SigRelay \/ Reap \/ Terminated \/ UNCHANGED vars
  <2>1. wpc' = wpc
    BY <1>1, <1>6 DEF SigRelay, Signal, Reap, Terminated, vars, Release, ReleaseDone,
       ReleaseData, ReleaseSpace, Goto, Tasks, wpc
  <2>2. UNCHANGED <<out, wsiz, swait, xwsiz>> /\ (done' = done \/ done')
    BY <1>6 DEF SigRelay, Signal, Reap, Terminated, vars, Release, ReleaseDone,
       ReleaseData, ReleaseSpace, handoff, ends, wvars
  <2> QED BY <1>3, <2>1, <2>2
<1>7. CASE WLoop
  <2> DEFINE siz == GrantW(opt, hav, wstall, wmin, wsp)
  <2>1. wpc = "loop" /\ out' = out
    BY <1>7 DEF WLoop, Goto, wpc
  <2>2. siz # 0 => siz = opt.wblk
    BY <2>1, Here, StrictGrant
  <2>3. \/ wpc' = "post"
        \/ wpc' = "wait" /\ swait'
        \/ wpc' = "fetch" /\ siz # 0 /\ wsiz' = siz
    BY <1>1, <1>7 DEF WLoop, Goto, Tasks, wpc, hav
  <2> HIDE DEF siz
  <2> QED BY <1>2, <2>1, <2>2, <2>3
<1>8. CASE WWait \/ WWoken \/ WFetch
  <2>1. /\ UNCHANGED <<out, done, swait, xwsiz>>
        /\ \/ wpc = "wait" /\ wpc' = "woken"
           \/ wpc = "woken" /\ wpc' = "post"
           \/ wpc = "woken" /\ ~done /\ wpc' = "fetch" /\ wsiz' = xwsiz
           \/ wpc = "fetch" /\ wpc' = "write" /\ wsiz' = wsiz
    <3>1. UNCHANGED <<out, done, swait, xwsiz>>
      BY <1>8 DEF WWait, WWoken, WFetch, wvars, ends, handoff
    <3>2. \/ wpc = "wait" /\ wpc' = "woken"
          \/ wpc = "woken" /\ wpc' = "post"
          \/ wpc = "woken" /\ ~done /\ wpc' = "fetch" /\ wsiz' = xwsiz
          \/ wpc = "fetch" /\ wpc' = "write" /\ wsiz' = wsiz
      BY <1>1, <1>8 DEF WWait, WWoken, WFetch, Goto, Tasks, wpc
    <3> QED BY <3>1, <3>2
  <2>2. wpc = "woken" /\ ~done => ~swait
    BY DEF IInv, Handshake
  <2> QED BY <1>2, <2>1, <2>2
<1>9. CASE WWrite
  <2>1. wpc = "write" /\ wpc' \in {"relock", "err"}
    BY <1>1, <1>9 DEF WWrite, Goto, Tasks, wpc
  <2>2. out' = out \/ \E c : Emit(wsiz, c)
    <3>1. Taken(opt, wsiz) = {wsiz}
      BY DEF Taken
    <3> QED BY <1>9, <3>1 DEF WWrite
  <2>3. ASSUME NEW c, Emit(wsiz, c)
        PROVE  Len(out') = Len(out) + opt.wblk
    BY <1>1, <1>2, <2>1, <2>3, EmitLen, Counts DEF Emit
  <2>4. CASE out' = out
    BY <1>2, <2>1, <2>4
  <2>5. CASE Len(out') = Len(out) + opt.wblk
    <3>1. (Len(out) + opt.wblk) % opt.wblk = 0
      BY <1>2, OneMoreBlock
    <3> QED BY <2>1, <2>5, <3>1
  <2> QED BY <2>2, <2>3, <2>4, <2>5
<1>10. CASE WEpiWrite
  <2>1. wpc = "ewrite" /\ wpc' \in {"epi", "end"}
    BY <1>1, <1>10 DEF WEpiWrite, Goto, Tasks, wpc
  <2>2. wsiz + Padding(opt, wsiz) = opt.wblk
    <3>1. wsiz = opt.wblk \/ wsiz < opt.wblk
      BY <2>1 DEF Content, LastBlock
    <3> QED BY <1>1, <1>2, <3>1 DEF Padding
  <2>3. out' = out \/ \E c : Emit(opt.wblk, c)
    <3>1. Taken(opt, wsiz + Padding(opt, wsiz)) = {opt.wblk}
      BY <2>2 DEF Taken
    <3> QED BY <1>10, <3>1 DEF WEpiWrite
  <2>4. ASSUME NEW c, Emit(opt.wblk, c)
        PROVE  Len(out') = Len(out) + opt.wblk
    BY <1>2, <2>4, EmitLen, Counts DEF Emit
  <2>5. CASE out' = out
    BY <1>2, <2>1, <2>5
  <2>6. CASE Len(out') = Len(out) + opt.wblk
    <3>1. (Len(out) + opt.wblk) % opt.wblk = 0
      BY <1>2, OneMoreBlock
    <3> QED BY <2>1, <2>6, <3>1
  <2> QED BY <2>3, <2>4, <2>5, <2>6
<1>11. CASE Writer /\ ~WLoop /\ ~(WWait \/ WWoken \/ WFetch) /\ ~WWrite /\ ~WEpiWrite
  <2>1. wpc' \notin {"fetch", "write", "wait", "woken"}
    BY <1>1, <1>11 DEF Writer, Open, Lock, WAdvance, Fail, Finish, WPost, WCheck,
       WEpilogue, Release, ReleaseDone, ReleaseData, ReleaseSpace, Goto, Tasks, wpc
  <2>2. out' = out
    BY <1>11 DEF Writer, Open, Lock, WAdvance, Fail, Finish, WPost, WCheck,
       WEpilogue, Release, ReleaseDone, ReleaseData, ReleaseSpace, wvars
  <2> QED BY <1>2, <2>1, <2>2
<1> QED BY <1>4, <1>5, <1>6, <1>7, <1>8, <1>9, <1>10, <1>11 DEF Next

\* Nothing written is a whole number of blocks.
LEMMA InitWholeBlocks ==
  ASSUME BlockReaders, Init
  PROVE  WholeBlocks
<1>1. wpc = "open" /\ out = << >>
  BY DEF Init, wpc, Tasks
<1>2. opt.wblk \in Nat /\ opt.wblk > 0
  BY OptionFacts DEF Init
<1>3. Len(out) % opt.wblk = 0
  BY <1>1, <1>2
<1> QED BY <1>1, <1>3 DEF WholeBlocks

-----------------------------------------------------------------------------
(* Theorems.                                                               *)

\* DInv holds in every reachable state: every byte of the input is where
\* transfer_reader(), transfer_writer() and the epilogue rely on it to be.
THEOREM DataInductive == BlockReaders => (Spec => []DInv)
<1> SUFFICES ASSUME BlockReaders PROVE Spec => []DInv
  OBVIOUS
<1>1. Init => DInv
  BY InitInv, InitContent, InitVerdict, InitWholeBlocks DEF DInv
<1>2. DInv /\ [Next]_vars => DInv'
  <2> SUFFICES ASSUME DInv, [Next]_vars PROVE DInv'
    OBVIOUS
  <2>1. IInv' /\ Content' /\ WholeBlocks'
    BY NextInv, NextContent, NextWholeBlocks DEF DInv
  <2>2. Verdict'
    BY ReaderVerdict, WriterVerdict, OtherVerdict DEF DInv, Next
  <2> QED BY <2>1, <2>2 DEF DInv
<1> QED BY <1>1, <1>2, PTL DEF Spec

\* The bytes before the writer's cursor have been delivered as they came.
LEMMA ContentFaithful ==
  ASSUME BlockReaders, IInv, Content
  PROVE  OutputFaithful
<1> SUFFICES ASSUME NEW i \in 1 .. Len(out)
             PROVE  \/ out[i] = i /\ i <= pos
                    \/ out[i] = 0 /\ i > pos /\ rret = 0 /\ opt.strict
  BY DEF OutputFaithful
<1>1. out[i] = IF i <= pos THEN i ELSE 0
  BY DEF Content, Written, Delivered
<1>2. i > pos => Padded
  <2>1. Unpadded => Len(out) <= pos
    BY Counts DEF Unpadded, Passed
  <2> QED BY <2>1, Counts DEF Content, Written
<1> QED BY <1>1, <1>2, Counts DEF Padded

\* transfer_writer() and its epilogue: the output is the input in order, with
\* zeros only behind all of it and only in strict mode (OutputFaithful).
THEOREM OutputIsInput == BlockReaders => (Spec => []OutputFaithful)
<1> SUFFICES ASSUME BlockReaders PROVE Spec => []OutputFaithful
  OBVIOUS
<1>1. DInv => OutputFaithful
  BY ContentFaithful DEF DInv
<1> QED BY <1>1, DataInductive, PTL

\* The input has ended and nothing of it is left in the ring or in a hand.
Drained == rret = 0 /\ hav = 0 /\ rpc \in {"post", "end"} /\ wpc = "end"

\* Then all of it was delivered, in strict mode in blocks.
LEMMA DrainedIsComplete ==
  ASSUME BlockReaders, IInv, Content, WholeBlocks, Drained
  PROVE  CleanMeansComplete
<1>1. InFlight = 0 /\ Ahead = 0 /\ Passed = pos
  BY Counts DEF Drained, InFlight, Ahead, Passed
<1>2. opt.wblk \in Nat /\ opt.wblk > 0
  BY Here DEF Accepted, ValidOptions
<1>3. Len(out) >= pos /\ Len(out) < pos + opt.wblk
  BY <1>1, <1>2, Counts DEF Drained, Content, Written, Unpadded, Padded
<1>4. opt.strict /\ ~opt.shortw => Len(out) % opt.wblk = 0
  BY DEF WholeBlocks
<1> QED BY <1>2, <1>3, <1>4, Counts DEF Drained, CleanMeansComplete

\* reaper(): a clean verdict is given only for a complete transfer, in strict
\* mode for whole blocks, padded by less than one (CleanMeansComplete).
THEOREM CleanIsComplete == BlockReaders => (Spec => []CleanMeansComplete)
<1> SUFFICES ASSUME BlockReaders PROVE Spec => []CleanMeansComplete
  OBVIOUS
<1>1. DInv => CleanMeansComplete
  <2> SUFFICES ASSUME DInv, ret = "clean" PROVE CleanMeansComplete
    BY DEF CleanMeansComplete
  <2>1. Drained
    BY DEF DInv, Verdict, Drained
  <2> QED BY <2>1, DrainedIsComplete DEF DInv
<1> QED BY <1>1, DataInductive, PTL

-----------------------------------------------------------------------------
(* The pipe.                                                               *)

\* What is taken and not yet sent is in the ring or on its way into it.
LEMMA Held ==
  ASSUME BlockReaders, DInv
  PROVE  /\ pos \in Nat /\ Len(out) \in Nat
         /\ ~Padded => pos - Len(out) = hav + InFlight - Ahead
<1>1. IInv /\ Content
  BY DEF DInv
<1>2. ~Padded => Len(out) = Passed + Ahead
  BY <1>1 DEF Content, Written, Unpadded
<1> QED BY <1>1, <1>2, Counts DEF Passed

\* A step of a worker finds the transfer running.
LEMMA Running ==
  ASSUME DInv, Reader \/ Writer
  PROVE  ret = "running"
<1>1. rpc # "end" \/ wpc # "end"
  BY DEF Reader, Writer, Open, Lock, RLoop, RWait, RWoken, RRead, RCommit, RAdvance,
     Fail, Finish, RPost, WLoop, WWait, WWoken, WFetch, WWrite, WAdvance, WPost, WCheck,
     WEpilogue, WEpiWrite, Release, ReleaseDone, ReleaseData, ReleaseSpace, Goto, rpc,
     wpc
<1> QED BY <1>1 DEF DInv, Verdict

\* read() takes what fits, or sees the end of the input.
LEMMA RReadPipe ==
  ASSUME BlockReaders, DInv, RRead
  PROVE  [P!Next]_(P!vars)
<1>1. IInv /\ Content /\ Verdict
  BY DEF DInv
<1>2. ret = "running" /\ ret' = ret /\ out' = out
  <2>1. ret = "running"
    BY Running DEF Reader
  <2>2. ret' = ret /\ out' = out
    BY DEF RRead, wvars
  <2> QED BY <2>1, <2>2
<1>3. rpc = "read" /\ rret # 0
  BY <1>1 DEF RRead, Goto, rpc, Verdict
<1>4. CASE \E n \in 1 .. Least(rsiz, MaxIn - pos) : pos' = pos + n /\ rret' = n
  <2>1. PICK n \in 1 .. Least(rsiz, MaxIn - pos) : pos' = pos + n /\ rret' = n
    BY <1>4
  <2>2. rsiz \in Nat /\ rsiz + hav < Size /\ n \in Nat /\ n > 0 /\ n <= rsiz
    BY <1>1, <1>3, Counts, BoundsAssumption DEF IInv, TypeOK, Claims, Room, Least
  <2>3. pos - Len(out) = hav - Ahead /\ Ahead \in Nat
    <3>1. ~Padded /\ InFlight = 0
      BY <1>3 DEF Padded, InFlight
    <3> QED BY <1>1, <1>2, <3>1, Held, Counts
  <2>4. n \in 1 .. Size - 1 - (pos - Len(out))
    BY <1>1, <2>2, <2>3, Counts
  <2>5. (rret = 0) = FALSE /\ (rret' = 0) = FALSE
    BY <1>3, <2>1, <2>2
  <2>6. P!Take
    BY <1>2, <1>3, <2>1, <2>4, <2>5 DEF P!Take
  <2> QED BY <1>2, <2>6 DEF P!Next
<1>5. CASE UNCHANGED pos /\ rret' = 0
  <2>1. P!See
    BY <1>2, <1>3, <1>5 DEF P!See
  <2> QED BY <1>2, <2>1 DEF P!Next
<1>6. CASE UNCHANGED pos /\ rret' = -1
  BY <1>2, <1>3, <1>6 DEF P!vars
<1>7. \/ \E n \in 1 .. Least(rsiz, MaxIn - pos) : pos' = pos + n /\ rret' = n
      \/ UNCHANGED pos /\ rret' = 0
      \/ UNCHANGED pos /\ rret' = -1
  BY Zenon DEF RRead
<1> QED BY <1>4, <1>5, <1>6, <1>7

\* write() sends the bytes that come next.
LEMMA WWritePipe ==
  ASSUME BlockReaders, DInv, WWrite
  PROVE  [P!Next]_(P!vars)
<1>1. IInv /\ Content
  BY DEF DInv
<1>2. ret = "running" /\ ret' = ret /\ pos' = pos /\ rret' = rret /\ wpc = "write"
  <2>1. ret = "running"
    BY Running DEF Writer
  <2>2. ret' = ret /\ pos' = pos /\ rret' = rret /\ wpc = "write"
    BY DEF WWrite, rvars, Goto, wpc
  <2> QED BY <2>1, <2>2
<1>3. wsiz \in Nat /\ wsiz > 0 /\ wsiz <= hav /\ wsiz <= Size /\ did \in Slots
  BY <1>1, <1>2, Counts DEF IInv, TypeOK, Claims, Data
<1>4. pos - Len(out) >= wsiz
  <2>1. ~Padded /\ Ahead = 0
    BY <1>2 DEF Padded, Ahead
  <2> QED BY <1>1, <1>2, <1>3, <2>1, Held, Counts
<1>5. ASSUME NEW n \in Taken(opt, wsiz),
             Emit(n, IF Direct(opt, did, wsiz) THEN Load(opt, mem, did, wsiz)
                     ELSE wchunk)
      PROVE  P!Send
  <2> DEFINE c == IF Direct(opt, did, wsiz) THEN Load(opt, mem, did, wsiz)
                  ELSE wchunk
  <2>1. n \in Nat /\ n > 0 /\ n <= wsiz /\ n \in 1 .. pos - Len(out)
    BY <1>1, <1>3, <1>4, Counts DEF Taken
  <2>2. ASSUME NEW k \in 0 .. n - 1
        PROVE  c[k] = Len(out) + k + 1
    <3>1. k \in 0 .. wsiz - 1
      BY <1>3, <2>1
    <3>2. CASE Direct(opt, did, wsiz)
      <4>1. c[k] = mem[Mask(did + k)]
        BY <1>3, <3>1, <3>2, LoadRing
      <4> QED BY <1>1, <1>2, <3>1, <4>1, NextBytes
    <3>3. CASE ~Direct(opt, did, wsiz)
      BY <1>1, <1>2, <3>1, <3>3, NextBytes
    <3> QED BY <3>2, <3>3
  <2> HIDE DEF c
  <2>3. AsSeq(c, n) = P!Bytes(Len(out), n)
    <3>1. Len(out) \in Nat
      BY <1>1, Counts
    <3> QED BY <2>1, <2>2, <3>1, DataBlock DEF P!Bytes
  <2>4. out' = out \o P!Bytes(Len(out), n)
    BY <1>5, <2>3 DEF Emit, c
  <2> QED BY <1>2, <2>1, <2>4 DEF P!Send
<1>6. ASSUME UNCHANGED out
      PROVE  UNCHANGED P!vars
  BY <1>2, <1>6 DEF P!vars
<1> QED BY <1>2, <1>5, <1>6 DEF WWrite, P!Next

\* The epilogue sends what is left, with zeros behind all of it only.
LEMMA WEpiWritePipe ==
  ASSUME BlockReaders, DInv, WEpiWrite
  PROVE  [P!Next]_(P!vars)
<1>1. IInv /\ Content
  BY DEF DInv
<1>2. ret = "running" /\ ret' = ret /\ pos' = pos /\ rret' = rret /\ wpc = "ewrite"
  <2>1. ret = "running"
    BY Running DEF Writer
  <2>2. ret' = ret /\ pos' = pos /\ rret' = rret /\ wpc = "ewrite"
    BY DEF WEpiWrite, rvars, Goto, wpc
  <2> QED BY <2>1, <2>2
<1>3. /\ wsiz \in Nat /\ wsiz > 0 /\ wsiz <= hav /\ wsiz <= Size /\ did \in Slots
      /\ opt.wblk \in Nat /\ 2 * opt.wblk < Size /\ Size \in Nat
  <2>1. wsiz \in Nat /\ wsiz > 0 /\ wsiz <= hav /\ wsiz <= Size /\ did \in Slots
    BY <1>1, <1>2, Counts DEF IInv, TypeOK, Claims, Data
  <2>2. opt.wblk \in Nat /\ 2 * opt.wblk < Size /\ Size \in Nat
    BY <1>1, Here DEF Accepted, ValidOptions
  <2> QED BY <2>1, <2>2
<1>4. pos - Len(out) = hav /\ rret = 0
  <2>1. ~Padded /\ Ahead = 0
    BY <1>2 DEF Padded, Ahead
  <2>2. rret = 0 /\ rpc \in {"post", "end"}
    BY <1>1, <1>2 DEF IInv, Shutdown
  <2>3. InFlight = 0
    BY <2>2 DEF InFlight
  <2> QED BY <1>1, <2>1, <2>2, <2>3, Held, Counts
<1>5. ASSUME NEW n \in Taken(opt, wsiz + Padding(opt, wsiz)),
             Emit(n, FetchPadded(opt, mem, did, wsiz))
      PROVE  P!Send \/ P!SendPadded
  <2> DEFINE c == FetchPadded(opt, mem, did, wsiz)
             p == Padding(opt, wsiz)
  <2>1. p \in Nat /\ p = IF opt.strict /\ wsiz < opt.wblk THEN opt.wblk - wsiz ELSE 0
    BY <1>3 DEF Padding
  <2>2. n \in Nat /\ n > 0 /\ n <= wsiz + p
    BY <1>3, <2>1 DEF Taken
  <2>3. ASSUME NEW k \in 0 .. wsiz - 1
        PROVE  c[k] = Len(out) + k + 1
    <3>1. c[k] = mem[Mask(did + k)]
      BY <1>3, PaddedData
    <3> QED BY <1>1, <1>2, <3>1, NextBytes
  <2>4. ASSUME NEW k \in wsiz .. wsiz + p - 1
        PROVE  c[k] = 0
    BY <1>3, PaddedZeros
  <2>5. Len(out) \in Nat /\ pos \in Nat /\ out \in Seq(0 .. MaxIn)
    BY <1>1, Counts
  <2>6. out' = out \o AsSeq(c, n)
    BY <1>5 DEF Emit
  <2> HIDE DEF c, p
  <2>7. CASE n <= wsiz
    <3>1. \A k \in 0 .. n - 1 : c[k] = Len(out) + k + 1
      BY <1>3, <2>2, <2>3, <2>7
    <3>2. AsSeq(c, n) = P!Bytes(Len(out), n)
      BY <2>2, <2>5, <3>1, DataBlock DEF P!Bytes
    <3>3. n \in 1 .. pos - Len(out)
      BY <1>1, <1>3, <1>4, <2>2, <2>7, Counts
    <3> QED BY <1>2, <2>6, <3>2, <3>3 DEF P!Send
  <2>8. CASE n > wsiz
    <3> DEFINE z == n - wsiz
    <3>1. wsiz < opt.wblk /\ wsiz = hav
      BY <1>1, <1>2, <1>3, <2>1, <2>2, <2>8 DEF Content, LastBlock
    <3>2. z \in Nat /\ z \in 1 .. Size - 1 /\ n = wsiz + z
      BY <1>3, <2>1, <2>2, <2>8, <3>1
    <3>3. ZeroTailed(c, Len(out), wsiz, z)
      <4>1. \A k \in 0 .. wsiz - 1 : c[k] = Len(out) + k + 1
        BY <2>3
      <4>2. ASSUME NEW k \in wsiz .. wsiz + z - 1
            PROVE  c[k] = 0
        <5>1. z <= p /\ p \in Nat /\ wsiz \in Nat
          BY <1>3, <2>1, <2>2, <3>2
        <5>2. k \in wsiz .. wsiz + p - 1
          <6> HIDE DEF z
          <6> QED BY <3>2, <5>1
        <5> QED BY <2>4, <5>2
      <4> HIDE DEF z
      <4> QED BY <4>1, <4>2 DEF ZeroTailed
    <3>4. out \in Seq(Int)
      <4>1. 0 .. MaxIn \subseteq Int
        OBVIOUS
      <4> QED BY <2>5, <4>1, SeqWider
    <3> HIDE DEF z
    <3>5. PaddedTo(out \o AsSeq(c, wsiz + z), out, Len(out), wsiz, z)
      BY <1>3, <2>5, <3>2, <3>3, <3>4, DataThenZeros
    <3>6. out' = out \o P!Bytes(Len(out), wsiz) \o [i \in 1 .. z |-> 0]
      BY <2>6, <3>2, <3>5, Zenon DEF PaddedTo, P!Bytes
    <3>7. wsiz = pos - Len(out) /\ Len(out) < pos
      BY <1>3, <1>4, <2>5, <3>1
    <3> QED BY <1>2, <1>4, <3>2, <3>6, <3>7 DEF P!SendPadded
  <2> QED BY <1>3, <2>2, <2>7, <2>8
<1>6. ASSUME UNCHANGED out
      PROVE  UNCHANGED P!vars
  BY <1>2, <1>6 DEF P!vars
<1> QED BY <1>2, <1>5, <1>6 DEF WEpiWrite, P!Next

\* reaper() closes the pipe with its verdict.
LEMMA ReapPipe ==
  ASSUME BlockReaders, DInv, Reap
  PROVE  [P!Next]_(P!vars)
<1>1. IInv /\ Content /\ Verdict
  BY DEF DInv
<1>2. /\ rpc = "end" /\ wpc = "end" /\ pc["arbiter"] = "reap"
      /\ UNCHANGED <<pos, out, rret>>
      /\ ret' = IF errlog = {} THEN "clean" ELSE "failed"
  BY DEF Reap, Goto, rvars, wvars, rpc, wpc
<1>3. ret = "running"
  BY <1>1, <1>2 DEF Verdict
<1>4. ret' = "clean" => rret = 0 /\ Len(out) >= pos
  <2> SUFFICES ASSUME errlog = {}
               PROVE  rret = 0 /\ Len(out) >= pos
    BY <1>2
  <2>1. hav = 0 /\ rret = 0
    BY <1>1, <1>2 DEF Verdict
  <2>2. InFlight = 0 /\ Ahead = 0
    BY <1>2 DEF InFlight, Ahead
  <2> QED BY <1>1, <2>1, <2>2, Held, Counts DEF Padded
<1>5. P!Close
  BY <1>2, <1>4 DEF P!Close
<1> QED BY <1>3, <1>5 DEF P!Next

\* Nothing else shows outside.
LEMMA OtherPipe ==
  ASSUME BlockReaders, DInv, [Next]_vars, ~RRead, ~WWrite, ~WEpiWrite, ~Reap
  PROVE  UNCHANGED P!vars
<1>1. CASE RAdvance
  <2>1. rret # 0
    BY <1>1 DEF DInv, IInv, Claims, RAdvance, Goto, rpc
  <2>2. UNCHANGED <<pos, out, ret>> /\ rret' = 1
    BY <1>1 DEF RAdvance, wvars
  <2>3. (rret = 0) = FALSE /\ (rret' = 0) = FALSE
    BY <2>1, <2>2
  <2> QED BY <2>2, <2>3 DEF P!vars
<1>2. CASE ~RAdvance
  <2>1. UNCHANGED <<pos, out, rret, ret>>
    <3>1. CASE Reader
      BY <3>1, <1>2 DEF Reader, Open, Lock, RLoop, RWait, RWoken, RCommit, Fail,
         Finish, RPost, Release, ReleaseDone, ReleaseData, ReleaseSpace, rvars, wvars
    <3>2. CASE Writer
      BY <3>2 DEF Writer, Open, Lock, WLoop, WWait, WWoken, WFetch, WAdvance, Fail,
         Finish, WPost, WCheck, WEpilogue, Release, ReleaseDone, ReleaseData,
         ReleaseSpace, rvars, wvars
    <3>3. CASE SigRelay \/ Terminated \/ UNCHANGED vars
      BY <3>3 DEF SigRelay, Signal, Terminated, vars, Release, ReleaseDone,
         ReleaseData, ReleaseSpace, rvars, wvars
    <3> QED BY <3>1, <3>2, <3>3 DEF Next
  <2> QED BY <2>1 DEF P!vars
<1> QED BY <1>1, <1>2

\* The two workers, the ring, the bounce areas, the wake-ups, the epilogue, the
\* signals and the verdict make a bounded byte pipe (ImplementsPipe).
THEOREM TransferIsPipe == BlockReaders => (Spec => ImplementsPipe)
<1> SUFFICES ASSUME BlockReaders PROVE Spec => ImplementsPipe
  OBVIOUS
<1>1. Init => P!Init
  BY DEF Init, P!Init
<1>2. DInv /\ [Next]_vars => [P!Next]_(P!vars)
  BY RReadPipe, WWritePipe, WEpiWritePipe, ReapPipe, OtherPipe
<1> QED BY <1>1, <1>2, DataInductive, PTL DEF Spec, ImplementsPipe, P!Spec

-----------------------------------------------------------------------------
(* Workers that may be killed.                                             *)

\* Until reap_procs() returns, a killed worker is one that is not scheduled any
\* more; after that nothing moves.  The verdict comes with what Verdict says of
\* a writer that has ended, if it was not killed.
CrashInv ==
  /\ IInv /\ Content /\ WholeBlocks
  /\ IF ret = "running" THEN Verdict
     ELSE pc["arbiter"] = "end" /\ Reaped("reader") /\ Reaped("writer")
  /\ ret = "clean" /\ "writer" \notin dead => Drained

\* A step of a living worker or of a signal is one of the transfer.
LEMMA LivingSteps ==
  ASSUME BlockReaders, CrashInv, ret = "running", Reader \/ Writer \/ SigRelay
  PROVE  CrashInv'
<1>1. Next
  BY DEF Next
<1>2. IInv' /\ Content' /\ WholeBlocks'
  BY <1>1, NextInv, NextContent, NextWholeBlocks DEF CrashInv
<1>3. Verdict'
  BY ReaderVerdict, WriterVerdict, OtherVerdict DEF CrashInv
<1>4. ret' = "running"
  BY DEF Reader, Writer, SigRelay, Signal, Open, Lock, RLoop, RWait, RWoken, RRead,
     RCommit, RAdvance, Fail, Finish, RPost, WLoop, WWait, WWoken, WFetch, WWrite,
     WAdvance, WPost, WCheck, WEpilogue, WEpiWrite, Release, ReleaseDone, ReleaseData,
     ReleaseSpace
<1> QED BY <1>2, <1>3, <1>4 DEF CrashInv

\* After the verdict there are none.
LEMMA NobodyLeft ==
  ASSUME CrashInv, ret # "running"
  PROVE  /\ "reader" \notin dead => ~Reader
         /\ "writer" \notin dead => ~Writer
         /\ ~SigRelay
<1>1. pc["arbiter"] = "end" /\ Reaped("reader") /\ Reaped("writer")
  BY DEF CrashInv
<1>2. ASSUME Reader PROVE pc["reader"] # "end"
  BY <1>2 DEF Reader, Open, Lock, RLoop, RWait, RWoken, RRead, RCommit, RAdvance, Fail,
     Finish, RPost, Release, ReleaseDone, ReleaseData, ReleaseSpace, Goto
<1>3. ASSUME Writer PROVE pc["writer"] # "end"
  BY <1>3 DEF Writer, Open, Lock, WLoop, WWait, WWoken, WFetch, WWrite, WAdvance, Fail,
     Finish, WPost, WCheck, WEpilogue, WEpiWrite, Release, ReleaseDone, ReleaseData,
     ReleaseSpace, Goto
<1>4. ~SigRelay
  BY <1>1 DEF SigRelay, Signal
<1> QED BY <1>1, <1>2, <1>3, <1>4 DEF Reaped

\* reap_procs() returns, and reaper() gives the verdict.
LEMMA ReapProcsCrash ==
  ASSUME BlockReaders, CrashInv, ReapProcs
  PROVE  CrashInv'
<1>1. /\ pc["arbiter"] = "reap" /\ pc \in [Tasks -> Locations]
      /\ IInv /\ Content /\ WholeBlocks /\ ret = "running" /\ Verdict
  BY DEF ReapProcs, Goto, CrashInv, IInv, TypeOK
<1>2. /\ pc' = [pc EXCEPT !["arbiter"] = "end"]
      /\ ret' = IF errlog = {} THEN "clean" ELSE "failed"
      /\ UNCHANGED <<opt, ring, stalls, sync, handoff, ends, rvars, wvars, sigs, dead>>
      /\ Reaped("reader") /\ Reaped("writer")
  BY DEF ReapProcs, Goto
<1>3. rpc' = rpc /\ wpc' = wpc /\ hav' = hav /\ pc'["arbiter"] = "end"
  BY <1>1, <1>2 DEF rpc, wpc, hav, ring, Tasks
<1>4. IInv'
  <2>1. Goto("arbiter", "reap", "end")
    BY DEF ReapProcs
  <2> QED BY <1>1, <1>2, <2>1, JudgedInv
<1>5. Content'
  <2>1. Padded => Padded'
    BY <1>2, <1>3 DEF Padded, rvars, wvars
  <2>2. UNCHANGED <<opt, ring, pos, rsiz, rret, rchunk, out, wsiz, wret, wchunk>>
    BY <1>2 DEF rvars, wvars
  <2> QED BY <1>1, <1>3, <2>1, <2>2, QuietContent
<1>6. WholeBlocks'
  BY <1>1, <1>2, <1>3 DEF WholeBlocks, wvars, ends, handoff
<1>7. Reaped("reader")' /\ Reaped("writer")'
  BY <1>2, <1>3 DEF Reaped, rpc, wpc
<1>8. ASSUME errlog = {}, "writer" \notin dead
      PROVE  Drained'
  <2>1. wpc = "end"
    BY <1>2, <1>8 DEF Reaped, wpc
  <2>2. Drained
    BY <1>1, <1>8, <2>1 DEF Verdict, Drained
  <2> QED BY <1>2, <1>3, <2>2 DEF Drained, rvars
<1> QED BY <1>2, <1>3, <1>4, <1>5, <1>6, <1>7, <1>8 DEF CrashInv

\* A death changes nothing that anybody sees.
LEMMA KilledCrash ==
  ASSUME CrashInv, UNCHANGED vars, dead \subseteq dead'
  PROVE  CrashInv'
<1>1. UNCHANGED <<opt, ring, stalls, sync, handoff, ends, rvars, wvars, sigs, pc, ret>>
  BY DEF vars
<1>2. UNCHANGED <<rpc, wpc, hav>>
  BY <1>1 DEF rpc, wpc, hav, ring
<1>3. IInv'
  BY StutterInv DEF CrashInv
<1>4. Content'
  BY OtherQuietContent DEF CrashInv
<1>5. WholeBlocks'
  BY <1>1, <1>2 DEF CrashInv, WholeBlocks, wvars, ends, handoff
<1>6. Verdict' = Verdict
  BY <1>1, <1>2 DEF Verdict, rvars, ends
<1>7. Reaped("reader") => Reaped("reader")'
  BY <1>1 DEF Reaped
<1>8. Reaped("writer") => Reaped("writer")'
  BY <1>1 DEF Reaped
<1>9. Drained' = Drained
  BY <1>1, <1>2 DEF Drained, rvars
<1> QED BY <1>1, <1>3, <1>4, <1>5, <1>6, <1>7, <1>8, <1>9 DEF CrashInv

\* CrashInv holds wherever the workers are killed: in their calls, in the epilogue
\* or with the lock in hand.  With it all that IInv says of the survivor: its
\* claims fit, and the epilogue runs alone.
THEOREM CrashInductive == BlockReaders => (CrashSpec => []CrashInv)
<1> SUFFICES ASSUME BlockReaders PROVE CrashSpec => []CrashInv
  OBVIOUS
<1>1. CrashInit => CrashInv
  <2> SUFFICES ASSUME CrashInit PROVE CrashInv
    OBVIOUS
  <2>1. Init /\ ret = "running"
    BY DEF CrashInit, Init
  <2> QED BY <2>1, InitInv, InitContent, InitVerdict, InitWholeBlocks DEF CrashInv
<1>2. CrashInv /\ [CrashNext]_crashvars => CrashInv'
  <2> SUFFICES ASSUME CrashInv, [CrashNext]_crashvars PROVE CrashInv'
    OBVIOUS
  <2>1. CASE /\ UNCHANGED dead
             /\ \/ "reader" \notin dead /\ Reader
                \/ "writer" \notin dead /\ Writer
                \/ SigRelay
    BY <2>1, LivingSteps, NobodyLeft
  <2>2. CASE ReapProcs
    BY <2>2, ReapProcsCrash
  <2>3. CASE \E w \in {"reader", "writer"} : Killed(w)
    BY <2>3, KilledCrash DEF Killed
  <2>4. CASE UNCHANGED crashvars
    BY <2>4, KilledCrash DEF crashvars
  <2> QED BY <2>1, <2>2, <2>3, <2>4 DEF CrashNext
<1> QED BY <1>1, <1>2, PTL DEF CrashSpec

\* Whichever process is killed, and where, what has been written is the input in
\* order, without a gap (OutputFaithful).
THEOREM OutputSurvives == BlockReaders => (CrashSpec => []OutputFaithful)
<1> SUFFICES ASSUME BlockReaders PROVE CrashSpec => []OutputFaithful
  OBVIOUS
<1>1. CrashInv => OutputFaithful
  BY ContentFaithful DEF CrashInv
<1> QED BY <1>1, CrashInductive, PTL

\* Exit status 0 means a complete transfer as long as the writer process was not
\* killed, whatever becomes of the reader (CleanDespiteReader).
THEOREM CleanNeedsTheWriter == BlockReaders => (CrashSpec => []CleanDespiteReader)
<1> SUFFICES ASSUME BlockReaders PROVE CrashSpec => []CleanDespiteReader
  OBVIOUS
<1>1. CrashInv => CleanDespiteReader
  <2> SUFFICES ASSUME CrashInv, "writer" \notin dead, ret = "clean"
               PROVE  CleanMeansComplete
    BY DEF CleanDespiteReader, CleanMeansComplete
  <2>1. IInv /\ Content /\ WholeBlocks /\ Drained
    BY DEF CrashInv
  <2> QED BY <2>1, DrainedIsComplete
<1> QED BY <1>1, CrashInductive, PTL
=============================================================================
