---------------------------- MODULE YancatProofs ----------------------------
(***************************************************************************)
(* Proofs about Yancat, for any number of signals and iterations: each     *)
(* unwinding undoes exactly what was made, nothing is pulled away from a   *)
(* worker unless setup_proc() gave up, both ends can be opened again in    *)
(* the next iteration, processes leave nothing behind, a clean exit means  *)
(* complete data, and the program implements Session.                      *)
(***************************************************************************)
EXTENDS Yancat, TLAPS

-----------------------------------------------------------------------------
(* The inductive invariant.                                                *)

\* Before a worker is created; and the places that depend on the mode.
SetupPlaces  == {"setup_fds", "setup_env", "chunk", "memset", "buf", "mode"}
SinglePlaces == {"open_in", "open_out", "transfer", "close_both"}
SyncPlaces   == {"vars", "nospace", "nodata"}
ForkPlaces   == {"fork_reader", "fork_writer"}
CreatePlaces == {"create_sigrelay", "create_reader", "create_writer"}
WaitPlaces   == {"wait_reader", "wait_writer"}
WorkPlaces   == {"open", "transfer", "close"}

\* Where the arbiter may be while nobody, or no writer, was created yet.
BeforeReader ==
  SetupPlaces \union SinglePlaces \union SyncPlaces
    \union {"fork_reader", "create_sigrelay", "create_reader"}
BeforeWriter == BeforeReader \union {"fork_writer", "create_writer"}

\* Where it may be only after the workers were created.
AfterReader == WaitPlaces \union {"fork_writer", "create_writer"}

\* Who may be where, in which mode.
Places ==
  /\ pc \in [Roles -> Locations]
  /\ pc["arbiter"] \in SetupPlaces \union SinglePlaces \union SyncPlaces
       \union ForkPlaces \union CreatePlaces \union WaitPlaces
       \union {"report", "undo", "exited"}
  /\ \A w \in Workers : pc[w] \in WorkPlaces \union {"off", "leave", "cleanup_fds", "exited"}
  /\ pc["sigrelay"] \in {"off", "sigwait", "exited"}
  /\ mode \in {"sp", "mt", "mp"}
  /\ pc["arbiter"] \in SinglePlaces => mode = "sp"
  /\ pc["arbiter"] \in SyncPlaces \union WaitPlaces => mode # "sp"
  /\ pc["arbiter"] \in ForkPlaces => mode = "mp"
  /\ pc["arbiter"] \in CreatePlaces => mode = "mt"
  /\ pc["arbiter"] \in BeforeReader \/ mode = "sp" => pc["reader"] = "off"
  /\ pc["arbiter"] \in BeforeWriter \/ mode = "sp" => pc["writer"] = "off"
  /\ pc["arbiter"] \in AfterReader \/ (pc["arbiter"] = "report" /\ mode # "sp") =>
       pc["reader"] # "off"
  /\ pc["arbiter"] \in WaitPlaces \/ (pc["arbiter"] = "report" /\ mode # "sp") =>
       pc["writer"] # "off"
  /\ mode # "mt" => pc["sigrelay"] = "off"
  /\ mode = "mt" => \A w \in Workers : pc[w] # "cleanup_fds"

\* The variables that are no places, and those that are truth values.
Typed ==
  /\ fds \in [Procs -> [Dirs -> Fdpack]]
  /\ errlog \subseteq {"sig", "ini", "err"} \X Procs
  /\ pending \subseteq Procs /\ sent \in 0 .. MaxSignals
  /\ crashed \subseteq Procs /\ clean \subseteq Workers
  /\ mapped \in [Procs -> BOOLEAN]

Flags ==
  /\ loop \in BOOLEAN /\ shareable \in BOOLEAN /\ abrt \in BOOLEAN
  /\ ret \in BOOLEAN /\ handlers \in BOOLEAN /\ masked \in BOOLEAN
  /\ complete \in BOOLEAN /\ heard \in BOOLEAN /\ struck \in BOOLEAN

\* The first k objects of setup_env().
First(k) == {Order[i] : i \in 1 .. k}

\* How many objects there are at each place.
Depth ==
  CASE pc["arbiter"] \in {"setup_fds", "setup_env", "chunk", "exited"}  -> 0
    [] pc["arbiter"] \in {"memset", "buf"}                              -> 1
    [] pc["arbiter"] \in {"mode", "vars"} \union SinglePlaces           -> 2
    [] pc["arbiter"] = "nospace"                                        -> 3
    [] pc["arbiter"] = "nodata"                                         -> 4
    [] pc["arbiter"] \in ForkPlaces \union CreatePlaces \union WaitPlaces -> 5
    [] pc["arbiter"] = "report"                                         -> Objects
    [] pc["arbiter"] = "undo"                                           -> Len(undo)

\* What exists, and what is to be undone.
Env ==
  /\ Len(undo) \in 0 .. 5 /\ undo = Down(Len(undo))
  /\ pc["arbiter"] # "undo" => undo = << >>
  /\ made = First(Depth)
  /\ mapped["arbiter"] <=> made # {}

\* Both ends: who has them open, in which process.
Opened(d) ==
  CASE mode = "sp" -> pc["arbiter"] \in {"transfer", "close_both"}
                         \union (IF d = "in" THEN {"open_out"} ELSE {})
    [] mode = "mt" -> pc[IF d = "in" THEN "reader" ELSE "writer"] \in {"transfer", "close"}
    [] mode = "mp" -> FALSE

Ends ==
  /\ pc["arbiter"] = "setup_fds" => \A d \in Dirs : fds["arbiter"][d] = NoFdpack
  /\ pc["arbiter"] = "exited" => \A d \in Dirs : Released(fds["arbiter"][d])
  /\ pc["arbiter"] \notin {"setup_fds", "exited"} =>
       \A d \in Dirs : LET f == fds["arbiter"][d]
                       IN  /\ f.type # "none" /\ (f.type = "file" => f.path)
                           /\ f.open => f.type = "fd" \/ Opened(d)
  /\ \A w \in Workers : pc[w] \in {"transfer", "close"} /\ Running(Proc(w)) =>
       fds[Proc(w)][Dir(w)].open

\* What a child holds; a thread is no process of its own.
Children ==
  \A w \in Workers :
    /\ mode = "mt" => ~mapped[w] /\ fds[w] = [d \in Dirs |-> NoFdpack]
    /\ mode = "mp" =>
         /\ pc[w] \in WorkPlaces \union {"leave"} => mapped[w]
         /\ pc[w] \in {"cleanup_fds", "exited"} => ~mapped[w]
         /\ pc[w] = "exited" => \A d \in Dirs : Released(fds[w][d])

\* A worker at work has an arbiter that waits for it.
Awaited ==
  ~GaveUp =>
    \A w \in Workers : pc[w] \in WorkPlaces /\ Running(Proc(w)) =>
      pc["arbiter"] \in {"fork_writer", "create_reader", "create_writer"} \union WaitPlaces

\* Verdicts.
Outcome ==
  /\ ret => pc["arbiter"] \in {"undo", "exited"}
  /\ abrt \/ struck => errlog # {}
  /\ \A w \in Workers :
       \/ pc[w] \in {"close", "leave", "cleanup_fds", "exited"}
       \/ mode = "mp" /\ w \in crashed /\ pc[w] # "off"
       => errlog # {} \/ w \in clean
  /\ pc["arbiter"] = "close_both" \/ (pc["arbiter"] = "report" /\ mode = "sp") =>
       errlog # {} \/ clean = Workers
  /\ pc["arbiter"] = "wait_writer" => Gone("reader")
  /\ pc["arbiter"] = "report" \/ (pc["arbiter"] = "undo" /\ ~ret) =>
       mode = "sp" \/ \A w \in Workers : Gone(w)
  /\ ~ret => complete

LifeInv == Places /\ Typed /\ Flags /\ Env /\ Ends /\ Children /\ Awaited /\ Outcome

-----------------------------------------------------------------------------
(* The unwinding, and the objects it is about.                             *)

\* Down(k) destroys k objects ...
LEMMA DownLen ==
  ASSUME NEW k \in 0 .. 5
  PROVE  Len(Down(k)) = k
BY DEF Down

\* ... the last one made first ...
LEMMA DownHead ==
  ASSUME NEW k \in 1 .. 5
  PROVE  Head(Down(k)) = Order[k]
BY DEF Down

\* ... and then those made before it ...
LEMMA DownTail ==
  ASSUME NEW k \in 1 .. 5
  PROVE  Tail(Down(k)) = Down(k - 1)
<1> DEFINE S == {"chunk", "buf", "vars", "nospace", "nodata"}
<1>1. \A i \in 1..5 : Order[i] \in S
  <2>1. /\ Order[1] \in S
        /\ Order[2] \in S
        /\ Order[3] \in S
        /\ Order[4] \in S
        /\ Order[5] \in S
    BY DEF Order
  <2> QED BY <2>1
<1>2. Down(k) \in Seq(S) /\ Len(Down(k)) = k
  BY <1>1 DEF Down
<1>3. Down(k-1) \in Seq(S) /\ Len(Down(k-1)) = k - 1
  BY <1>1 DEF Down
<1>4. Tail(Down(k)) \in Seq(S) /\ Len(Tail(Down(k))) = k - 1
  BY <1>2
<1>5. ASSUME NEW i \in 1 .. k - 1 PROVE Tail(Down(k))[i] = Down(k-1)[i]
  <2>1. Tail(Down(k))[i] = Down(k)[i+1]
    BY <1>2
  <2> QED BY <2>1 DEF Down
<1> QED BY <1>3, <1>4, <1>5

\* ... until nothing is left.
LEMMA DownEmpty == Down(0) = << >>
BY DEF Down

\* Making the k-th object adds it to those before ...
LEMMA FirstNext ==
  ASSUME NEW k \in 1 .. 5
  PROVE  First(k - 1) \union {Order[k]} = First(k)
BY DEF First

\* ... and destroying it leaves them.
LEMMA FirstLess ==
  ASSUME NEW k \in 1 .. 5
  PROVE  First(k) \ {Order[k]} = First(k - 1)
BY DEF First, Order

\* No objects, and some.
LEMMA FirstNone == First(0) = {} BY DEF First

\* One object at least.
LEMMA FirstSome ==
  ASSUME NEW k \in 1 .. 5
  PROVE  First(k) # {}
BY DEF First

\* The chunk, which g_shm points to, is made first and destroyed last.
LEMMA ChunkIsFirst ==
  ASSUME NEW k \in 1 .. 5
  PROVE  Order[k] = "chunk" <=> k = 1
BY DEF Order

\* What an unwinding destroys.
LEMMA RangeDown ==
  ASSUME NEW k \in 0 .. 5
  PROVE  Range(Down(k)) = First(k)
BY DEF First, Down, Range

-----------------------------------------------------------------------------
(* Types.                                                                  *)

\* Opening, closing, destroying and constructing an end yield an end.
LEMMA FdOpenType ==
  ASSUME NEW f \in Fdpack
  PROVE  FdOpen(f) \in Fdpack
BY DEF Fdpack, FdOpen

\* fd_close().
LEMMA FdCloseType ==
  ASSUME NEW f \in Fdpack
  PROVE  FdClose(f) \in Fdpack
BY DEF Fdpack, FdClose

\* fd_dtor().
LEMMA FdDtorType ==
  ASSUME NEW f \in Fdpack
  PROVE  FdDtor(f) \in Fdpack
BY DEF Fdpack, FdClose, FdDtor

\* fd_ctor().
LEMMA FdCtorType ==
  ASSUME NEW k \in Kinds
  PROVE  FdCtor(k) \in Fdpack
BY DEF Fdpack, FdCtor

\* One end of one process is set.
LEMMA SetFdType ==
  ASSUME Typed, NEW p \in Procs, NEW d \in Dirs, NEW f \in Fdpack,
         SetFd(p, d, f)
  PROVE fds' \in [Procs -> [Dirs -> Fdpack]]
<1>1. [fds[p] EXCEPT ![d] = f] \in [Dirs -> Fdpack] BY DEF Typed
<1>2. fds' = [fds EXCEPT ![p] = [fds[p] EXCEPT ![d] = f]] BY DEF SetFd
<1> QED BY <1>1, <1>2 DEF Typed

\* Both ends of one process are set.
LEMMA SetFdsType ==
  ASSUME Typed, NEW p \in Procs, NEW g \in [Dirs -> Fdpack],
         fds' = [fds EXCEPT ![p] = g]
  PROVE fds' \in [Procs -> [Dirs -> Fdpack]]
BY DEF Typed

\* cleanup_fds().
LEMMA CleanupType ==
  ASSUME Typed, NEW p \in Procs, fds' = CleanupFds(p)
  PROVE fds' \in [Procs -> [Dirs -> Fdpack]]
<1>1. [d \in Dirs |-> FdDtor(fds[p][d])] \in [Dirs -> Fdpack]
  BY FdDtorType DEF Typed
<1> QED BY <1>1, SetFdsType DEF CleanupFds

\* Every step keeps ends what they are.
LEMMA FdsStep ==
  ASSUME LifeInv, [Next]_vars
  PROVE  fds' \in [Procs -> [Dirs -> Fdpack]]
<1> USE DEF LifeInv
<1>0. /\ \A r \in Workers : /\ Proc(r) \in Procs /\ Dir(r) \in Dirs
                              /\ r \in Procs /\ fds[Proc(r)][Dir(r)] \in Fdpack
      /\ \A d \in Dirs : fds["arbiter"][d] \in Fdpack
      /\ "arbiter" \in Procs /\ "in" \in Dirs /\ "out" \in Dirs
  BY DEF Proc, Dir, Procs, Workers, Dirs, Typed
<1>1. CASE SetupFds
  <2>1. ASSUME NEW i \in Kinds \ {"none"}, NEW o \in Kinds \ {"none"}
        PROVE  [d \in Dirs |-> FdCtor(IF d = "in" THEN i ELSE o)] \in [Dirs -> Fdpack]
    BY FdCtorType
  <2> QED BY <1>1, <1>0, <2>1, SetFdsType DEF SetupFds, Typed
<1>2. ASSUME NEW r \in Workers, Fork(r)
      PROVE  fds' \in [Procs -> [Dirs -> Fdpack]]
  BY <1>0, <1>2 DEF Fork, Typed
<1>3. ASSUME NEW r \in Workers, Opens(r)
      PROVE  fds' \in [Procs -> [Dirs -> Fdpack]]
  BY <1>0, <1>3, FdOpenType, SetFdType DEF Opens
<1>4. ASSUME NEW r \in Workers, Closes(r)
      PROVE  fds' \in [Procs -> [Dirs -> Fdpack]]
  BY <1>0, <1>4, FdCloseType, SetFdType DEF Closes
<1>5. ASSUME NEW r \in Workers, ChildExits(r)
      PROVE  fds' \in [Procs -> [Dirs -> Fdpack]]
  BY <1>0, <1>5, CleanupType DEF ChildExits
<1>6. CASE OpensSingle("in", "open_in", "open_out")
  BY <1>0, <1>6, FdOpenType, SetFdType DEF OpensSingle
<1>7. CASE OpensSingle("out", "open_out", "transfer")
  BY <1>0, <1>7, FdOpenType, SetFdType DEF OpensSingle
<1>8. CASE CannotOpenSingle("out", "open_out")
  BY <1>0, <1>8, FdCloseType, SetFdType DEF CannotOpenSingle, SetFd
<1>9. CASE ClosesSingle
  <2>1. [d \in Dirs |-> FdClose(fds["arbiter"][d])] \in [Dirs -> Fdpack]
    BY <1>0, FdCloseType
  <2> QED BY <1>0, <1>9, <2>1, SetFdsType DEF ClosesSingle, CloseSingle
<1>10. CASE Exits
  BY <1>0, <1>10, CleanupType DEF Exits
<1>11. CASE fds' = fds BY <1>11 DEF Typed
<1> QED
  BY <1>1, <1>2, <1>3, <1>4, <1>5, <1>6, <1>7, <1>8, <1>9, <1>10, <1>11
  DEF Next, SetupEnv, SetupSignals, CannotSetSignals, Fails, MakesChunk,
  ClearsChunk, MakesBuf, SetsMode, RejectsPoints, MakesSync,
    SetupProc, Create, CannotCreate, TaskSingle, CannotOpenSingle,
    TransferSingle, Task, CannotOpen, TransferEnds, Returns, CleansUpChild,
    Faults, Reap, ReapReader, ReapWriter, Report, Destroys, LoopsOn, Signals,
    Interrupt, Terminate, Sigrelay, Over, vars

\* Every step keeps the events what they are.
LEMMA ErrlogStep ==
  ASSUME LifeInv, [Next]_vars
  PROVE  errlog' \subseteq {"sig", "ini", "err"} \X Procs
<1>1. \/ errlog' \in {errlog, {}}
      \/ \E t \in {"sig", "ini", "err"}, p \in Procs : errlog' = errlog \union {<<t, p>>}
  <2>1. \A t, p : Release(t, p) => errlog' = errlog \union {<<t, p>>}
    BY DEF Release
  <2>2. Workers \subseteq Procs /\ "arbiter" \in Procs BY DEF Workers, Procs
  <2>3. \A p, t, q : Touches(p, Release(t, q)) =>
          errlog' = errlog \/ errlog' = errlog \union {<<t, q>>}
    BY <2>1 DEF Touches, logs
  <2>4. CASE CannotCreate BY <2>1, <2>2, <2>4 DEF CannotCreate
  <2>5. ASSUME NEW r \in Workers, CannotOpen(r) \/ TransferEnds(r) PROVE <1>1!:
     BY <2>1, <2>2, <2>5 DEF CannotOpen, TransferEnds, logs
  <2>6. CASE \E d, at : CannotOpenSingle(d, at)
    BY <2>1, <2>2, <2>6 DEF CannotOpenSingle, TransferSingle, logs
  <2>9. CASE TransferSingle
    BY <2>1, <2>2, <2>9 DEF CannotOpenSingle, TransferSingle, logs
  <2>7. ASSUME NEW p \in Procs, Terminate(p) PROVE <1>1!:
     BY <2>2, <2>3, <2>7 DEF Terminate
  <2>8. CASE Sigrelay BY <2>2, <2>3, <2>8 DEF Sigrelay
  <2>10. CASE UNCHANGED errlog BY <2>10
  <2>11. CASE ClearsChunk BY <2>11 DEF ClearsChunk
  <2> QED
    BY <2>4, <2>5, <2>6, <2>7, <2>8, <2>9, <2>10, <2>11
  DEF Next, SetupFds, SetupEnv, SetupSignals, CannotSetSignals, Fails,
  MakesChunk, MakesBuf, SetsMode, RejectsPoints, MakesSync,
    SetupProc, Create, Fork, TaskSingle, OpensSingle, ClosesSingle, Task,
    Opens, Closes, ChildExits, Returns, CleansUpChild,
    Faults, Reap, ReapReader, ReapWriter, Report, Destroys, LoopsOn, Exits,
    Signals, Interrupt, Over, vars, logs
<1> QED BY <1>1 DEF LifeInv, Typed

\* Every step keeps the other variables what they are.
LEMMA NextTyped ==
  ASSUME LifeInv, [Next]_vars
  PROVE  Typed'
<1>1. (pending \subseteq Procs)'
  BY SignalsAssumption
  DEF LifeInv, Typed, Next, Over, SetupFds, SetupEnv,
      SetupSignals, CannotSetSignals, Fails, MakesChunk, ClearsChunk, MakesBuf,
      SetsMode, RejectsPoints, MakesSync, SetupProc, Fork, Create,
      CannotCreate, TaskSingle, OpensSingle, CannotOpenSingle, TransferSingle,
      ClosesSingle, Task, Opens, CannotOpen, TransferEnds, Closes, Returns,
      CleansUpChild, ChildExits, Faults, Reap, ReapReader, ReapWriter, Report,
      Destroys, LoopsOn, Exits, Signals, Interrupt, Terminate, Sigrelay, vars,
      opts, env, logs, sigs, hist, Proc, Procs, Workers, Touches, Hears
<1>2. (sent \in 0 .. MaxSignals)'
  BY SignalsAssumption
  DEF LifeInv, Typed, Next, Over, SetupFds, SetupEnv,
      SetupSignals, CannotSetSignals, Fails, MakesChunk, ClearsChunk, MakesBuf,
      SetsMode, RejectsPoints, MakesSync, SetupProc, Fork, Create,
      CannotCreate, TaskSingle, OpensSingle, CannotOpenSingle, TransferSingle,
      ClosesSingle, Task, Opens, CannotOpen, TransferEnds, Closes, Returns,
      CleansUpChild, ChildExits, Faults, Reap, ReapReader, ReapWriter, Report,
      Destroys, LoopsOn, Exits, Signals, Interrupt, Terminate, Sigrelay, vars,
      opts, env, logs, sigs, hist, Proc, Procs, Workers, Touches, Hears
<1>3. (crashed \subseteq Procs)'
  BY SignalsAssumption
  DEF LifeInv, Typed, Next, Over, SetupFds, SetupEnv,
      SetupSignals, CannotSetSignals, Fails, MakesChunk, ClearsChunk, MakesBuf,
      SetsMode, RejectsPoints, MakesSync, SetupProc, Fork, Create,
      CannotCreate, TaskSingle, OpensSingle, CannotOpenSingle, TransferSingle,
      ClosesSingle, Task, Opens, CannotOpen, TransferEnds, Closes, Returns,
      CleansUpChild, ChildExits, Faults, Reap, ReapReader, ReapWriter, Report,
      Destroys, LoopsOn, Exits, Signals, Interrupt, Terminate, Sigrelay, vars,
      opts, env, logs, sigs, hist, Proc, Procs, Workers, Touches, Hears
<1>4. (clean \subseteq Workers)'
  BY SignalsAssumption
  DEF LifeInv, Typed, Next, Over, SetupFds, SetupEnv,
      SetupSignals, CannotSetSignals, Fails, MakesChunk, ClearsChunk, MakesBuf,
      SetsMode, RejectsPoints, MakesSync, SetupProc, Fork, Create,
      CannotCreate, TaskSingle, OpensSingle, CannotOpenSingle, TransferSingle,
      ClosesSingle, Task, Opens, CannotOpen, TransferEnds, Closes, Returns,
      CleansUpChild, ChildExits, Faults, Reap, ReapReader, ReapWriter, Report,
      Destroys, LoopsOn, Exits, Signals, Interrupt, Terminate, Sigrelay, vars,
      opts, env, logs, sigs, hist, Proc, Procs, Workers, Touches, Hears
<1>5. (mapped \in [Procs -> BOOLEAN])'
  BY SignalsAssumption, ZenonT(40)
  DEF LifeInv, Typed, Next, Over, SetupFds, SetupEnv,
      SetupSignals, CannotSetSignals, Fails, MakesChunk, ClearsChunk, MakesBuf,
      SetsMode, RejectsPoints, MakesSync, SetupProc, Fork, Create,
      CannotCreate, TaskSingle, OpensSingle, CannotOpenSingle, TransferSingle,
      ClosesSingle, Task, Opens, CannotOpen, TransferEnds, Closes, Returns,
      CleansUpChild, ChildExits, Faults, Reap, ReapReader, ReapWriter, Report,
      Destroys, LoopsOn, Exits, Signals, Interrupt, Terminate, Sigrelay, vars,
      opts, env, logs, sigs, hist, Proc, Procs, Workers, Touches, Hears
<1> QED BY FdsStep, ErrlogStep, <1>1, <1>2, <1>3, <1>4, <1>5 DEF Typed

\* Truth values stay truth values.
LEMMA NextFlags ==
  ASSUME LifeInv, [Next]_vars
  PROVE  Flags'
<1> USE DEF LifeInv, Goto, At, Running, Proc, Dir, Procs, Workers, Roles, Dirs,
          Kinds, opts, env, logs, sigs, hist, SetupPlaces, SinglePlaces,
          SyncPlaces, ForkPlaces, CreatePlaces, WaitPlaces, WorkPlaces,
          BeforeReader, BeforeWriter, AfterReader, ForkAt, CreateAt, Order,
          Touches, Hears, Live, Places, Typed, Flags, Release, ReleaseUnlogged
<1>1. CASE SetupFds
  BY <1>1 DEF SetupFds
<1>2. CASE SetupEnv
  <2>1. CASE SetupSignals
    BY <2>1 DEF SetupSignals
  <2>2. CASE CannotSetSignals
    BY <2>2 DEF CannotSetSignals
  <2>3. ASSUME NEW k \in {1, 2, 3, 4, 5}, Fails(k)
        PROVE  Flags'
    BY <2>3 DEF Fails
  <2>4. CASE MakesChunk
    BY <2>4 DEF MakesChunk
  <2>5. CASE ClearsChunk
    BY <2>5 DEF ClearsChunk
  <2>6. CASE MakesBuf
    BY <2>6 DEF MakesBuf
  <2>7. CASE SetsMode
    BY <2>7 DEF SetsMode
  <2>8. CASE RejectsPoints
    BY <2>8 DEF RejectsPoints
  <2>9. ASSUME NEW k \in {3, 4, 5}, MakesSync(k)
        PROVE  Flags'
    BY <2>9 DEF MakesSync
  <2> QED
    BY <1>2, <2>1, <2>2, <2>3, <2>4, <2>5, <2>6, <2>7, <2>8, <2>9 DEF SetupEnv
<1>3. CASE SetupProc
  <2>1. ASSUME NEW r \in Workers, Fork(r)
        PROVE  Flags'
    BY <2>1 DEF Fork
  <2>2. ASSUME NEW r \in Roles \ {"arbiter"}, Create(r)
        PROVE  Flags'
    BY <2>2 DEF Create
  <2>3. CASE CannotCreate
    BY <2>3 DEF CannotCreate
  <2> QED BY <1>3, <2>1, <2>2, <2>3 DEF SetupProc
<1>4. CASE TaskSingle
  BY <1>4, ZenonT(40) DEF TaskSingle, OpensSingle, CannotOpenSingle, TransferSingle,
       ClosesSingle
<1>5. ASSUME NEW r \in Workers, Task(r)
      PROVE  Flags'
  <2>1. CASE Opens(r)
    BY <2>1 DEF Opens
  <2>2. CASE CannotOpen(r)
    BY <2>2 DEF CannotOpen
  <2>3. CASE TransferEnds(r)
    BY <2>3 DEF TransferEnds
  <2>4. CASE Closes(r)
    BY <2>4 DEF Closes
  <2>5. CASE Returns(r)
    BY <2>5 DEF Returns
  <2>6. CASE CleansUpChild(r)
    BY <2>6 DEF CleansUpChild
  <2>7. CASE ChildExits(r)
    BY <2>7 DEF ChildExits
  <2>8. CASE Faults(r)
    BY <2>8 DEF Faults
  <2> QED BY <1>5, <2>1, <2>2, <2>3, <2>4, <2>5, <2>6, <2>7, <2>8
       DEF Task
<1>6. CASE Reap
  BY <1>6, ZenonT(40) DEF Reap, ReapReader, ReapWriter, Report, Destroys, LoopsOn, Exits
<1>7. CASE Signals
  <2>1. ASSUME NEW p \in Procs, Interrupt(p)
        PROVE  Flags'
    BY <2>1 DEF Interrupt
  <2>2. ASSUME NEW p \in Procs, Terminate(p)
        PROVE  Flags'
    BY <2>2 DEF Terminate
  <2>3. CASE Sigrelay
    BY <2>3 DEF Sigrelay
  <2> QED BY <1>7, <2>1, <2>2, <2>3 DEF Signals
<1>8. CASE UNCHANGED vars
  BY <1>8 DEF vars
<1> QED BY <1>1, <1>2, <1>3, <1>4, <1>5, <1>6, <1>7, <1>8 DEF Next, Over

-----------------------------------------------------------------------------
(* Every part of the invariant is kept by every step.                      *)

\* Who may be where.
LEMMA NextPlaces ==
  ASSUME LifeInv, [Next]_vars
  PROVE  Places'
<1> USE DEF LifeInv, Goto, At, Running, Proc, Dir, Procs, Workers, Roles, Dirs,
          Kinds, opts, env, logs, sigs, hist, SetupPlaces, SinglePlaces,
          SyncPlaces, ForkPlaces, CreatePlaces, WaitPlaces, WorkPlaces,
          BeforeReader, BeforeWriter, AfterReader, ForkAt, CreateAt, Order,
          Touches, Hears, Live, Places, Locations, Range
<1>1. CASE SetupFds
  BY <1>1 DEF SetupFds
<1>2. CASE SetupEnv
  BY <1>2 DEF SetupEnv, SetupSignals, CannotSetSignals, Fails, MakesChunk,
       ClearsChunk, MakesBuf, SetsMode, RejectsPoints, MakesSync
<1>3. CASE SetupProc
  BY <1>3 DEF SetupProc, Fork, Create, CannotCreate
<1>4. CASE TaskSingle
  BY <1>4 DEF TaskSingle, OpensSingle, CannotOpenSingle, TransferSingle,
       ClosesSingle
<1>5. ASSUME NEW r \in Workers, Task(r)
      PROVE  Places'
  BY <1>5 DEF Task, Opens, CannotOpen, TransferEnds, Closes, Returns,
       CleansUpChild, ChildExits, Faults
<1>6. CASE Reap
  BY <1>6 DEF Reap, ReapReader, ReapWriter, Report, Destroys, LoopsOn, Exits
<1>7. CASE Signals
  BY <1>7 DEF Signals, Interrupt, Terminate, Sigrelay
<1>8. CASE UNCHANGED vars
  BY <1>8 DEF vars
<1> QED BY <1>1, <1>2, <1>3, <1>4, <1>5, <1>6, <1>7, <1>8 DEF Next, Over

\* An arbiter that waits.
LEMMA NextAwaited ==
  ASSUME LifeInv, [Next]_vars
  PROVE  Awaited'
<1> USE DEF LifeInv, Goto, At, Running, Proc, Dir, Procs, Workers, Roles, Dirs,
          Kinds, opts, env, logs, sigs, hist, SetupPlaces, SinglePlaces,
          SyncPlaces, ForkPlaces, CreatePlaces, WaitPlaces, WorkPlaces,
          BeforeReader, BeforeWriter, AfterReader, ForkAt, CreateAt, Order,
          Touches, Hears, Live, Places, Typed, Awaited, GaveUp, Release,
          Outcome, Gone
<1>1. CASE SetupFds
  BY <1>1 DEF SetupFds
<1>2. CASE SetupEnv
  BY <1>2 DEF SetupEnv, SetupSignals, CannotSetSignals, Fails, MakesChunk,
       ClearsChunk, MakesBuf, SetsMode, RejectsPoints, MakesSync
<1>3. CASE SetupProc
  BY <1>3 DEF SetupProc, Fork, Create, CannotCreate
<1>4. CASE TaskSingle
  BY <1>4 DEF TaskSingle, OpensSingle, CannotOpenSingle, TransferSingle,
       ClosesSingle
<1>5. ASSUME NEW r \in Workers, Task(r)
      PROVE  Awaited'
  BY <1>5 DEF Task, Opens, CannotOpen, TransferEnds, Closes, Returns,
       CleansUpChild, ChildExits, Faults
<1>6. CASE Reap
  BY <1>6 DEF Reap, ReapReader, ReapWriter, Report, Destroys, LoopsOn, Exits
<1>7. CASE Signals
  BY <1>7 DEF Signals, Interrupt, Terminate, Sigrelay
<1>8. CASE UNCHANGED vars
  BY <1>8 DEF vars
<1> QED BY <1>1, <1>2, <1>3, <1>4, <1>5, <1>6, <1>7, <1>8 DEF Next, Over

\* An unwinding starts with what there is ...
LEMMA EnvUndo ==
  ASSUME NEW k \in 0 .. 5, Typed, pc' ["arbiter"] = "undo", undo' = Down(k),
         made' = made, mapped' = mapped, Env, Depth = k
  PROVE Env'
<1>1. Len(undo') = k BY DownLen
<1>2. Depth' = k
  BY <1>1
    DEF Depth, SetupPlaces, SinglePlaces, SyncPlaces, ForkPlaces, CreatePlaces,
        WaitPlaces
<1> QED BY <1>1, <1>2 DEF Env

\* ... a step that makes and destroys nothing keeps what there is ...
LEMMA EnvKept ==
  ASSUME Typed, Env, undo' = undo, made' = made,
         mapped'["arbiter"] = mapped["arbiter"], pc["arbiter"] # "undo",
         Depth' = Depth
  PROVE Env'
BY DEF Env

\* ... and one that makes the next object is reflected in the place.
LEMMA EnvMakes ==
  ASSUME NEW k \in 1 .. 5, Env, Typed, Depth = k - 1, Depth' = k, undo' = undo,
         pc["arbiter"] # "undo", made' = made \union {Order[k]}, 
         mapped'["arbiter"]
  PROVE Env'
<1>1. made' = First(k) BY FirstNext DEF Env
<1>2. made' # {} BY FirstSome, <1>1
<1> QED BY <1>1, <1>2 DEF Env

\* A label of setup_env() finds what it undoes.
LEMMA FailsKeepsEnv ==
  ASSUME LifeInv, NEW k \in {1,2,3,4,5}, Fails(k)
  PROVE  Env'
<1>1. Depth = k - 1
  BY DEF Fails, Goto, At, Depth, Order, SinglePlaces, ForkPlaces, CreatePlaces,
         WaitPlaces
<1>2. pc'["arbiter"] = "undo"
  BY DEF LifeInv, Places, Fails, Goto, At, Roles, Procs
<1> QED BY <1>1, <1>2, EnvUndo DEF LifeInv, Fails

\* So does the rejection of the points ...
LEMMA PointsKeepEnv ==
  ASSUME LifeInv, RejectsPoints
  PROVE  Env'
<1>1. Depth = 2
  BY DEF RejectsPoints, Goto, At, Depth, Order, SinglePlaces, ForkPlaces,
         CreatePlaces, WaitPlaces
<1>2. pc'["arbiter"] = "undo"
  BY DEF LifeInv, Places, RejectsPoints, Goto, At, Roles, Procs
<1> QED BY <1>1, <1>2, EnvUndo DEF LifeInv, RejectsPoints

\* ... a failed setup_proc() ...
LEMMA CannotCreateKeepsEnv ==
  ASSUME LifeInv, CannotCreate
  PROVE  Env'
<1>1. Depth = Objects
  BY DEF LifeInv, Places, CannotCreate, Goto, At, Depth, Order, SinglePlaces,
         ForkPlaces, CreatePlaces, WaitPlaces, Objects, Roles, Procs, Workers,
         ForkAt, CreateAt
<1>2. pc'["arbiter"] = "undo"
  BY DEF LifeInv, Places, CannotCreate, Goto, At, Roles, Procs
<1>3. Objects \in 0 .. 5 BY DEF Objects
<1> QED BY <1>1, <1>2, <1>3, EnvUndo DEF LifeInv, CannotCreate

\* ... and cleanup_arbiter().
LEMMA ReportKeepsEnv ==
  ASSUME LifeInv, Report
  PROVE  Env'
<1>1. Depth = Objects
  BY DEF LifeInv, Places, Report, Goto, At, Depth, Order, SinglePlaces,
         ForkPlaces, CreatePlaces, WaitPlaces, Objects
<1>2. pc'["arbiter"] = "undo"
  BY DEF LifeInv, Places, Report, Goto, At, Roles, Procs
<1>3. Objects \in 0 .. 5 BY DEF Objects
<1> QED BY <1>1, <1>2, <1>3, EnvUndo DEF LifeInv, Report

\* The chunk is made first.
LEMMA ChunkKeepsEnv ==
  ASSUME LifeInv, MakesChunk
  PROVE  Env'
<1>1. Depth = 0
  BY DEF MakesChunk, Goto, At, Depth, Order, SinglePlaces, ForkPlaces,
         CreatePlaces, WaitPlaces
<1>2. Depth' = 1
  BY DEF LifeInv, Places, MakesChunk, Goto, At, Roles, Procs, Depth,
         SinglePlaces, ForkPlaces, CreatePlaces, WaitPlaces
<1>3. mapped'["arbiter"] BY DEF LifeInv, Typed, MakesChunk, Procs
<1>4. pc["arbiter"] # "undo" /\ made' = made \union {Order[1]} /\ undo' = undo
  BY DEF MakesChunk, Goto, At, Order
<1>5. Env /\ Typed BY DEF LifeInv
<1> QED BY <1>1, <1>2, <1>3, <1>4, <1>5, EnvMakes

\* The buffer is made next.
LEMMA BufKeepsEnv ==
  ASSUME LifeInv, MakesBuf
  PROVE  Env'
<1>1. Depth = 1
  BY DEF MakesBuf, Goto, At, Depth, Order, SinglePlaces, ForkPlaces,
         CreatePlaces, WaitPlaces
<1>2. Depth' = 2
  BY DEF LifeInv, Places, MakesBuf, Goto, At, Roles, Procs, Depth,
         SinglePlaces, ForkPlaces, CreatePlaces, WaitPlaces
<1>3. mapped'["arbiter"]
  BY <1>1, FirstSome DEF LifeInv, Typed, MakesBuf, Procs, Env
<1>4. pc["arbiter"] # "undo" /\ made' = made \union {Order[2]} /\ undo' = undo
  BY DEF MakesBuf, Goto, At, Order
<1>5. Env /\ Typed BY DEF LifeInv
<1> QED BY <1>1, <1>2, <1>3, <1>4, <1>5, EnvMakes

\* The other three follow.
LEMMA SyncKeepsEnv ==
  ASSUME LifeInv, NEW k \in {3,4,5}, MakesSync(k)
  PROVE  Env'
<1>1. Depth = k - 1
  BY DEF MakesSync, Goto, At, Depth, SinglePlaces, Order, ForkPlaces,
         CreatePlaces, WaitPlaces
<1>2. Depth' = k
  BY DEF LifeInv, Places, MakesSync, Goto, At, Roles, Procs, Depth,
         SinglePlaces, SyncPlaces, ForkPlaces, CreatePlaces, WaitPlaces, Order
<1>3. mapped'["arbiter"]
  BY <1>1, FirstSome DEF LifeInv, Typed, MakesSync, Procs, Env
<1>4. pc["arbiter"] # "undo" /\ made' = made \union {Order[k]} /\ undo' = undo
  BY DEF MakesSync, Goto, At, Order
<1>5. Env /\ Typed BY DEF LifeInv
<1> QED BY <1>1, <1>2, <1>3, <1>4, <1>5, EnvMakes

\* What is destroyed was the last one made.
LEMMA DestroysKeepsEnv ==
  ASSUME LifeInv, Destroys
  PROVE  Env'
<1> DEFINE k == Len(undo)
<1>1. k \in 1 .. 5 /\ undo = Down(k) /\ Depth = k
  BY DownEmpty
    DEF Destroys, At, LifeInv, Env, Depth, SinglePlaces, ForkPlaces,
        CreatePlaces, WaitPlaces
<1> HIDE DEF k
<1>0. k - 1 \in 0 .. 5 BY <1>1
<1>2a. undo' = Down(k - 1) BY <1>1, DownTail DEF Destroys
<1>2. Len(undo') = k - 1 BY <1>2a, <1>0, DownLen
<1>3. Depth' = k - 1
  BY <1>2
    DEF Destroys, At, Depth, SinglePlaces, ForkPlaces, CreatePlaces, WaitPlaces
<1>4. made' = First(k - 1)
  BY <1>1, DownHead, FirstLess DEF Destroys, LifeInv, Env
<1>5. mapped'["arbiter"] = (k # 1) 
  <2>1. Head(undo) # "chunk" <=> k # 1 BY <1>1, DownHead, ChunkIsFirst
  <2>2. mapped["arbiter"] BY <1>1, FirstSome DEF LifeInv, Env, Typed, Procs
  <2> QED BY <2>1, <2>2 DEF LifeInv, Destroys, Typed, Procs
<1>6. made' # {} <=> k # 1 BY <1>1, <1>4, FirstNone, FirstSome
<1>7. pc'["arbiter"] = "undo" BY DEF Destroys, At
<1> QED BY <1>0, <1>2, <1>2a, <1>3, <1>4, <1>5, <1>6, <1>7 DEF Env

\* What exists, and what is to be undone.
LEMMA NextEnv ==
  ASSUME LifeInv, [Next]_vars
  PROVE  Env'
<1> USE DEF LifeInv, Goto, At, Running, Proc, Dir, Procs, Workers, Roles, Dirs,
          Kinds, opts, env, logs, sigs, hist, SetupPlaces, SinglePlaces,
          SyncPlaces, ForkPlaces, CreatePlaces, WaitPlaces, WorkPlaces,
          BeforeReader, BeforeWriter, AfterReader, ForkAt, CreateAt, Order,
          Touches, Hears, Live, Places, Env, Typed, Depth, Objects
<1>1. CASE SetupFds
  BY <1>1 DEF SetupFds
<1>2. CASE SetupEnv
  <2>1. CASE SetupSignals
    BY <2>1 DEF SetupSignals
  <2>2. CASE CannotSetSignals
    BY <2>2 DEF CannotSetSignals
  <2>3. ASSUME NEW k \in {1, 2, 3, 4, 5}, Fails(k)
        PROVE  Env'
    BY <2>3, FailsKeepsEnv
  <2>4. CASE MakesChunk
    BY <2>4, ChunkKeepsEnv
  <2>5. CASE ClearsChunk
    BY <2>5 DEF ClearsChunk
  <2>6. CASE MakesBuf
    BY <2>6, BufKeepsEnv
  <2>7. CASE SetsMode
    BY <2>7 DEF SetsMode
  <2>8. CASE RejectsPoints
    BY <2>8, PointsKeepEnv
  <2>9. ASSUME NEW k \in {3, 4, 5}, MakesSync(k)
        PROVE  Env'
    BY <2>9, SyncKeepsEnv
  <2> QED
    BY <1>2, <2>1, <2>2, <2>3, <2>4, <2>5, <2>6, <2>7, <2>8, <2>9 DEF SetupEnv
<1>3. CASE SetupProc
  <2>1. ASSUME NEW r \in Workers, Fork(r)
        PROVE  Env'
    BY <2>1 DEF Fork
  <2>2. ASSUME NEW r \in Roles \ {"arbiter"}, Create(r)
        PROVE  Env'
    BY <2>2, ZenonT(40) DEF Create
  <2>3. CASE CannotCreate
    BY <2>3, CannotCreateKeepsEnv
  <2> QED BY <1>3, <2>1, <2>2, <2>3 DEF SetupProc
<1>4. CASE TaskSingle
  BY <1>4 DEF TaskSingle, OpensSingle, CannotOpenSingle, TransferSingle,
       ClosesSingle
<1>5. ASSUME NEW r \in Workers, Task(r)
      PROVE  Env'
  BY <1>5, ZenonT(40) DEF Task, Opens, CannotOpen, TransferEnds, Closes, Returns,
       CleansUpChild, ChildExits, Faults
<1>6. CASE Reap
  <2>1. CASE ReapReader
    BY <2>1 DEF ReapReader
  <2>2. CASE ReapWriter
    BY <2>2 DEF ReapWriter
  <2>3. CASE Report
    BY <2>3, ReportKeepsEnv
  <2>4. CASE Destroys
    BY <2>4, DestroysKeepsEnv
  <2>5. CASE LoopsOn
    BY <2>5 DEF LoopsOn
  <2>6. CASE Exits
    BY <2>6 DEF Exits
  <2> QED BY <1>6, <2>1, <2>2, <2>3, <2>4, <2>5, <2>6 DEF Reap
<1>7. CASE Signals
  BY <1>7, ZenonT(40) DEF Signals, Interrupt, Terminate, Sigrelay
<1>8. CASE UNCHANGED vars
  BY <1>8 DEF vars
<1> QED BY <1>1, <1>2, <1>3, <1>4, <1>5, <1>6, <1>7, <1>8 DEF Next, Over

\* A step of the arbiter that touches no end.
LEMMA EndsKept ==
  ASSUME Places, Typed, Ends, fds' = fds, mode' = mode,
         pc["arbiter"] \notin {"setup_fds", "exited"} \union SinglePlaces, 
         pc'["arbiter"] \notin {"setup_fds", "exited"} \union SinglePlaces,
         \A w \in Workers : pc'[w] = pc[w],
         \A w \in Workers : Running(Proc(w))' => Running(Proc(w))
  PROVE  Ends'
<1>1. ASSUME NEW d \in Dirs PROVE Opened(d)' = Opened(d)
  <2>1. CASE mode = "sp" BY <2>1 DEF Opened, SinglePlaces
  <2>2. CASE mode = "mt" BY <2>2 DEF Opened, Workers
  <2>3. CASE mode = "mp" BY <2>3 DEF Opened
  <2> QED BY <2>1, <2>2, <2>3 DEF Places
<1>2. \A w \in Workers : Proc(w)' = Proc(w) BY DEF Proc
<1> QED BY <1>1, <1>2 DEF Ends

\* What SetFd() changes.
LEMMA SetFdValue ==
  ASSUME Typed, NEW p \in Procs, NEW d \in Dirs, NEW f, SetFd(p, d, f)
  PROVE \A q \in Procs, e \in Dirs : fds'[q][e] = IF q = p /\ e = d THEN f ELSE fds[q][e]
BY DEF Typed, SetFd

\* A failure of setup_env() touches no end.
LEMMA FailsKeepsEnds ==
  ASSUME LifeInv, NEW k \in {1,2,3,4,5}, Fails(k)
  PROVE  Ends'
<1>1. pc["arbiter"] \in {"chunk","buf","vars","nospace","nodata"}
  BY DEF Fails, Goto, At, Order
<1>2. /\ pc' = [pc EXCEPT !["arbiter"] = "undo"]
      /\ crashed' = crashed
      /\ fds' = fds
      /\ mode' = mode
  BY DEF Fails, Goto, opts, sigs
<1>3. pc'["arbiter"] = "undo" BY <1>2 DEF LifeInv, Places, Roles, Procs
<1>4. \A w \in Workers : pc'[w] = pc[w] BY <1>2 DEF Workers
<1>5. \A w \in Workers : Running(Proc(w))' => Running(Proc(w))
  BY <1>1, <1>2, <1>3, <1>4 DEF Running, Proc, Workers
<1> QED BY <1>1, <1>2, <1>3, <1>4, <1>5, EndsKept DEF LifeInv, SinglePlaces

\* Nor does making a semaphore or the mutex.
LEMMA SyncKeepsEnds ==
  ASSUME LifeInv, NEW k \in {3,4,5}, MakesSync(k)
  PROVE  Ends'
<1>1. pc["arbiter"] \in {"vars","nospace","nodata"}
  BY DEF MakesSync, Goto, At, Order
<1>2. pc'["arbiter"] \in {"nospace","nodata","fork_reader","create_sigrelay"} 
   BY <1>1
     DEF MakesSync, Goto, Order, LifeInv, Places, Roles, Procs, SyncPlaces
<1>3. crashed' = crashed /\ fds' = fds /\ mode' = mode
  BY DEF MakesSync, Goto, opts, sigs
<1>4. \A w \in Workers : pc'[w] = pc[w] BY DEF Workers, MakesSync, Goto
<1>5. \A w \in Workers : Running(Proc(w))' => Running(Proc(w))
  BY <1>1, <1>2, <1>3, <1>4 DEF Running, Proc, Workers
<1> QED BY <1>1, <1>2, <1>3, <1>4, <1>5, EndsKept DEF LifeInv, SinglePlaces

\* setup_fds() constructs both ends, or leaves nothing.
LEMMA SetupFdsKeepsEnds ==
  ASSUME LifeInv, SetupFds
  PROVE  Ends'
<1>0. pc["arbiter"] = "setup_fds" BY DEF SetupFds, Goto, At
<1>1. pc["arbiter"] = "setup_fds" /\ \A w \in Workers : pc'[w] = pc[w] /\ pc[w] = "off"
  <2>1. \A w \in Workers : pc'[w] = pc[w]
    BY DEF SetupFds, Goto, Workers, LifeInv, Places, Roles, Procs
  <2>2. pc["reader"] = "off" /\ pc["writer"] = "off"
    BY <1>0 DEF LifeInv, Places, BeforeReader, BeforeWriter, SetupPlaces
  <2> QED BY <1>0, <2>1, <2>2 DEF Workers
<1>2. CASE fds' = fds /\ pc' = [pc EXCEPT !["arbiter"] = "exited"]
  <2>1. pc'["arbiter"] = "exited" BY <1>2 DEF LifeInv, Places, Roles, Procs
  <2>2. \A d \in Dirs : Released(fds'["arbiter"][d])
    BY <1>1, <1>2 DEF LifeInv, Ends, Released, NoFdpack
  <2> QED BY <1>1, <2>1, <2>2 DEF Ends
<1>3. ASSUME NEW i \in Kinds \ {"none"}, NEW o \in Kinds \ {"none"}, 
          fds' = [fds EXCEPT !["arbiter"] = [d \in Dirs |-> FdCtor(IF d = "in" THEN i ELSE o)]],
          pc' = [pc EXCEPT !["arbiter"] = "setup_env"]
       PROVE Ends'
  <2>1. pc'["arbiter"] = "setup_env" BY <1>3 DEF LifeInv, Places, Roles, Procs
  <2>2. ASSUME NEW d \in Dirs
        PROVE  \E k \in Kinds \ {"none"} : fds'["arbiter"][d] = FdCtor(k)
     BY <1>3 DEF LifeInv, Typed, Procs
  <2>3. ASSUME NEW k \in Kinds \ {"none"}, NEW f, f = FdCtor(k) 
        PROVE f.type # "none" /\ (f.type = "file" => f.path) /\ (f.open => f.type = "fd")
     BY <2>3 DEF FdCtor
  <2>4. \A d \in Dirs : LET f == fds'["arbiter"][d]
                       IN  /\ f.type # "none" /\ (f.type = "file" => f.path)
                           /\ f.open => f.type = "fd"
     BY <2>2, <2>3
  <2> QED BY <1>1, <2>1, <2>4 DEF Ends
<1> QED BY <1>2, <1>3 DEF SetupFds, Goto

\* fd_open() changes nothing but that the end is open.
LEMMA EndOpened ==
  ASSUME Typed, NEW r \in Workers,
         SetFd(Proc(r), Dir(r), FdOpen(fds[Proc(r)][Dir(r)]))
  PROVE  \A p \in Procs, d \in Dirs :
     /\ fds'[p][d].type = fds[p][d].type
     /\ fds'[p][d].path = fds[p][d].path
     /\ fds'[p][d].open = IF p = Proc(r) /\ d = Dir(r)
                         THEN TRUE ELSE fds[p][d].open
<1>1. Proc(r) \in Procs /\ Dir(r) \in Dirs
  BY DEF Proc, Dir, Procs, Dirs, Workers
<1>2. \A q \in Procs, e \in Dirs :
        fds'[q][e] = IF q = Proc(r) /\ e = Dir(r)
                     THEN FdOpen(fds[Proc(r)][Dir(r)]) ELSE fds[q][e]
  BY <1>1, SetFdValue
<1>3. fds[Proc(r)][Dir(r)] \in Fdpack BY <1>1 DEF Typed
<1> QED BY <1>2, <1>3, ZenonT(40) DEF FdOpen, Fdpack

\* fd_close() changes nothing but that it is closed.
LEMMA EndClosed ==
  ASSUME Typed, NEW r \in Workers,
         SetFd(Proc(r), Dir(r), FdClose(fds[Proc(r)][Dir(r)]))
  PROVE  \A p \in Procs, d \in Dirs :
     /\ fds'[p][d].type = fds[p][d].type
     /\ fds'[p][d].path = fds[p][d].path
     /\ fds'[p][d].open = IF p = Proc(r) /\ d = Dir(r)
                         THEN FALSE ELSE fds[p][d].open
<1>1. Proc(r) \in Procs /\ Dir(r) \in Dirs
  BY DEF Proc, Dir, Procs, Dirs, Workers
<1>2. \A q \in Procs, e \in Dirs :
        fds'[q][e] = IF q = Proc(r) /\ e = Dir(r)
                     THEN FdClose(fds[Proc(r)][Dir(r)]) ELSE fds[q][e]
  BY <1>1, SetFdValue
<1>3. fds[Proc(r)][Dir(r)] \in Fdpack BY <1>1 DEF Typed
<1> QED BY <1>2, <1>3, ZenonT(40) DEF FdClose, Fdpack

\* A worker opens its own end, and only while it is at work.
LEMMA OpensKeepsEnds ==
  ASSUME LifeInv, NEW r \in Workers, Opens(r)
  PROVE  Ends'
<1>1. /\ pc["arbiter"] \notin SinglePlaces
      /\ mode # "sp"
      /\ pc' = [pc EXCEPT ![r] = "transfer"]
      /\ pc[r] = "open"
      /\ mode' = mode
      /\ crashed' = crashed
  BY DEF Opens, Goto, At, opts, sigs, LifeInv, Places, Workers
<1>2. /\ pc'["arbiter"] = pc["arbiter"]
      /\ \A w \in Workers : pc'[w] = IF w = r THEN "transfer" ELSE pc[w]
      /\ pc[r] = "open"
  BY <1>1 DEF LifeInv, Places, Roles, Procs, Workers
<1>3. pc["arbiter"] # "setup_fds"
  BY <1>1, <1>2
    DEF LifeInv, Places, Workers, BeforeReader, BeforeWriter, SetupPlaces
<1>4. Running(Proc(r)) /\ \A w \in Workers : Running(Proc(w))' => Running(Proc(w))
  BY <1>1, <1>2 DEF Opens, Goto, At, Running, Proc, Workers
<1>5. mode = "mt" => pc["arbiter"] # "exited" BY <1>4 DEF Running, Proc
<1>0. \A p \in Procs, d \in Dirs :
     /\ fds'[p][d].type = fds[p][d].type
     /\ fds'[p][d].path = fds[p][d].path
     /\ fds'[p][d].open = IF p = Proc(r) /\ d = Dir(r)
                         THEN TRUE ELSE fds[p][d].open
  BY EndOpened DEF Opens, LifeInv
<1>6. Ends!1' BY <1>2, <1>3
<1>7. Ends!2'
  BY <1>1, <1>2, <1>5, <1>0 DEF Procs, Proc, Released, LifeInv, Ends, Places
<1>8. Ends!3'
  <2> SUFFICES ASSUME pc["arbiter"] \notin {"setup_fds", "exited"},
                      NEW d \in Dirs
               PROVE  LET f == fds'["arbiter"][d]
                      IN  /\ f.type # "none" /\ (f.type = "file" => f.path)
                          /\ f.open => f.type = "fd" \/ Opened(d)'
    BY <1>2
  <2>1. LET f == fds["arbiter"][d]
        IN  /\ f.type # "none" /\ (f.type = "file" => f.path)
            /\ f.open => f.type = "fd" \/ Opened(d)
    BY DEF LifeInv, Ends
  <2>2. CASE mode = "mt"
    <3>1. CASE d = Dir(r)
      <4>1. Opened(d)' <=> TRUE
        BY <1>1, <1>2, <2>2, <3>1 DEF Opened, Dir, Workers
      <4> QED BY <1>0, <2>1, <2>2, <3>1, <4>1 DEF Proc, Procs
    <3>2. CASE d # Dir(r)
      <4>1. Opened(d)' <=> Opened(d)
        BY <1>1, <1>2, <2>2, <3>2 DEF Opened, Dir, Dirs, Workers
      <4> QED BY <1>0, <2>1, <2>2, <3>2, <4>1 DEF Proc, Procs
    <3> QED BY <3>1, <3>2
  <2>3. CASE mode = "mp"
    <3>1. Opened(d)' = Opened(d) BY <1>1, <2>3 DEF Opened
    <3> QED BY <1>0, <2>1, <2>3, <3>1 DEF Proc, Procs, Workers
  <2> QED BY <1>1, <2>2, <2>3 DEF LifeInv, Places
<1>9. Ends!4'
  BY <1>1, <1>2, <1>4, <1>0 DEF Procs, Workers, Dirs, Dir, Proc, LifeInv, Ends
<1> QED BY <1>6, <1>7, <1>8, <1>9 DEF Ends

\* It closes it on its way out.
LEMMA ClosesKeepsEnds ==
  ASSUME LifeInv, NEW r \in Workers, Closes(r)
  PROVE  Ends'
<1>1. /\ pc["arbiter"] \notin SinglePlaces
      /\ mode # "sp"
      /\ pc' = [pc EXCEPT ![r] = "leave"]
      /\ pc[r] = "close"
      /\ mode' = mode
      /\ crashed' = crashed
  BY DEF Closes, Goto, At, opts, sigs, LifeInv, Places, Workers
<1>2. /\ pc'["arbiter"] = pc["arbiter"]
      /\ \A w \in Workers : pc'[w] = IF w = r THEN "leave" ELSE pc[w]
      /\ pc[r] = "close"
  BY <1>1 DEF LifeInv, Places, Roles, Procs, Workers
<1>3. pc["arbiter"] # "setup_fds"
  BY <1>1, <1>2
    DEF LifeInv, Places, Workers, BeforeReader, BeforeWriter, SetupPlaces
<1>4. Running(Proc(r)) /\ \A w \in Workers : Running(Proc(w))' => Running(Proc(w))
  BY <1>1, <1>2 DEF Closes, Goto, At, Running, Proc, Workers
<1>5. mode = "mt" => pc["arbiter"] # "exited" BY <1>4 DEF Running, Proc
<1>0. \A p \in Procs, d \in Dirs :
     /\ fds'[p][d].type = fds[p][d].type
     /\ fds'[p][d].path = fds[p][d].path
     /\ fds'[p][d].open = IF p = Proc(r) /\ d = Dir(r)
                         THEN FALSE ELSE fds[p][d].open
  BY EndClosed DEF Closes, LifeInv
<1>6. Ends!1' BY <1>2, <1>3
<1>7. Ends!2'
  BY <1>1, <1>2, <1>5, <1>0 DEF Procs, Proc, Released, LifeInv, Ends, Places
<1>8. Ends!3'
  <2> SUFFICES ASSUME pc["arbiter"] \notin {"setup_fds", "exited"},
                      NEW d \in Dirs
               PROVE  LET f == fds'["arbiter"][d]
                      IN  /\ f.type # "none" /\ (f.type = "file" => f.path)
                          /\ f.open => f.type = "fd" \/ Opened(d)'
    BY <1>2
  <2>1. LET f == fds["arbiter"][d]
        IN  /\ f.type # "none" /\ (f.type = "file" => f.path)
            /\ f.open => f.type = "fd" \/ Opened(d)
    BY DEF LifeInv, Ends
  <2>2. CASE mode = "mt"
    <3>1. CASE d = Dir(r)
      <4>1. Opened(d)' <=> FALSE
        BY <1>1, <1>2, <2>2, <3>1 DEF Opened, Dir, Workers
      <4> QED BY <1>0, <2>1, <2>2, <3>1, <4>1 DEF Proc, Procs
    <3>2. CASE d # Dir(r)
      <4>1. Opened(d)' <=> Opened(d)
        BY <1>1, <1>2, <2>2, <3>2 DEF Opened, Dir, Dirs, Workers
      <4> QED BY <1>0, <2>1, <2>2, <3>2, <4>1 DEF Proc, Procs
    <3> QED BY <3>1, <3>2
  <2>3. CASE mode = "mp"
    <3>1. Opened(d)' = Opened(d) BY <1>1, <2>3 DEF Opened
    <3> QED BY <1>0, <2>1, <2>3, <3>1 DEF Proc, Procs, Workers
  <2> QED BY <1>1, <2>2, <2>3 DEF LifeInv, Places
<1>9. Ends!4'
  <2> SUFFICES ASSUME NEW w \in Workers, pc'[w] \in {"transfer", "close"},
                      Running(Proc(w))'
               PROVE  fds'[Proc(w)'][Dir(w)].open
    OBVIOUS
  <2>1. w # r /\ pc[w] = pc'[w] /\ Running(Proc(w)) /\ Proc(w)' = Proc(w)
    BY <1>1, <1>2, <1>4 DEF Proc
  <2>2. fds[Proc(w)][Dir(w)].open BY <2>1 DEF LifeInv, Ends
  <2>3. Dir(w) # Dir(r) /\ Proc(w) \in Procs /\ Dir(w) \in Dirs
    BY <2>1 DEF Dir, Proc, Workers, Procs, Dirs
  <2> QED BY <1>0, <2>1, <2>2, <2>3
<1> QED BY <1>6, <1>7, <1>8, <1>9 DEF Ends

\* Who has which end open.
LEMMA NextEnds ==
  ASSUME LifeInv, [Next]_vars
  PROVE  Ends'
<1> USE DEF LifeInv, Goto, At, Running, Proc, Dir, Procs, Workers, Roles, Dirs,
          Kinds, opts, env, logs, sigs, hist, SetupPlaces, SinglePlaces,
          SyncPlaces, ForkPlaces, CreatePlaces, WaitPlaces, WorkPlaces,
          BeforeReader, BeforeWriter, AfterReader, ForkAt, CreateAt, Order,
          Touches, Hears, Live, Places, Typed, Ends, Opened, Env, Fdpack,
          FdCtor, FdOpen, FdClose, FdDtor, NoFdpack, Released, CleanupFds,
          SetFd, Outcome, Gone, CloseSingle, Openable
<1>1. CASE SetupFds
  BY <1>1, SetupFdsKeepsEnds
<1>2. CASE SetupEnv
  <2>1. CASE SetupSignals
    BY <2>1 DEF SetupSignals
  <2>2. CASE CannotSetSignals
    BY <2>2 DEF CannotSetSignals
  <2>3. ASSUME NEW k \in {1, 2, 3, 4, 5}, Fails(k)
        PROVE  Ends'
    BY <2>3, FailsKeepsEnds
  <2>4. CASE MakesChunk
    BY <2>4 DEF MakesChunk
  <2>5. CASE ClearsChunk
    BY <2>5 DEF ClearsChunk
  <2>6. CASE MakesBuf
    BY <2>6 DEF MakesBuf
  <2>7. CASE SetsMode
    BY <2>7, ZenonT(40) DEF SetsMode
  <2>8. CASE RejectsPoints
    BY <2>8 DEF RejectsPoints
  <2>9. ASSUME NEW k \in {3, 4, 5}, MakesSync(k)
        PROVE  Ends'
    BY <2>9, SyncKeepsEnds
  <2> QED
    BY <1>2, <2>1, <2>2, <2>3, <2>4, <2>5, <2>6, <2>7, <2>8, <2>9 DEF SetupEnv
<1>3. CASE SetupProc
  <2>1. ASSUME NEW r \in Workers, Fork(r)
        PROVE  Ends'
    BY <2>1 DEF Fork
  <2>2. ASSUME NEW r \in Roles \ {"arbiter"}, Create(r)
        PROVE  Ends'
    BY <2>2, ZenonT(40) DEF Create
  <2>3. CASE CannotCreate
    BY <2>3, ZenonT(40) DEF CannotCreate
  <2> QED BY <1>3, <2>1, <2>2, <2>3 DEF SetupProc
<1>4. CASE TaskSingle
  <2>1. CASE OpensSingle("in", "open_in", "open_out")
    BY <2>1 DEF OpensSingle
  <2>2. CASE OpensSingle("out", "open_out", "transfer")
    BY <2>2 DEF OpensSingle
  <2>3. CASE CannotOpenSingle("in", "open_in")
    BY <2>3 DEF CannotOpenSingle
  <2>4. CASE CannotOpenSingle("out", "open_out")
    BY <2>4 DEF CannotOpenSingle
  <2>5. CASE TransferSingle
    BY <2>5 DEF TransferSingle
  <2>6. CASE ClosesSingle
    BY <2>6 DEF ClosesSingle
  <2> QED BY <1>4, <2>1, <2>2, <2>3, <2>4, <2>5, <2>6 DEF TaskSingle
<1>5. ASSUME NEW r \in Workers, Task(r)
      PROVE  Ends'
  <2>1. CASE Opens(r)
    BY <2>1, OpensKeepsEnds
  <2>2. CASE CannotOpen(r)
    BY <2>2, ZenonT(40) DEF CannotOpen
  <2>3. CASE TransferEnds(r)
    BY <2>3, ZenonT(40) DEF TransferEnds
  <2>4. CASE Closes(r)
    BY <2>4, ClosesKeepsEnds
  <2>5. CASE Returns(r)
    BY <2>5 DEF Returns
  <2>6. CASE CleansUpChild(r)
    BY <2>6 DEF CleansUpChild
  <2>7. CASE ChildExits(r)
    BY <2>7, ZenonT(40) DEF ChildExits
  <2>8. CASE Faults(r)
    BY <2>8, ZenonT(40) DEF Faults
  <2> QED BY <1>5, <2>1, <2>2, <2>3, <2>4, <2>5, <2>6, <2>7, <2>8 DEF Task
<1>6. CASE Reap
  <2>1. CASE ReapReader
    BY <2>1 DEF ReapReader
  <2>2. CASE ReapWriter
    BY <2>2, ZenonT(40) DEF ReapWriter
  <2>3. CASE Report
    BY <2>3, ZenonT(40) DEF Report
  <2>4. CASE Destroys
    BY <2>4, ZenonT(40) DEF Destroys
  <2>5. CASE LoopsOn
    BY <2>5 DEF LoopsOn
  <2>6. CASE Exits
    BY <2>6 DEF Exits
  <2> QED BY <1>6, <2>1, <2>2, <2>3, <2>4, <2>5, <2>6 DEF Reap
<1>7. CASE Signals
  <2>1. ASSUME NEW p \in Procs, Interrupt(p)
        PROVE  Ends'
    BY <2>1, ZenonT(40) DEF Interrupt
  <2>2. ASSUME NEW p \in Procs, Terminate(p)
        PROVE  Ends'
    BY <2>2, ZenonT(40) DEF Terminate
  <2>3. CASE Sigrelay
    BY <2>3 DEF Sigrelay
  <2> QED BY <1>7, <2>1, <2>2, <2>3 DEF Signals
<1>8. CASE UNCHANGED vars
  BY <1>8, ZenonT(40) DEF vars
<1> QED BY <1>1, <1>2, <1>3, <1>4, <1>5, <1>6, <1>7, <1>8 DEF Next, Over

\* setup_fds() runs before there are children.
LEMMA SetupFdsKeepsChildren ==
  ASSUME LifeInv, SetupFds
  PROVE  Children'
<1>1. \A w \in Workers : fds'[w] = fds[w]
  BY DEF SetupFds, LifeInv, Typed, Procs, Workers
<1>2. \A w \in Workers : pc'[w] = pc[w]
  BY DEF SetupFds, LifeInv, Places, Roles, Procs, Workers, Goto
<1>3. mapped' = mapped /\ mode' = mode BY DEF SetupFds, env, opts
<1> QED BY <1>1, <1>2, <1>3 DEF LifeInv, Children

\* What a child holds.
LEMMA NextChildren ==
  ASSUME LifeInv, [Next]_vars
  PROVE  Children'
<1> USE DEF LifeInv, Goto, At, Running, Proc, Dir, Procs, Workers, Roles, Dirs,
          Kinds, opts, env, logs, sigs, hist, SetupPlaces, SinglePlaces,
          SyncPlaces, ForkPlaces, CreatePlaces, WaitPlaces, WorkPlaces,
          BeforeReader, BeforeWriter, AfterReader, ForkAt, CreateAt, Order,
          Touches, Hears, Live, Places, Typed, Children, FdDtor, FdClose,
          Released, NoFdpack, CleanupFds, SetFd, FdOpen, CloseSingle
<1>1. CASE SetupFds
  BY <1>1, SetupFdsKeepsChildren
<1>2. CASE SetupEnv
  <2>1. CASE SetupSignals
    BY <2>1 DEF SetupSignals
  <2>2. CASE CannotSetSignals
    BY <2>2 DEF CannotSetSignals
  <2>3. ASSUME NEW k \in {1, 2, 3, 4, 5}, Fails(k)
        PROVE  Children'
    BY <2>3 DEF Fails
  <2>4. CASE MakesChunk
    BY <2>4 DEF MakesChunk
  <2>5. CASE ClearsChunk
    BY <2>5 DEF ClearsChunk
  <2>6. CASE MakesBuf
    BY <2>6 DEF MakesBuf
  <2>7. CASE SetsMode
    BY <2>7 DEF SetsMode
  <2>8. CASE RejectsPoints
    BY <2>8 DEF RejectsPoints
  <2>9. ASSUME NEW k \in {3, 4, 5}, MakesSync(k)
        PROVE  Children'
    BY <2>9 DEF MakesSync
  <2> QED
    BY <1>2, <2>1, <2>2, <2>3, <2>4, <2>5, <2>6, <2>7, <2>8, <2>9 DEF SetupEnv
<1>3. CASE SetupProc
  <2>1. ASSUME NEW r \in Workers, Fork(r)
        PROVE  Children'
    BY <2>1 DEF Fork
  <2>2. ASSUME NEW r \in Roles \ {"arbiter"}, Create(r)
        PROVE  Children'
    BY <2>2 DEF Create
  <2>3. CASE CannotCreate
    BY <2>3, ZenonT(40) DEF CannotCreate
  <2> QED BY <1>3, <2>1, <2>2, <2>3 DEF SetupProc
<1>4. CASE TaskSingle
  BY <1>4 DEF TaskSingle, OpensSingle, CannotOpenSingle, TransferSingle,
       ClosesSingle
<1>5. ASSUME NEW r \in Workers, Task(r)
      PROVE  Children'
  <2>1. CASE Opens(r)
    BY <2>1, ZenonT(40) DEF Opens
  <2>2. CASE CannotOpen(r)
    BY <2>2, ZenonT(40) DEF CannotOpen
  <2>3. CASE TransferEnds(r)
    BY <2>3 DEF TransferEnds
  <2>4. CASE Closes(r)
    BY <2>4, ZenonT(40) DEF Closes
  <2>5. CASE Returns(r)
    BY <2>5 DEF Returns
  <2>6. CASE CleansUpChild(r)
    BY <2>6 DEF CleansUpChild
  <2>7. CASE ChildExits(r)
    BY <2>7 DEF ChildExits
  <2>8. CASE Faults(r)
    BY <2>8 DEF Faults
  <2> QED BY <1>5, <2>1, <2>2, <2>3, <2>4, <2>5, <2>6, <2>7, <2>8 DEF Task
<1>6. CASE Reap
  <2>1. CASE ReapReader
    BY <2>1 DEF ReapReader
  <2>2. CASE ReapWriter
    BY <2>2 DEF ReapWriter
  <2>3. CASE Report
    BY <2>3 DEF Report
  <2>4. CASE Destroys
    BY <2>4 DEF Destroys
  <2>5. CASE LoopsOn
    BY <2>5 DEF LoopsOn
  <2>6. CASE Exits
    BY <2>6 DEF Exits
  <2> QED BY <1>6, <2>1, <2>2, <2>3, <2>4, <2>5, <2>6 DEF Reap
<1>7. CASE Signals
  BY <1>7, ZenonT(40) DEF Signals, Interrupt, Terminate, Sigrelay
<1>8. CASE UNCHANGED vars
  BY <1>8 DEF vars
<1> QED BY <1>1, <1>2, <1>3, <1>4, <1>5, <1>6, <1>7, <1>8 DEF Next, Over

\* The verdict is clean only if both workers came to the end.
LEMMA ReportKeepsOutcome ==
  ASSUME LifeInv, Report
  PROVE  Outcome'
<1>1. pc["arbiter"] = "report" /\ pc'["arbiter"] = "undo"
  BY DEF LifeInv, Places, Report, Goto, At, Roles, Procs
<1>2. \A w \in Workers : pc'[w] = pc[w]
  BY DEF Report, LifeInv, Places, Roles, Procs, Workers, Goto
<1>3. /\ ret' = (errlog # {})
      /\ complete' = (complete /\ clean = Workers)
      /\ UNCHANGED <<mode, errlog, abrt, struck, clean, crashed>>
  BY DEF Report, opts, logs, sigs
<1>4. mode = "sp" \/ \A w \in Workers : Gone(w) BY <1>1 DEF LifeInv, Outcome
<1>5. \A w \in Workers : Gone(w)' = Gone(w) BY <1>2, <1>3 DEF Gone
<1>6. ~ret' => clean = Workers 
  <2> SUFFICES ASSUME errlog = {} PROVE clean = Workers BY <1>3
  <2>1. CASE mode = "sp" BY <2>1, <1>1 DEF LifeInv, Outcome
  <2>2. CASE mode # "sp"
   <3>1. \A w \in Workers : w \in clean
     BY <2>2, <1>1, <1>4 DEF Gone, LifeInv, Outcome, Places, Workers
   <3> QED BY <3>1 DEF LifeInv, Typed
  <2> QED BY <2>1, <2>2
<1>7. complete BY <1>1 DEF LifeInv, Outcome
<1> QED BY <1>1, <1>2, <1>3, <1>4, <1>5, <1>6, <1>7 DEF LifeInv, Outcome

\* A transfer ends with everything moved, or with an event.
LEMMA TransferKeepsOutcome ==
  ASSUME LifeInv, NEW r \in Workers, TransferEnds(r)
  PROVE  Outcome'
<1>1. \A w \in Workers : pc'[w] = IF w = r THEN "close" ELSE pc[w]
  BY DEF TransferEnds, LifeInv, Places, Roles, Procs, Workers, Goto
<1>2. pc'["arbiter"] = pc["arbiter"] /\ pc[r] = "transfer"
  BY DEF TransferEnds, LifeInv, Places, Roles, Procs, Workers, Goto, At
<1>3. UNCHANGED <<mode, ret, complete, struck, crashed>>
  BY DEF TransferEnds, opts, sigs
<1>4. errlog \subseteq errlog' /\ clean \subseteq clean'
  BY DEF TransferEnds, Release, logs
<1>5. errlog' # {} \/ r \in clean'
  BY DEF TransferEnds, Release, logs, LifeInv, Outcome
<1>6. mode # "sp" BY <1>2 DEF LifeInv, Places, Workers
<1>7. abrt' \/ struck' => errlog' # {}
  <2>1. CASE Release("err", r) BY <2>1 DEF Release
  <2>2. CASE UNCHANGED logs BY <2>2, <1>3 DEF logs, LifeInv, Outcome
  <2> QED BY <2>1, <2>2 DEF TransferEnds, logs
<1>0. ret' => pc'["arbiter"] \in {"undo", "exited"}
  BY <1>2, <1>3 DEF LifeInv, Outcome
<1>9. \A w \in Workers : Gone(w)' = Gone(w) BY <1>1, <1>2, <1>3 DEF Gone
<1> QED
  <2>1. Outcome!3' BY <1>1, <1>3, <1>4, <1>5 DEF LifeInv, Outcome
  <2>2. Outcome!4' BY <1>2, <1>3, <1>6 DEF LifeInv, Places, SinglePlaces
  <2>3. Outcome!5' /\ Outcome!6' /\ Outcome!7'
    BY <1>2, <1>3, <1>9 DEF LifeInv, Outcome, Workers
  <2> QED BY <1>0, <1>7, <2>1, <2>2, <2>3 DEF Outcome

\* An interruption is recorded, or hits a process that was done.
LEMMA TerminateKeepsOutcome ==
  ASSUME LifeInv, NEW p \in Procs, Terminate(p)
  PROVE  Outcome'
<1>1. UNCHANGED <<mode, ret, complete, pc, clean>>
  BY DEF Terminate, opts, sigs, Hears
<1>2. errlog \subseteq errlog' /\ crashed \subseteq crashed'
  BY DEF Terminate, Release, Touches, logs
<1>3. abrt' \/ struck' => errlog' # {}
  BY DEF Terminate, Release, Touches, logs, Hears, LifeInv, Outcome
<1>4. crashed' \ crashed \subseteq {p} /\ (p \in Workers /\ mapped[p] => crashed' = crashed)
  BY DEF Terminate, Touches
<1>5. \A w \in Workers : Gone(w) => Gone(w)' BY <1>1, <1>2 DEF Gone
<1>6. \A w \in Workers : mode = "mp" /\ w \in crashed' /\ pc[w] # "off" =>
        w \in crashed \/ pc[w] \in {"cleanup_fds", "exited"}
  <2> SUFFICES ASSUME NEW w \in Workers, mode = "mp", w \in crashed',
                      pc[w] # "off", w \notin crashed
               PROVE  pc[w] \in {"cleanup_fds", "exited"}
    OBVIOUS
  <2>1. w = p /\ ~mapped[w] BY <1>4
  <2> QED BY <2>1 DEF LifeInv, Children, Places, WorkPlaces
<1> QED
  <2>1. Outcome!3' BY <1>1, <1>2, <1>6 DEF LifeInv, Outcome
  <2>2. Outcome!4' BY <1>1, <1>2 DEF LifeInv, Outcome
  <2>3. Outcome!5' /\ Outcome!6' /\ Outcome!7'
    BY <1>1, <1>5 DEF LifeInv, Outcome, Workers
  <2>4. ret' => pc'["arbiter"] \in {"undo", "exited"}
    BY <1>1 DEF LifeInv, Outcome
  <2> QED BY <1>3, <2>1, <2>2, <2>3, <2>4 DEF Outcome

\* What an empty errlog means.
LEMMA NextOutcome ==
  ASSUME LifeInv, [Next]_vars
  PROVE  Outcome'
<1> USE DEF LifeInv, Goto, At, Running, Proc, Dir, Procs, Workers, Roles, Dirs,
          Kinds, opts, env, logs, sigs, hist, SetupPlaces, SinglePlaces,
          SyncPlaces, ForkPlaces, CreatePlaces, WaitPlaces, WorkPlaces,
          BeforeReader, BeforeWriter, AfterReader, ForkAt, CreateAt, Order,
          Touches, Hears, Live, Places, Typed, Outcome, Gone, Children,
          Release, Env, Awaited
<1>1. CASE SetupFds
  BY <1>1 DEF SetupFds
<1>2. CASE SetupEnv
  BY <1>2 DEF SetupEnv, SetupSignals, CannotSetSignals, Fails, MakesChunk,
       ClearsChunk, MakesBuf, SetsMode, RejectsPoints, MakesSync
<1>3. CASE SetupProc
  <2>1. ASSUME NEW r \in Workers, Fork(r)
        PROVE  Outcome'
    BY <2>1 DEF Fork
  <2>2. ASSUME NEW r \in Roles \ {"arbiter"}, Create(r)
        PROVE  Outcome'
    BY <2>2 DEF Create
  <2>3. CASE CannotCreate
    BY <2>3 DEF CannotCreate
  <2> QED BY <1>3, <2>1, <2>2, <2>3 DEF SetupProc
<1>4. CASE TaskSingle
  <2>1. CASE OpensSingle("in", "open_in", "open_out")
    BY <2>1 DEF OpensSingle
  <2>2. CASE OpensSingle("out", "open_out", "transfer")
    BY <2>2 DEF OpensSingle
  <2>3. CASE CannotOpenSingle("in", "open_in")
    BY <2>3 DEF CannotOpenSingle
  <2>4. CASE CannotOpenSingle("out", "open_out")
    BY <2>4 DEF CannotOpenSingle
  <2>5. CASE TransferSingle
    BY <2>5 DEF TransferSingle
  <2>6. CASE ClosesSingle
    BY <2>6 DEF ClosesSingle
  <2> QED BY <1>4, <2>1, <2>2, <2>3, <2>4, <2>5, <2>6 DEF TaskSingle
<1>5. ASSUME NEW r \in Workers, Task(r)
      PROVE  Outcome'
  <2>1. CASE Opens(r)
    BY <2>1 DEF Opens
  <2>2. CASE CannotOpen(r)
    BY <2>2 DEF CannotOpen
  <2>3. CASE TransferEnds(r)
    BY <2>3, TransferKeepsOutcome
  <2>4. CASE Closes(r)
    BY <2>4 DEF Closes
  <2>5. CASE Returns(r)
    BY <2>5 DEF Returns
  <2>6. CASE CleansUpChild(r)
    BY <2>6 DEF CleansUpChild
  <2>7. CASE ChildExits(r)
    BY <2>7 DEF ChildExits
  <2>8. CASE Faults(r)
    BY <2>8 DEF Faults
  <2> QED BY <1>5, <2>1, <2>2, <2>3, <2>4, <2>5, <2>6, <2>7, <2>8 DEF Task
<1>6. CASE Reap
  <2>1. CASE ReapReader
    BY <2>1 DEF ReapReader
  <2>2. CASE ReapWriter
    BY <2>2 DEF ReapWriter
  <2>3. CASE Report
    BY <2>3, ReportKeepsOutcome
  <2>4. CASE Destroys
    BY <2>4 DEF Destroys
  <2>5. CASE LoopsOn
    BY <2>5 DEF LoopsOn
  <2>6. CASE Exits
    BY <2>6 DEF Exits
  <2> QED BY <1>6, <2>1, <2>2, <2>3, <2>4, <2>5, <2>6 DEF Reap
<1>7. CASE Signals
  <2>1. ASSUME NEW p \in Procs, Interrupt(p)
        PROVE  Outcome'
    BY <2>1 DEF Interrupt
  <2>2. ASSUME NEW p \in Procs, Terminate(p)
        PROVE  Outcome'
    BY <2>2, TerminateKeepsOutcome
  <2>3. CASE Sigrelay
    BY <2>3 DEF Sigrelay
  <2> QED BY <1>7, <2>1, <2>2, <2>3 DEF Signals
<1>8. CASE UNCHANGED vars
  BY <1>8 DEF vars
<1> QED BY <1>1, <1>2, <1>3, <1>4, <1>5, <1>6, <1>7, <1>8 DEF Next, Over

-----------------------------------------------------------------------------
(* The invariant holds in every state.                                     *)

\* The program starts with nothing.
LEMMA InitLife ==
  ASSUME Init
  PROVE  LifeInv
<1>1. Places
  BY DEF Init, Places, Locations, Range, Roles, Procs, Workers, SetupPlaces,
         SinglePlaces, SyncPlaces,
    ForkPlaces, CreatePlaces, WaitPlaces, WorkPlaces, BeforeReader,
    BeforeWriter, AfterReader
<1>2. Typed
  <2>1. NoFdpack \in Fdpack BY DEF NoFdpack, Fdpack, Kinds
  <2>2. fds \in [Procs -> [Dirs -> Fdpack]] BY <2>1 DEF Init
  <2> QED BY <2>2, SignalsAssumption DEF Init, Typed
<1>3. Flags BY DEF Init, Flags
<1>4. Env
  <2>1. Depth = 0
    BY DEF Init, Depth, Roles, Procs, SinglePlaces, ForkPlaces, CreatePlaces,
           WaitPlaces
  <2>2. undo = Down(0) /\ Len(undo) = 0 BY DownEmpty DEF Init
  <2>3. mapped["arbiter"] = FALSE BY DEF Init, Procs
  <2> QED BY <2>1, <2>2, <2>3, FirstNone DEF Init, Env
<1>5. Ends BY DEF Init, Ends, Roles, Procs, Workers
<1>6. Children BY DEF Init, Children, Roles, Procs, Workers, WorkPlaces
<1>7. Awaited BY DEF Init, Awaited, Roles, Procs, Workers, WorkPlaces
<1>8. Outcome BY DEF Init, Outcome, Roles, Procs, Workers, WorkPlaces
<1> QED BY <1>1, <1>2, <1>3, <1>4, <1>5, <1>6, <1>7, <1>8 DEF LifeInv

\* The inductive invariant of main().
THEOREM LifeInductive == Spec => []LifeInv
<1>1. LifeInv /\ [Next]_vars => LifeInv'
  BY NextPlaces, NextTyped, NextFlags, NextEnv, NextEnds, NextChildren,
     NextAwaited, NextOutcome
    DEF LifeInv
<1> QED BY InitLife, <1>1, PTL DEF Spec

\* The first k objects are objects ...
LEMMA OrderIsFirst == ASSUME NEW k \in 0 .. 5
                      PROVE  First(k) \subseteq Range(Order)
BY DEF First, Range, Order

\* ... and the first five are all.
LEMMA AllAreFirst == First(5) = Range(Order)
BY DEF First, Range, Order

\* The variables have their types in every state.
THEOREM TypesHold == Spec => []TypeOK
<1>1. LifeInv => TypeOK
  <2> SUFFICES ASSUME LifeInv PROVE TypeOK OBVIOUS
  <2>1. Depth \in 0 .. 5
    BY DEF LifeInv, Places, Env, Depth, Objects, SetupPlaces, SinglePlaces,
           SyncPlaces, ForkPlaces, CreatePlaces, WaitPlaces
  <2>2. made \subseteq Range(Order) BY <2>1, OrderIsFirst DEF LifeInv, Env
  <2>3. undo \in {Down(k) : k \in 0 .. 5} BY DEF LifeInv, Env
  <2>4. pc \in [Roles -> Locations] /\ mode \in {"sp", "mt", "mp"}
    BY DEF LifeInv, Places
  <2> QED BY <2>2, <2>3, <2>4 DEF LifeInv, Typed, Flags, TypeOK
<1> QED BY <1>1, LifeInductive, PTL

\* Whatever fails in setup_env() or setup_proc(), and in whatever mode, the
\* labels and cleanup_arbiter() are about to destroy exactly what exists.
THEOREM UnwindingIsExact == Spec => []UndoesWhatItMade
<1>1. LifeInv => UndoesWhatItMade
  BY RangeDown
    DEF LifeInv, Env, Depth, UndoesWhatItMade, SinglePlaces, ForkPlaces,
        CreatePlaces, WaitPlaces
<1> QED BY <1>1, LifeInductive, PTL

\* As long as setup_proc() succeeds, main() waits for its workers before it
\* takes the shared objects, their mappings or their open ends away.
THEOREM WorkersKeepAll == Spec => []NothingPulledAway
<1>1. LifeInv => NothingPulledAway
  <2> SUFFICES ASSUME LifeInv, ~GaveUp, NEW r \in Workers,
                      pc[r] \in {"open", "transfer", "close"}, Running(Proc(r))
               PROVE  /\ made = Range(Order) /\ mapped[Proc(r)]
                      /\ pc[r] # "open" => fds[Proc(r)][Dir(r)].open
    BY DEF NothingPulledAway
  <2>1. pc["arbiter"] \in {"fork_writer", "create_reader", "create_writer"}
                           \union WaitPlaces
    BY DEF LifeInv, Awaited, WorkPlaces
  <2>2. Depth = 5
    BY <2>1 DEF Depth, SinglePlaces, ForkPlaces, CreatePlaces, WaitPlaces
  <2>3. made = Range(Order) /\ mapped["arbiter"]
    BY <2>2, AllAreFirst, FirstSome DEF LifeInv, Env
  <2>4. mapped[Proc(r)] BY <2>3 DEF LifeInv, Children, Proc, WorkPlaces
  <2> QED BY <2>3, <2>4 DEF LifeInv, Ends
<1> QED BY <1>1, LifeInductive, PTL

\* main() returns zero only after iterations that were all complete.
THEOREM ZeroMeansComplete == Spec => []CleanExit
<1>1. LifeInv => CleanExit
  BY DEF LifeInv, Outcome, CleanExit
<1> QED BY <1>1, LifeInductive, PTL

\* Every path through an iteration leaves main()'s ends as fd_open() wants
\* them in the next one.
THEOREM EndsReopen == Spec => []ReadyToReopen
<1>1. LifeInv => ReadyToReopen
  <2> SUFFICES ASSUME LifeInv, pc["arbiter"] = "setup_env", NEW d \in Dirs,
                      fds["arbiter"][d].type # "fd"
               PROVE  Openable(fds["arbiter"][d])
    BY DEF ReadyToReopen
  <2>1. fds["arbiter"][d] \in Fdpack BY DEF LifeInv, Typed, Procs
  <2>2. pc["reader"] = "off" /\ pc["writer"] = "off"
    BY DEF LifeInv, Places, BeforeReader, BeforeWriter, SetupPlaces
  <2>3. ~Opened(d)
    BY <2>2 DEF LifeInv, Places, Opened
  <2> QED BY <2>1, <2>3 DEF LifeInv, Ends, Openable, Fdpack, Kinds
<1> QED BY <1>1, LifeInductive, PTL

\* A process that has gone through its cleanup holds nothing.
THEOREM NothingRemains == Spec => []LeavesNothing
<1>1. LifeInv => LeavesNothing
  <2> SUFFICES ASSUME LifeInv, NEW p \in Procs, pc[p] = "exited"
               PROVE  /\ \A d \in Dirs : Released(fds[p][d])
                      /\ ~mapped[p]
                      /\ p = "arbiter" => made = {}
    BY DEF LeavesNothing
  <2>1. CASE p = "arbiter"
    <3>1. Depth = 0
      BY <2>1 DEF Depth, SinglePlaces, ForkPlaces, CreatePlaces, WaitPlaces
    <3>2. made = {} /\ ~mapped["arbiter"] BY <3>1, FirstNone DEF LifeInv, Env
    <3> QED BY <2>1, <3>2 DEF LifeInv, Ends
  <2>2. CASE p \in Workers
    <3>1. mode # "sp" BY <2>2 DEF LifeInv, Places, Workers
    <3>2. CASE mode = "mt"
      BY <2>2, <3>2 DEF LifeInv, Children, Released, NoFdpack, Workers
    <3>3. CASE mode = "mp" BY <2>2, <3>3 DEF LifeInv, Children, Workers
    <3> QED BY <3>1, <3>2, <3>3 DEF LifeInv, Places
  <2> QED BY <2>1, <2>2 DEF Procs, Workers
<1> QED BY <1>1, LifeInductive, PTL

-----------------------------------------------------------------------------
(* The program implements Session.                                         *)

\* The places of each phase, before a step ...
LEMMA PhaseIs ==
  /\ Phase \in {"over", "judged", "ready", "moving"}
  /\ Phase = "over" <=> pc["arbiter"] = "exited"
  /\ Phase = "judged" <=> pc["arbiter"] = "undo"
  /\ Phase = "ready" <=> pc["arbiter"] \in {"setup_fds", "setup_env", "chunk", "memset"}
BY DEF Phase

\* ... and after it.
LEMMA PhaseNext ==
  /\ Phase' \in {"over", "judged", "ready", "moving"}
  /\ Phase' = "over" <=> pc'["arbiter"] = "exited"
  /\ Phase' = "judged" <=> pc'["arbiter"] = "undo"
  /\ Phase' = "ready" <=> pc'["arbiter"] \in {"setup_fds", "setup_env", "chunk", "memset"}
BY DEF Phase

\* What makes a step each kind of step of a session: none of them ...
LEMMA StutterStep ==
  ASSUME Phase' = Phase, ret' = ret,
         Phase = "moving" => ((clean' = Workers) <=> (clean = Workers)) /\ (struck' <=> struck)
  PROVE  UNCHANGED Promise!vars
BY DEF Promise!vars

\* The memory is cleared.
LEMMA StartStep ==
  ASSUME Phase = "ready", Phase' = "moving", clean' = {}, ~struck', ret' = ret
  PROVE  Promise!Start
<1>1. {} # Workers BY DEF Workers
<1> QED BY <1>1 DEF Promise!Start

\* The second worker comes to the end of the data.
LEMMA DeliverStep ==
  ASSUME Phase = "moving", Phase' = "moving", clean' = Workers,
         struck' = struck, ret' = ret
  PROVE  Promise!Deliver
BY DEF Promise!Deliver

\* A signal is recorded.
LEMMA InterruptStep ==
  ASSUME Phase = "moving", Phase' = "moving", clean' = clean, struck',
         ret' = ret
  PROVE  Promise!Interrupt
BY DEF Promise!Interrupt
\* main() has its verdict.
LEMMA JudgeStep ==
  ASSUME Phase = "moving", Phase' = "judged",
         ret' \/ (clean = Workers /\ ~struck)
  PROVE  Promise!Judge
BY DEF Promise!Judge
\* setup_env() failed before the memory was cleared.
LEMMA GiveUpStep ==
  ASSUME Phase = "ready", Phase' = "judged", ret'
  PROVE  Promise!GiveUp
BY DEF Promise!GiveUp

\* The builtin loop goes on.
LEMMA RepeatStep ==
  ASSUME Phase = "judged", Phase' = "ready", ~ret, ~ret'
  PROVE  Promise!Repeat
BY DEF Promise!Repeat

\* It ends.
LEMMA ExitStep ==
  ASSUME Phase = "judged", Phase' = "over", ret' = ret
  PROVE  Promise!Exit
BY DEF Promise!Exit
\* setup_fds() failed.
LEMMA NoStartStep ==
  ASSUME Phase = "ready", Phase' = "over", ret'
  PROVE  Promise!Exit
BY DEF Promise!Exit

\* A step of a session, or none.
SessionNext == [Promise!Next]_(Promise!vars)

\* Every step of main(), its tasks and the signals is one of these.
LEMMA SessionStep ==
  ASSUME LifeInv, [Next]_vars
  PROVE  SessionNext
<1>0. /\ pc \in [Roles -> Locations] /\ "arbiter" \in Roles
      /\ Workers \subseteq Roles /\ "arbiter" \notin Workers
      /\ "sigrelay" \in Roles /\ "sigrelay" \notin Workers
  BY DEF LifeInv, Places, Roles, Procs, Workers
<1>1. /\ UNCHANGED Promise!vars => SessionNext
      /\ Promise!Start => SessionNext
      /\ Promise!Deliver => SessionNext
      /\ Promise!Interrupt => SessionNext
      /\ Promise!Judge => SessionNext
      /\ Promise!GiveUp => SessionNext
      /\ Promise!Repeat => SessionNext
      /\ Promise!Exit => SessionNext
  BY DEF SessionNext, Promise!Next
<1>2. CASE SetupFds
  <2>1. pc["arbiter"] = "setup_fds" /\ UNCHANGED <<clean, struck>>
    BY <1>2 DEF SetupFds, Goto, At, hist
  <2>2. CASE pc'["arbiter"] = "setup_env" /\ ret' = ret
    BY <1>1, <2>1, <2>2, PhaseIs, PhaseNext, StutterStep
  <2>3. CASE pc'["arbiter"] = "exited" /\ ret' 
    <3>1. Phase = "ready" /\ Phase' = "over" BY <2>1, <2>3, PhaseIs, PhaseNext
    <3>2. Promise!Exit BY <2>3, <3>1, NoStartStep
    <3> QED BY <1>1, <3>2
  <2> QED BY <1>0, <1>2, <2>2, <2>3 DEF SetupFds, Goto
<1>3. CASE SetupEnv
  <2>1. CASE SetupSignals \/ MakesChunk
    <3>1. /\ pc["arbiter"] \in {"setup_env", "chunk"}
          /\ pc'["arbiter"] \in {"chunk", "memset"}
      BY <1>0, <2>1 DEF SetupSignals, MakesChunk, Goto, At
    <3>2. UNCHANGED <<clean, struck, ret>>
      BY <2>1 DEF SetupSignals, MakesChunk, hist
    <3> QED BY <1>1, <3>1, <3>2, PhaseIs, PhaseNext, StutterStep
  <2>2. CASE CannotSetSignals \/ Fails(1)
    <3>1. /\ pc["arbiter"] \in {"setup_env", "chunk"}
          /\ pc'["arbiter"] = "undo"
          /\ ret'
      BY <1>0, <2>2 DEF CannotSetSignals, Fails, Goto, At, Order
    <3>8. Phase = "ready" /\ Phase' = "judged" BY <3>1, PhaseIs, PhaseNext
    <3>9. Promise!GiveUp BY <3>1, <3>8, GiveUpStep
    <3> QED BY <1>1, <3>9
  <2>3. CASE ClearsChunk
    <3>1. /\ pc["arbiter"] = "memset"
          /\ pc'["arbiter"] = "buf"
          /\ clean' = {}
          /\ ~struck'
          /\ ret' = ret
      BY <1>0, <2>3 DEF ClearsChunk, Goto, At
    <3>8. Phase = "ready" /\ Phase' = "moving" BY <3>1, PhaseIs, PhaseNext
    <3>9. Promise!Start BY <3>1, <3>8, StartStep
    <3> QED BY <1>1, <3>9
  <2>4. CASE MakesBuf \/ SetsMode \/ \E k \in {3, 4, 5} : MakesSync(k)
    <3>1. pc["arbiter"] \in {"buf", "mode", "vars", "nospace", "nodata"}
      BY <2>4 DEF MakesBuf, SetsMode, MakesSync, Goto, At, Order
    <3>2. pc'["arbiter"] \in {"mode", "open_in", "vars", "nospace", "nodata",
                          "fork_reader", "create_sigrelay"}
      BY <1>0, <2>4
        DEF MakesBuf, SetsMode, MakesSync, Goto, At, Order, LifeInv, Places,
            SyncPlaces
    <3>3. UNCHANGED <<clean, struck, ret>>
      BY <2>4 DEF MakesBuf, SetsMode, MakesSync, hist
    <3> QED BY <1>1, <3>1, <3>2, <3>3, PhaseIs, PhaseNext, StutterStep
  <2>5. CASE RejectsPoints \/ \E k \in {2, 3, 4, 5} : Fails(k)
    <3>1. /\ pc["arbiter"] \in {"buf", "mode", "vars", "nospace", "nodata"}
          /\ pc'["arbiter"] = "undo"
          /\ ret'
      BY <1>0, <2>5 DEF RejectsPoints, Fails, Goto, At, Order
    <3>8. Phase = "moving" /\ Phase' = "judged" BY <3>1, PhaseIs, PhaseNext
    <3>9. Promise!Judge BY <3>1, <3>8, JudgeStep
    <3> QED BY <1>1, <3>9
  <2> QED BY <1>3, <2>1, <2>2, <2>3, <2>4, <2>5 DEF SetupEnv
<1>4. CASE SetupProc
  <2>1. CASE CannotCreate
    <3>1. /\ pc["arbiter"] \in ForkPlaces \union CreatePlaces
          /\ pc'["arbiter"] = "undo"
          /\ ret'
      BY <1>0, <2>1
        DEF CannotCreate, Goto, At, ForkAt, CreateAt, ForkPlaces, CreatePlaces,
            Roles, Procs
    <3>8. Phase = "moving" /\ Phase' = "judged"
      BY <3>1, PhaseIs, PhaseNext DEF ForkPlaces, CreatePlaces
    <3>9. Promise!Judge BY <3>1, <3>8, JudgeStep
    <3> QED BY <1>1, <3>9
  <2>2. CASE (\E r \in Workers : Fork(r)) \/ \E r \in Roles \ {"arbiter"} : Create(r)
    <3>1. /\ pc["arbiter"] \in ForkPlaces \union CreatePlaces
          /\ pc'["arbiter"] \in {"fork_writer", "wait_reader", "create_reader", "create_writer"}
      BY <1>0, <2>2
        DEF Fork, Create, At, ForkAt, CreateAt, ForkPlaces, CreatePlaces,
            Roles, Procs, Workers
    <3>2. UNCHANGED <<clean, struck, ret>> BY <2>2 DEF Fork, Create, hist
    <3> QED
      BY <1>1, <3>1, <3>2, PhaseIs, PhaseNext, StutterStep
        DEF ForkPlaces, CreatePlaces
  <2> QED BY <1>4, <2>1, <2>2 DEF SetupProc
<1>5. CASE TaskSingle
  <2>1. /\ pc["arbiter"] \in SinglePlaces
        /\ pc'["arbiter"] \in SinglePlaces \union {"report"}
        /\ UNCHANGED <<ret, struck>>
    BY <1>0, <1>5
      DEF TaskSingle, OpensSingle, CannotOpenSingle, TransferSingle,
          ClosesSingle, Goto, At, SinglePlaces, hist
  <2>2. clean' = clean \/ clean' = Workers
    BY <1>5
      DEF TaskSingle, OpensSingle, CannotOpenSingle, TransferSingle,
          ClosesSingle, hist
  <2>3. Phase = "moving" /\ Phase' = "moving"
    BY <2>1, PhaseIs, PhaseNext DEF SinglePlaces
  <2>4. CASE clean' = clean BY <1>1, <2>1, <2>3, <2>4, StutterStep
  <2>5. CASE clean' = Workers BY <1>1, <2>1, <2>3, <2>5, DeliverStep
  <2> QED BY <2>2, <2>4, <2>5
<1>6. ASSUME NEW r \in Workers, Task(r) PROVE SessionNext
  <2>1. pc'["arbiter"] = pc["arbiter"] /\ UNCHANGED <<ret, struck>>
    BY <1>0, <1>6
      DEF Task, Opens, CannotOpen, TransferEnds, Closes, Returns,
          CleansUpChild, ChildExits, Faults, Goto, hist
  <2>2. clean \subseteq clean' /\ clean' \subseteq clean \union Workers
    BY <1>6
      DEF Task, Opens, CannotOpen, TransferEnds, Closes, Returns,
          CleansUpChild, ChildExits, Faults, hist
  <2>3. clean \subseteq Workers BY DEF LifeInv, Typed
  <2>4. Phase' = Phase BY <2>1 DEF Phase
  <2>5. CASE clean' = Workers /\ Phase = "moving"
    BY <1>1, <2>1, <2>4, <2>5, DeliverStep
  <2>6. CASE ~(clean' = Workers /\ Phase = "moving") 
    <3>1. Phase = "moving" => clean # Workers /\ clean' # Workers
      BY <2>2, <2>3, <2>6
    <3> QED BY <1>1, <2>1, <2>4, <3>1, StutterStep
  <2> QED BY <2>5, <2>6
<1>7. CASE Reap
  <2>1. CASE ReapReader \/ ReapWriter \/ Destroys
    <3>1. /\ \/ pc["arbiter"] = "undo" /\ pc'["arbiter"] = "undo"
             \/ pc["arbiter"] \in WaitPlaces /\ pc'["arbiter"] \in {"wait_writer", "report"}
          /\ UNCHANGED <<ret, clean, struck>>
      BY <1>0, <2>1
        DEF ReapReader, ReapWriter, Destroys, Goto, At, WaitPlaces, hist
    <3> QED BY <1>1, <3>1, PhaseIs, PhaseNext, StutterStep DEF WaitPlaces
  <2>2. CASE Report
    <3>1. pc["arbiter"] = "report" /\ pc'["arbiter"] = "undo" /\ (ret' <=> errlog # {})
      BY <1>0, <2>2 DEF Report, Goto, At
    <3>2. errlog = {} => ~struck BY DEF LifeInv, Outcome
    <3>3. errlog = {} => clean = Workers
      <4> SUFFICES ASSUME errlog = {} PROVE clean = Workers OBVIOUS
      <4>1. CASE mode = "sp" BY <3>1, <4>1 DEF LifeInv, Outcome
      <4>2. CASE mode # "sp"
        <5>1. \A w \in Workers : Gone(w) BY <3>1, <4>2 DEF LifeInv, Outcome
        <5>2. \A w \in Workers : pc[w] # "off"
          BY <3>1, <4>2 DEF LifeInv, Places, Workers
        <5>3. \A w \in Workers : w \in clean
          BY <5>1, <5>2 DEF Gone, LifeInv, Outcome
        <5> QED BY <5>3 DEF LifeInv, Typed
      <4> QED BY <4>1, <4>2
    <3>8. Phase = "moving" /\ Phase' = "judged" BY <3>1, PhaseIs, PhaseNext
    <3>9. Promise!Judge BY <3>1, <3>2, <3>3, <3>8, JudgeStep
    <3> QED BY <1>1, <3>9
  <2>3. CASE LoopsOn
    <3>1. /\ pc["arbiter"] = "undo"
          /\ pc'["arbiter"] = "setup_env"
          /\ ~ret
          /\ ret' = ret
      BY <1>0, <2>3 DEF LoopsOn, At
    <3>8. Phase = "judged" /\ Phase' = "ready" BY <3>1, PhaseIs, PhaseNext
    <3>9. Promise!Repeat BY <3>1, <3>8, RepeatStep
    <3> QED BY <1>1, <3>9
  <2>4. CASE Exits
    <3>1. pc["arbiter"] = "undo" /\ pc'["arbiter"] = "exited" /\ ret' = ret
      BY <1>0, <2>4 DEF Exits, Goto, At
    <3>8. Phase = "judged" /\ Phase' = "over" BY <3>1, PhaseIs, PhaseNext
    <3>9. Promise!Exit BY <3>1, <3>8, ExitStep
    <3> QED BY <1>1, <3>9
  <2> QED BY <1>7, <2>1, <2>2, <2>3, <2>4 DEF Reap
<1>8. CASE Signals
  <2>1. pc' = pc /\ ret' = ret /\ clean' = clean
    BY <1>8 DEF Signals, Interrupt, Terminate, Sigrelay, Hears, hist
  <2>2. struck' \/ struck' = struck
    <3>1. struck \in BOOLEAN BY DEF LifeInv, Flags
    <3>2. ASSUME NEW p, Hears(p) PROVE struck' \/ struck' = struck
      <4>1. struck' = (struck \/ mapped[p]) BY <3>2 DEF Hears
      <4> QED BY <3>1, <4>1, Zenon
    <3>3. (\E p : Hears(p)) \/ struck' = struck
      BY <1>8 DEF Signals, Interrupt, Terminate, Sigrelay, hist
    <3> QED BY <3>2, <3>3
  <2>3. Phase' = Phase BY <2>1 DEF Phase
  <2>4. CASE struck' = struck \/ Phase # "moving"
    BY <1>1, <2>1, <2>3, <2>4, StutterStep
  <2>5. CASE struck' /\ Phase = "moving"
    <3>1. Promise!Interrupt BY <2>1, <2>3, <2>5, InterruptStep
    <3> QED BY <1>1, <3>1
  <2> QED BY <2>2, <2>4, <2>5
<1>9. CASE UNCHANGED vars
  <2>1. Phase' = Phase BY <1>9 DEF Phase, vars
  <2> QED BY <1>1, <1>9, <2>1, StutterStep DEF vars, hist
<1> QED BY <1>2, <1>3, <1>4, <1>5, <1>6, <1>7, <1>8, <1>9 DEF Next, Over

\* The first state.
LEMMA SessionInit == ASSUME Init PROVE Promise!Init
<1>1. Phase = "ready" BY PhaseIs DEF Init, Roles, Procs
<1> QED BY <1>1 DEF Init, Promise!Init

\* The program implements a session: clean verdicts stand for complete and
\* uninterrupted transfers, only they are followed by another transfer, and the
\* last one is the exit status.
THEOREM LifeIsSession == Spec => ImplementsSession
<1>1. LifeInv /\ [Next]_vars => [Promise!Next]_(Promise!vars)
  BY SessionStep DEF SessionNext
<1>2. Init => Promise!Init BY SessionInit
<1> QED
  BY <1>1, <1>2, LifeInductive, PTL DEF Spec, ImplementsSession, Promise!Spec
=============================================================================
