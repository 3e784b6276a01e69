------------------------------- MODULE Yancat -------------------------------
(***************************************************************************)
(* The life of the whole program, main() of yancat.c: setup_fds(), then    *)
(* per iteration setup_env() with its unwinding, setup_proc() (processes,  *)
(* threads or neither), the tasks, reaper() and cleanup_env(), the builtin *)
(* loop, and the termination signals that may arrive at any point of it.   *)
(*                                                                         *)
(* What happens inside a transfer is the subject of Transfer and           *)
(* Transfer1cpu; here a task that transfers ends cleanly, with an error,   *)
(* or because it was told to.                                              *)
(***************************************************************************)
EXTENDS Fdpack, Naturals, Sequences, Functions

CONSTANT MaxSignals  \* bound: termination signals sent to the program

ASSUME SignalsAssumption == MaxSignals \in Nat

Procs   == {"arbiter", "reader", "writer"}   \* address spaces
Workers == {"reader", "writer"}
Roles   == Procs \union {"sigrelay"}
Dirs    == {"in", "out"}

VARIABLES
  mode, loop,       \* g_opts.mode, which setup_env() may lower; g_opts.loop
  shareable,        \* the build's memory can be shared by processes
  fds,              \* g_fdi and g_fdo in each address space
  made,             \* the objects of the shared environment that exist
  undo,             \* those still to be destroyed by the code being run
  mapped,           \* address spaces in which g_shm points to its memory
  errlog, abrt,     \* shr_s: events so far, and the order to stop
  pc, ret,          \* where each task is; main()'s ret is negative
  handlers,         \* sh_terminate() is installed
  masked,           \* mt: only task_sigrelay() receives signals
  pending, sent,    \* signals not delivered yet, and their number so far
  crashed,          \* address spaces that died of a bad access
  clean, complete,  \* history: workers of this iteration that came to the
                    \* end of the data; whether in all iterations both did
  heard,            \* history: sh_terminate() has recorded a signal
  struck            \* history: it has since the memory was cleared

opts == <<mode, loop, shareable>>
env  == <<made, undo, mapped>>
logs == <<errlog, abrt>>
sigs == <<handlers, masked, pending, sent, crashed, heard>>
hist == <<clean, complete, struck>>
vars == <<opts, fds, env, logs, pc, ret, sigs, hist>>

\* The objects in the order setup_env() makes them.
Order == <<"chunk", "buf", "vars", "nospace", "nodata">>

\* The last k of the unwinding, or of cleanup_arbiter().
Down(k) == [i \in 1 .. k |-> Order[k + 1 - i]]

Objects == IF mode = "sp" THEN 2 ELSE 5

\* The address space a role runs in.
Proc(r) == IF mode = "mp" /\ r \in Workers THEN r ELSE "arbiter"

Dir(r) == IF r = "reader" THEN "in" ELSE "out"

Running(p) == p \notin crashed /\ pc[p] # "exited"

\* Role r takes a step at "at".
At(r, at) == pc[r] = at /\ Running(Proc(r))
Goto(r, from, to) == At(r, from) /\ pc' = [pc EXCEPT ![r] = to]

Init ==
  /\ mode \in {"sp", "mt", "mp"} /\ loop \in BOOLEAN /\ shareable \in BOOLEAN
  /\ fds = [p \in Procs |-> [d \in Dirs |-> NoFdpack]]
  /\ made = {} /\ undo = << >> /\ mapped = [p \in Procs |-> FALSE]
  /\ errlog = {} /\ abrt = FALSE
  /\ pc = [r \in Roles |-> IF r = "arbiter" THEN "setup_fds" ELSE "off"]
  /\ ret = FALSE
  /\ handlers = FALSE /\ masked = FALSE /\ pending = {} /\ sent = 0
  /\ crashed = {} /\ clean = {} /\ complete = TRUE /\ heard = FALSE
  /\ struck = FALSE

-----------------------------------------------------------------------------
(* setup_fds(): the input, then the output; each is a descriptor, a file   *)
(* or a socket, or the standard descriptor when none of these works.       *)

SetupFds ==
  /\ At("arbiter", "setup_fds")
  /\ \/ \E i, o \in Kinds \ {"none"} :
          /\ fds' = [fds EXCEPT !["arbiter"] =
                       [d \in Dirs |-> FdCtor(IF d = "in" THEN i ELSE o)]]
          /\ Goto("arbiter", "setup_fds", "setup_env")
          /\ UNCHANGED ret
     \/ /\ Goto("arbiter", "setup_fds", "exited")     \* nothing usable: the
        /\ ret' = TRUE                                \* input is let go again
        /\ UNCHANGED fds
  /\ UNCHANGED <<opts, env, logs, sigs, hist>>

-----------------------------------------------------------------------------
(* setup_env(): the handlers, then five objects.  A failure leaves by the  *)
(* label that destroys what is there already.                              *)

SetupSignals ==
  /\ Goto("arbiter", "setup_env", "chunk")
  /\ handlers' = TRUE /\ masked' = FALSE
  /\ UNCHANGED <<opts, fds, env, logs, ret, pending, sent, crashed, hist, heard>>

CannotSetSignals ==
  /\ Goto("arbiter", "setup_env", "undo")
  /\ undo' = << >> /\ ret' = TRUE
  /\ UNCHANGED <<opts, fds, made, mapped, logs, sigs, hist>>

FailsOneLabelLate(k) ==
  /\ Goto("arbiter", Order[k], "undo")
  /\ undo' = Down(IF k > 2 THEN k - 2 ELSE 0)
  /\ ret' = TRUE
  /\ UNCHANGED <<opts, fds, made, mapped, logs, sigs, hist>>

Fails(k) ==
  /\ Goto("arbiter", Order[k], "undo")
  /\ undo' = Down(k - 1)
  /\ ret' = TRUE
  /\ UNCHANGED <<opts, fds, made, mapped, logs, sigs, hist>>

MakesChunk ==
  /\ Goto("arbiter", "chunk", "memset")
  /\ made' = made \union {"chunk"}
  /\ mapped' = [mapped EXCEPT !["arbiter"] = TRUE]
  /\ UNCHANGED <<opts, fds, undo, logs, ret, sigs, hist>>

ClearsChunk ==
  /\ Goto("arbiter", "memset", "buf")
  /\ errlog' = {} /\ abrt' = FALSE
  /\ clean' = {} /\ struck' = FALSE
  /\ UNCHANGED <<opts, fds, env, ret, sigs, complete>>

\* buf_setextra() and the choice of the mode: mp needs shareable memory.
MakesBuf ==
  /\ Goto("arbiter", "buf", "mode")
  /\ made' = made \union {"buf"}
  /\ UNCHANGED <<opts, fds, undo, mapped, logs, ret, sigs, hist>>

SetsMode ==
  /\ mode' = IF mode = "mp" /\ ~shareable THEN "sp" ELSE mode
  /\ Goto("arbiter", "mode", IF mode' = "sp" THEN "open_in" ELSE "vars")
  /\ UNCHANGED <<loop, shareable, fds, env, logs, ret, sigs, hist>>

RejectsPoints ==
  /\ Goto("arbiter", "mode", "undo")
  /\ undo' = Down(2) /\ ret' = TRUE
  /\ UNCHANGED <<opts, fds, made, mapped, logs, sigs, hist>>

MakesSync(k) ==
  /\ Goto("arbiter", Order[k],
          CASE k < 5 -> Order[k + 1]
            [] k = 5 /\ mode = "mp" -> "fork_reader"
            [] k = 5 /\ mode = "mt" -> "create_sigrelay")
  /\ made' = made \union {Order[k]}
  /\ UNCHANGED <<opts, fds, undo, mapped, logs, ret, sigs, hist>>

SetupEnv ==
  \/ SetupSignals \/ CannotSetSignals
  \/ \E k \in {1, 2, 3, 4, 5} : Fails(k)
  \/ MakesChunk \/ ClearsChunk \/ MakesBuf \/ SetsMode \/ RejectsPoints
  \/ \E k \in {3, 4, 5} : MakesSync(k)

-----------------------------------------------------------------------------
(* release(): record, then order everybody to stop.                        *)

ReleaseUnlogged(type, role) == abrt' = TRUE /\ UNCHANGED errlog

Release(type, role) ==
  /\ errlog' = errlog \union {<<type, role>>}
  /\ abrt' = TRUE

(* setup_proc(): workers are created in a fixed order; the first that      *)
(* cannot be created makes the program give up.                            *)

ForkAt(r) == IF r = "reader" THEN "fork_reader" ELSE "fork_writer"

CreateAt(r) == CASE r = "sigrelay" -> "create_sigrelay"
                 [] r = "reader"   -> "create_reader"
                 [] r = "writer"   -> "create_writer"

\* mp: a child is a copy of the arbiter.
Fork(r) ==
  /\ At("arbiter", ForkAt(r))
  /\ pc' = [pc EXCEPT !["arbiter"] = IF r = "reader" THEN "fork_writer" ELSE "wait_reader",
                      ![r] = "open"]
  /\ fds' = [fds EXCEPT ![r] = fds["arbiter"]]
  /\ mapped' = [mapped EXCEPT ![r] = TRUE]
  /\ pending' = pending \ {r} /\ crashed' = crashed \ {r}
  /\ UNCHANGED <<opts, made, undo, logs, ret, handlers, masked, sent, heard,
                 hist>>

\* mt: all signals are blocked first, for the threads inherit the mask.
Create(r) ==
  /\ At("arbiter", CreateAt(r))
  /\ pc' = [pc EXCEPT !["arbiter"] = CASE r = "sigrelay" -> "create_reader"
                                       [] r = "reader"   -> "create_writer"
                                       [] r = "writer"   -> "wait_reader",
                      ![r] = IF r = "sigrelay" THEN "sigwait" ELSE "open"]
  /\ masked' = TRUE
  /\ UNCHANGED <<opts, fds, env, logs, ret, handlers, pending, sent, crashed,
                 heard, hist>>

CannotCreate ==
  /\ \/ \E r \in Workers : Goto("arbiter", ForkAt(r), "undo")
     \/ \E r \in Roles \ {"arbiter"} : Goto("arbiter", CreateAt(r), "undo")
  /\ Release("ini", "arbiter")
  /\ masked' = (masked \/ mode = "mt")
  /\ undo' = Down(Objects) /\ ret' = TRUE
  /\ UNCHANGED <<opts, fds, made, mapped, handlers, pending, sent, crashed,
                 heard, hist>>

SetupProc ==
  \/ \E r \in Workers : Fork(r)
  \/ \E r \in Roles \ {"arbiter"} : Create(r)
  \/ CannotCreate

-----------------------------------------------------------------------------
(* The tasks.  task_reader() and task_writer(); in mp the child then drops *)
(* its mappings, destroys its copies of both ends and exits.               *)

SetFd(p, d, f) == fds' = [fds EXCEPT ![p][d] = f]

Opens(r) ==
  /\ Goto(r, "open", "transfer")
  /\ Openable(fds[Proc(r)][Dir(r)])
  /\ SetFd(Proc(r), Dir(r), FdOpen(fds[Proc(r)][Dir(r)]))
  /\ UNCHANGED <<opts, env, logs, ret, sigs, hist>>

\* The type's own refusal, or the system's.
CannotOpen(r) ==
  /\ Goto(r, "open", "leave")
  /\ fds[Proc(r)][Dir(r)].type = "fd" => ~Openable(fds[Proc(r)][Dir(r)])
  /\ mapped[Proc(r)]
  /\ Release("ini", r)
  /\ UNCHANGED <<opts, fds, env, ret, sigs, hist>>

\* The writer has written everything only after the reader has read it.
TransferEnds(r) ==
  /\ Goto(r, "transfer", "close")
  /\ mapped[Proc(r)]
  /\ \/ /\ r = "writer" => "reader" \in clean
        /\ clean' = clean \union {r}
        /\ UNCHANGED logs
     \/ Release("err", r) /\ UNCHANGED clean
     \/ abrt /\ UNCHANGED <<logs, clean>>
  /\ UNCHANGED <<opts, fds, env, ret, sigs, complete, struck>>

Closes(r) ==
  /\ Goto(r, "close", "leave")
  /\ SetFd(Proc(r), Dir(r), FdClose(fds[Proc(r)][Dir(r)]))
  /\ UNCHANGED <<opts, env, logs, ret, sigs, hist>>

Returns(r) ==
  /\ mode = "mt"
  /\ Goto(r, "leave", "exited")
  /\ UNCHANGED <<opts, fds, env, logs, ret, sigs, hist>>

\* mp: cleanup_child(), and then cleanup_fds() on the child's copies.
CleansUpChild(r) ==
  /\ mode = "mp"
  /\ Goto(r, "leave", "cleanup_fds")
  /\ mapped' = [mapped EXCEPT ![r] = FALSE]
  /\ UNCHANGED <<opts, fds, made, undo, logs, ret, sigs, hist>>

CleanupFds(p) == [fds EXCEPT ![p] = [d \in Dirs |-> FdDtor(@[d])]]

ChildExits(r) ==
  /\ Goto(r, "cleanup_fds", "exited")
  /\ fds' = CleanupFds(r)
  /\ UNCHANGED <<opts, env, logs, ret, sigs, hist>>

\* After a failed setup_proc() a task may touch memory that is gone.
Faults(r) ==
  /\ pc[r] \in {"open", "transfer", "close"} /\ Running(Proc(r))
  /\ ~mapped[Proc(r)]
  /\ crashed' = crashed \union {Proc(r)}
  /\ UNCHANGED <<opts, fds, env, logs, pc, ret, handlers, masked, pending, sent,
                 heard, hist>>

Task(r) ==
  \/ Opens(r) \/ CannotOpen(r) \/ TransferEnds(r) \/ Closes(r) \/ Returns(r)
  \/ CleansUpChild(r) \/ ChildExits(r) \/ Faults(r)

(* task_single(): both ends in turn, by the arbiter itself.                *)

OpensSingle(d, at, next) ==
  /\ Goto("arbiter", at, next)
  /\ Openable(fds["arbiter"][d])
  /\ SetFd("arbiter", d, FdOpen(fds["arbiter"][d]))
  /\ UNCHANGED <<opts, env, logs, ret, sigs, hist>>

CannotOpenSingle(d, at) ==
  /\ Goto("arbiter", at, "report")
  /\ fds["arbiter"][d].type = "fd" => ~Openable(fds["arbiter"][d])
  /\ Release("ini", "arbiter")
  /\ fds' = IF d = "out"                          \* out2: closes the input
            THEN [fds EXCEPT !["arbiter"]["in"] = FdClose(@)] ELSE fds
  /\ UNCHANGED <<opts, env, ret, sigs, hist>>

TransferSingle ==
  /\ Goto("arbiter", "transfer", "close_both")
  /\ \/ clean' = Workers /\ UNCHANGED errlog
     \/ errlog' = errlog \union {<<"err", "arbiter">>} /\ UNCHANGED clean
     \/ abrt /\ UNCHANGED <<errlog, clean>>
  /\ UNCHANGED <<opts, fds, env, abrt, ret, sigs, complete, struck>>

CloseSingleOutOnly == fds' = [fds EXCEPT !["arbiter"]["out"] = FdClose(@)]
CloseSingle ==
  fds' = [fds EXCEPT !["arbiter"] = [d \in Dirs |-> FdClose(@[d])]]

ClosesSingle ==
  /\ Goto("arbiter", "close_both", "report")
  /\ CloseSingle
  /\ UNCHANGED <<opts, env, logs, ret, sigs, hist>>

TaskSingle ==
  \/ OpensSingle("in", "open_in", "open_out") \/ CannotOpenSingle("in", "open_in")
  \/ OpensSingle("out", "open_out", "transfer") \/ CannotOpenSingle("out", "open_out")
  \/ TransferSingle \/ ClosesSingle

-----------------------------------------------------------------------------
(* reaper(): wait for both workers, then cancel the relay, then report.    *)

Gone(r) == pc[r] = "exited" \/ (mode = "mp" /\ r \in crashed)

ReapReaderOnly ==
  /\ Goto("arbiter", "wait_reader", "report")
  /\ Gone("reader")
  /\ UNCHANGED <<opts, fds, env, logs, ret, sigs, hist>>

ReapReader ==
  /\ Goto("arbiter", "wait_reader", "wait_writer")
  /\ Gone("reader")
  /\ UNCHANGED <<opts, fds, env, logs, ret, sigs, hist>>

ReapWriter ==
  /\ At("arbiter", "wait_writer")
  /\ Gone("writer")
  /\ pc' = [pc EXCEPT !["arbiter"] = "report",
                      !["sigrelay"] = IF mode = "mt" THEN "exited" ELSE @]
  /\ UNCHANGED <<opts, fds, env, logs, ret, sigs, hist>>

Report ==
  /\ Goto("arbiter", "report", "undo")
  /\ ret' = (errlog # {})
  /\ complete' = (complete /\ clean = Workers)
  /\ undo' = Down(Objects)
  /\ UNCHANGED <<opts, fds, made, mapped, logs, sigs, clean, struck>>

(* cleanup_arbiter() and the labels of setup_env(): one destructor a step. *)

Destroys ==
  /\ At("arbiter", "undo") /\ undo # << >>
  /\ made' = made \ {Head(undo)}
  /\ mapped' = [mapped EXCEPT !["arbiter"] = @ /\ Head(undo) # "chunk"]
  /\ undo' = Tail(undo)
  /\ UNCHANGED <<opts, fds, logs, pc, ret, sigs, hist>>

\* The loop's condition.
LoopsOn ==
  /\ undo = << >> /\ loop /\ ~ret
  /\ At("arbiter", "undo")
  /\ pc' = [r \in Roles |-> IF r = "arbiter" THEN "setup_env" ELSE "off"]
  /\ UNCHANGED <<opts, fds, env, logs, ret, sigs, hist>>

Exits ==
  /\ undo = << >> /\ ~(loop /\ ~ret)
  /\ Goto("arbiter", "undo", "exited")
  /\ fds' = CleanupFds("arbiter")
  /\ UNCHANGED <<opts, env, logs, ret, sigs, hist>>

Reap == ReapReader \/ ReapWriter \/ Report \/ Destroys \/ LoopsOn \/ Exits

-----------------------------------------------------------------------------
(* Termination signals.                                                    *)

Live(p) == Running(p) /\ pc[p] # "off" /\ (p \in Workers => mode = "mp")

Interrupt(p) ==
  /\ handlers /\ Live(p)
  /\ sent < MaxSignals /\ sent' = sent + 1
  /\ pending' = pending \union {p}
  /\ UNCHANGED <<opts, fds, env, logs, pc, ret, handlers, masked, crashed, heard,
                 hist>>

\* An access through g_shm, which sh_terminate() and release() make blindly.
Touches(p, Effect) ==
  IF mapped[p] THEN Effect /\ UNCHANGED crashed
               ELSE crashed' = crashed \union {p} /\ UNCHANGED logs

\* History: the signal was recorded where it could be.
Hears(p) ==
  /\ heard' = (heard \/ mapped[p]) /\ struck' = (struck \/ mapped[p])
  /\ UNCHANGED <<clean, complete>>

\* sh_terminate(), in the process the signal was sent to (first without an
\* entry in errlog).
TerminateUnlogged(p) ==
  /\ p \in pending /\ Live(p)
  /\ ~(p = "arbiter" /\ masked)
  /\ Touches(p, ReleaseUnlogged("sig", p))
  /\ Hears(p)
  /\ pending' = pending \ {p}
  /\ UNCHANGED <<opts, fds, env, pc, ret, handlers, masked, sent>>

Terminate(p) ==
  /\ p \in pending /\ Live(p)
  /\ ~(p = "arbiter" /\ masked)
  /\ Touches(p, Release("sig", p))
  /\ Hears(p)
  /\ pending' = pending \ {p}
  /\ UNCHANGED <<opts, fds, env, pc, ret, handlers, masked, sent>>

\* task_sigrelay(): the thread's role is the initial one, as errlog has no
\* place for a fifth (first with a role of its own).
SigrelayOwnRole ==
  /\ At("sigrelay", "sigwait") /\ "arbiter" \in pending
  /\ Touches("arbiter", Release("sig", "sigrelay"))
  /\ Hears("arbiter")
  /\ pending' = pending \ {"arbiter"}
  /\ UNCHANGED <<opts, fds, env, pc, ret, handlers, masked, sent>>

Sigrelay ==
  /\ At("sigrelay", "sigwait") /\ "arbiter" \in pending
  /\ Touches("arbiter", Release("sig", "arbiter"))
  /\ Hears("arbiter")
  /\ pending' = pending \ {"arbiter"}
  /\ UNCHANGED <<opts, fds, env, pc, ret, handlers, masked, sent>>

Signals == (\E p \in Procs : Interrupt(p) \/ Terminate(p)) \/ Sigrelay

\* The program is over, once all its processes are.
Over ==
  /\ \A p \in Procs : ~Live(p)
  /\ UNCHANGED vars

Next ==
  \/ SetupFds \/ SetupEnv \/ SetupProc \/ TaskSingle
  \/ \E r \in Workers : Task(r)
  \/ Reap \/ Signals \/ Over

Spec == Init /\ [][Next]_vars

-----------------------------------------------------------------------------
(* Properties.                                                             *)

Locations ==
  {"setup_fds", "setup_env", "memset", "mode", "open_in", "open_out", "undo",
   "wait_reader", "wait_writer", "report", "off", "open", "transfer", "close",
   "close_both", "leave", "cleanup_fds", "exited", "sigwait", "fork_reader",
   "fork_writer", "create_sigrelay", "create_reader", "create_writer"}
  \union Range(Order)

\* Types; and the descriptors of a process that never ran are untouched.
TypeOK ==
  /\ mode \in {"sp", "mt", "mp"} /\ loop \in BOOLEAN /\ shareable \in BOOLEAN
  /\ fds \in [Procs -> [Dirs -> Fdpack]]
  /\ made \subseteq Range(Order) /\ undo \in {Down(k) : k \in 0 .. 5}
  /\ mapped \in [Procs -> BOOLEAN]
  /\ errlog \subseteq {"sig", "ini", "err"} \X Procs /\ abrt \in BOOLEAN
  /\ pc \in [Roles -> Locations] /\ ret \in BOOLEAN
  /\ handlers \in BOOLEAN /\ masked \in BOOLEAN
  /\ pending \subseteq Procs /\ sent \in 0 .. MaxSignals
  /\ crashed \subseteq Procs
  /\ clean \subseteq Workers /\ complete \in BOOLEAN
  /\ heard \in BOOLEAN /\ struck \in BOOLEAN

\* Whatever step of setup_env() fails, and whatever mode it settled on, the
\* destructors about to run are exactly those of the objects that exist: the
\* out labels and cleanup_arbiter() leak nothing and destroy nothing twice.
UndoesWhatItMade ==
  pc["arbiter"] = "undo" => Range(undo) = made

\* setup_proc() could not create a task it wanted.
GaveUp == mode # "sp" /\ <<"ini", "arbiter">> \in errlog

\* As long as setup_proc() succeeds, nothing is pulled away from a worker:
\* every shared object outlives the workers, and what a worker transfers
\* through stays open, although threads share both ends with main().
NothingPulledAway ==
  ~GaveUp =>
    \A r \in Workers : pc[r] \in {"open", "transfer", "close"} /\ Running(Proc(r)) =>
      /\ made = Range(Order) /\ mapped[Proc(r)]
      /\ pc[r] # "open" => fds[Proc(r)][Dir(r)].open

\* A zero exit status means that in every iteration of the loop both sides
\* came to the end of the data, wherever signals and failures struck.
CleanExit == pc["arbiter"] = "exited" /\ ~ret => complete

\* main() starts an iteration only with both ends able to be opened anew: no
\* path through the tasks leaves a file or a socket open in the arbiter.
ReadyToReopen ==
  pc["arbiter"] = "setup_env" =>
    \A d \in Dirs : LET f == fds["arbiter"][d] IN f.type # "fd" => Openable(f)

\* Once a process has gone through its cleanup it holds no descriptor, no
\* path and no part of the environment.
LeavesNothing ==
  \A p \in Procs : pc[p] = "exited" =>
    /\ \A d \in Dirs : Released(fds[p][d])
    /\ ~mapped[p]
    /\ p = "arbiter" => made = {}

\* The program seen as a sequence of transfers: whatever fails and whenever
\* signals come, an iteration is judged clean only if both sides came to the
\* end of the data and no process recorded an interruption between the
\* clearing of errlog and its reading; only then is there another one, and
\* the last verdict is the exit status.
Phase ==
  CASE pc["arbiter"] = "exited" -> "over"
    [] pc["arbiter"] = "undo"   -> "judged"
    [] pc["arbiter"] \in {"setup_fds", "setup_env", "chunk", "memset"} -> "ready"
    [] OTHER                    -> "moving"

Promise == INSTANCE Session WITH
  phase       <- Phase,
  delivered   <- Phase = "moving" /\ clean = Workers,
  interrupted <- Phase = "moving" /\ struck,
  verdict     <- IF ret THEN "bad" ELSE "clean"

ImplementsSession == Promise!Spec

\* What yancat.c:262 says of setup_env(): the handlers are blocked at first.
\* sh_terminate() writes through g_shm, so a signal that is about to be
\* handled must find it mapped.
HandlerFindsState ==
  "arbiter" \in pending /\ Live("arbiter") /\ ~masked => mapped["arbiter"]

\* README:45: looping ends with an interruption.  An interruption that
\* sh_terminate() has recorded must not be followed by another iteration.
InterruptionStopsLoop == heard => pc["arbiter"] # "setup_env"
=============================================================================
