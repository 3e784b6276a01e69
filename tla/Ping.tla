-------------------------------- MODULE Ping --------------------------------
(***************************************************************************)
(* How the tasks of modes mp and mt are torn out of blocking calls: the    *)
(* recorded pids or thread ids, release() with notify_tasks(), the         *)
(* handler, task_sigrelay(), and the calls themselves, open(), connect(),  *)
(* accept(), read() and write(), which a signal interrupts only while the  *)
(* task is inside.  A signal that comes between the test of done and the   *)
(* call is lost; the comment at yancat.c:113-123 accepts that.             *)
(*                                                                         *)
(* What is transferred is left out (Transfer): a call returns whenever the *)
(* peer pleases, and a worker goes on, sleeps or is woken as it likes      *)
(* within the rules Transfer establishes.                                  *)
(***************************************************************************)
EXTENDS Naturals, Sequences, FiniteSets

CONSTANTS
  Ends,      \* what reader and writer may have to open
  MaxLeft    \* bound: write() calls the epilogue has left

Workers == {"reader", "writer"}
Tasks   == Workers \union {"arbiter", "relay"}
Kinds   == {"fd", "file", "tcp", "udp"}

ASSUME EndsAssumption == Ends \subseteq [Workers -> Kinds]
ASSUME LeftAssumption == MaxLeft \in Nat

VARIABLES
  mode, kind,       \* g_opts.mode; what each worker opens
  pc,
  nfd,              \* descriptors each worker holds for its end
  made, recorded,   \* tasks started; those in pids[] or g_threads[]
  reaped, gaveUp,   \* tasks waited for; setup_proc() has failed
  done, abrt,
  ready,            \* workers whose semaphore is posted
  left,             \* what remains for the epilogue
  ping, int,        \* pending: SIGUSR1 of a task, SIGINT of a process
  late,             \* history: who entered its call with done already set,
  passed,           \* the recorded workers notify_tasks() came past,
  stale             \* and who signalled a task already waited for, and whom

opts == <<mode, kind>>
ids  == <<made, recorded, reaped, gaveUp>>
flags == <<done, abrt, ready, left>>
hist == <<late, passed, stale>>
vars == <<opts, pc, nfd, ids, flags, ping, int, hist>>

\* In the order setup_proc() starts them.
Order == IF mode = "mt" THEN <<"relay", "reader", "writer">>
                        ELSE <<"reader", "writer">>

\* A thread ends with its process.
Running(t) == mode = "mt" => pc["arbiter"] # "over"

At(t, at) == pc[t] = at /\ Running(t)
Goto(t, from, to) == At(t, from) /\ pc' = [pc EXCEPT ![t] = to]

\* Places inside a call that waits for the peer.
Opening  == {"opening", "connect", "accept"}
Blocking == Opening \union {"blocked", "epi_blocked"}

Other(w) == IF w = "reader" THEN "writer" ELSE "reader"

Init ==
  /\ mode \in {"mp", "mt"} /\ kind \in Ends
  /\ pc = [t \in Tasks |-> IF t = "arbiter" THEN "start" ELSE "off"]
  /\ nfd = [w \in Workers |-> IF kind[w] = "fd" THEN 1 ELSE 0]
  /\ made = 0 /\ recorded = {} /\ reaped = {} /\ gaveUp = FALSE
  /\ done = FALSE /\ abrt = FALSE /\ ready = {} /\ left = MaxLeft
  /\ ping = {} /\ int = {}
  /\ late = {} /\ passed = {} /\ stale = {}

-----------------------------------------------------------------------------
(* setup_proc(), reap_procs() and reap_threads(): the arbiter.             *)

Start ==
  /\ At("arbiter", "start")
  /\ made' = made + 1
  /\ LET t == Order[made + 1]
     IN  pc' = [pc EXCEPT !["arbiter"] = "record",
                          ![t] = IF t = "relay" THEN "sigwait" ELSE "open"]
  /\ UNCHANGED <<opts, nfd, recorded, reaped, gaveUp, flags, ping, int, hist>>

\* Only then is it known to notify_tasks(), which it may have called already.
RecordsId ==
  /\ Goto("arbiter", "record", IF made = Len(Order) THEN "wait" ELSE "start")
  /\ recorded' = recorded \union {Order[made]}
  /\ UNCHANGED <<opts, nfd, made, reaped, gaveUp, flags, ping, int, hist>>

CannotStart ==
  /\ Goto("arbiter", "start", "release")
  /\ gaveUp' = TRUE
  /\ UNCHANGED <<opts, nfd, made, recorded, reaped, flags, ping, int, hist>>

\* waitpid() or pthread_join(), the reader first (and first the other way
\* round); a signal restarts the former.  Then the relay is cancelled.
WriterFirst == IF "writer" \in reaped THEN "reader" ELSE "writer"
Awaited == IF "reader" \in reaped THEN "writer" ELSE "reader"

Reaps ==
  /\ At("arbiter", "wait") /\ pc[Awaited] = "gone"
  /\ reaped' = reaped \union {Awaited}
  /\ pc' = IF reaped' = Workers
           THEN [pc EXCEPT !["arbiter"] = "over", !["relay"] = "gone"]
           ELSE pc
  /\ UNCHANGED <<opts, nfd, made, recorded, gaveUp, flags, ping, int, hist>>

Arbiter == Start \/ RecordsId \/ CannotStart \/ Reaps

-----------------------------------------------------------------------------
(* release() with notify_tasks(), called by a worker that could not open,  *)
(* by the relay, and by the arbiter when it gives up.                      *)

Stop(t, at, to) ==
  /\ Goto(t, at, to)
  /\ done' = TRUE /\ abrt' = TRUE /\ ready' = Workers
  /\ UNCHANGED <<opts, nfd, ids, left, ping, int, hist>>

Releases(t) == Stop(t, "release", "to_reader")

\* One round of the loop: every recorded task but the caller is signalled.
Pings(t, r, at, to) ==
  /\ Goto(t, at, to)
  /\ LET known == r # t /\ r \in recorded
     IN  /\ ping' = IF known THEN ping \union {r} ELSE ping
         /\ passed' = passed \union ({r} \cap recorded \cap Workers)
         /\ stale' = IF known /\ r \in reaped THEN stale \union {<<t, r>>}
                                              ELSE stale
  /\ UNCHANGED <<opts, nfd, ids, flags, int, late>>

\* Where the caller goes on.
Return(t) == CASE t = "arbiter" -> "over"
               [] t = "relay"   -> "sigwait"
               [] OTHER         -> "gone"

\* (First with the signals sent before done is set.)
ReleasePingsFirst(t) ==
  \/ Pings(t, "reader", "release", "to_writer")
  \/ Pings(t, "writer", "to_writer", "to_relay")
  \/ Pings(t, "relay", "to_relay", "to_reader")
  \/ Stop(t, "to_reader", Return(t))

Release(t) ==
  \/ Releases(t)
  \/ Pings(t, "reader", "to_reader", "to_writer")
  \/ Pings(t, "writer", "to_writer", "to_relay")
  \/ Pings(t, "relay", "to_relay", Return(t))

-----------------------------------------------------------------------------
(* fd_open() of fdpack.c.                                                  *)

Moves(w, from, to) ==
  Goto(w, from, to) /\ UNCHANGED <<opts, nfd, ids, flags, ping, int, hist>>

\* Into a call that may block.
Enters(w, from, to) ==
  /\ Goto(w, from, to)
  /\ late' = IF done THEN late \union {w} ELSE late \ {w}
  /\ UNCHANGED <<opts, nfd, ids, flags, ping, int, passed, stale>>

Holds(w, from, to, n) ==
  /\ Goto(w, from, to)
  /\ nfd' = [nfd EXCEPT ![w] = n]
  /\ UNCHANGED <<opts, ids, flags, ping, int, hist>>

IsSocket(w) == kind[w] \in {"tcp", "udp"}

\* fd_open_() and fd_open_f() up to open(); fd_setup_socket().
OpenBegins(w) ==
  \/ kind[w] = "fd" /\ Moves(w, "open", "loop")
  \/ kind[w] = "file" /\ Enters(w, "open", "opening")
  \/ IsSocket(w) /\ Holds(w, "open", "setsockopt", 1)
  \/ IsSocket(w) /\ Moves(w, "open", "release")
  \/ Moves(w, "setsockopt", "shut")
  \/ w = "writer" /\ Enters(w, "setsockopt", "connect")
  \/ w = "reader" /\ Moves(w, "setsockopt", "bind")

\* bind() and listen(); a datagram socket only needs the former.
Binds ==
  \/ kind["reader"] = "udp" /\ Moves("reader", "bind", "loop")
  \/ kind["reader"] = "tcp" /\ Moves("reader", "bind", "listen")
  \/ Enters("reader", "listen", "accept")
  \/ Moves("reader", "bind", "shut") \/ Moves("reader", "listen", "shut")

\* The peer has come, or the call failed.
OpenReturns(w) ==
  \/ Holds(w, "opening", "loop", 1) \/ Moves(w, "opening", "release")
  \/ Moves(w, "connect", "loop") \/ Moves(w, "connect", "shut")
  \/ Holds(w, "accept", "accepted", nfd[w] + 1) \/ Moves(w, "accept", "shut")

\* The listener is closed once a connection is there (first it is not), and
\* whatever there is when something failed.
KeepsListener(w) ==
  Moves(w, "accepted", "loop") \/ Holds(w, "shut", "release", nfd[w] - 1)
Shuts(w) ==
  \/ Holds(w, "accepted", "loop", nfd[w] - 1)
  \/ Holds(w, "shut", "release", nfd[w] - 1)

-----------------------------------------------------------------------------
(* transfer_reader() and transfer_writer().                                *)

\* The top of the loop: done is tested; a worker refused by the buffer goes
\* to sleep unless the other one already does, unserved.
Decides(w) ==
  \/ done /\ Moves(w, "loop", "outt")
  \/ ~done /\ Moves(w, "loop", "io")
  \/ /\ ~done /\ ~(pc[Other(w)] = "sleep" /\ Other(w) \notin ready)
     /\ Moves(w, "loop", "sleep")

\* Pb(), which signals do not end, and the test of done behind it.
Wakes(w) ==
  /\ w \in ready /\ ready' = ready \ {w}
  /\ Goto(w, "sleep", IF done THEN "outt" ELSE "io")
  /\ UNCHANGED <<opts, nfd, ids, done, abrt, left, ping, int, hist>>

\* read_i() or write_i() is over: data moved, with the other worker woken or
\* not; the end of the input; or an error.
IoReturns(w) ==
  \/ Moves(w, "blocked", "loop")
  \/ /\ pc[Other(w)] = "sleep" /\ ready' = ready \union {Other(w)}
     /\ Goto(w, "blocked", "loop")
     /\ UNCHANGED <<opts, nfd, ids, done, abrt, left, ping, int, hist>>
  \/ w = "reader" /\ Moves(w, "blocked", "outt")
  \/ Moves(w, "blocked", "error")

\* outt: on an error abrt and done are set, the reader sets done always;
\* the other one's semaphore is posted.
Outt(w, at) ==
  /\ Goto(w, at, IF w = "reader" THEN "close" ELSE "outt2")
  /\ abrt' = (abrt \/ at = "error")
  /\ done' = (done \/ w = "reader" \/ at = "error")
  /\ ready' = ready \union {Other(w)}
  /\ UNCHANGED <<opts, nfd, ids, left, ping, int, hist>>

\* The epilogue, unless the transfer was broken off.
Epilogue ==
  \/ abrt /\ Moves("writer", "outt2", "close")
  \/ ~abrt /\ Moves("writer", "outt2", "epi")
  \/ Moves("writer", "epi", "close")
  \/ left > 0 /\ Enters("writer", "epi", "epi_blocked")

EpiReturns ==
  \/ /\ Goto("writer", "epi_blocked", "epi") /\ left' = left - 1
     /\ UNCHANGED <<opts, nfd, ids, done, abrt, ready, ping, int, hist>>
  \/ Moves("writer", "epi_blocked", "close")

Closes(w) == Holds(w, "close", "gone", 0)

\* What a worker does by itself, and what waits for the peer.
Works(w) ==
  \/ OpenBegins(w) \/ Shuts(w) \/ Decides(w) \/ Wakes(w)
  \/ Enters(w, "io", "blocked") \/ Outt(w, "outt") \/ Outt(w, "error")
  \/ Closes(w) \/ Release(w)
  \/ w = "reader" /\ Binds
  \/ w = "writer" /\ Epilogue

PeerActs(w) == OpenReturns(w) \/ IoReturns(w) \/ (w = "writer" /\ EpiReturns)

-----------------------------------------------------------------------------
(* Signals.                                                                *)

\* A call fails with EINTR when a signal is handled within it; stop is done
\* by then.  read_i() and write_i() try again unless it is set (first
\* always), anything else gives up.
AfterEintrRetry(at, stop) ==
  CASE at = "opening"     -> "release"
    [] at \in Opening \ {"opening"} -> "shut"
    [] at = "blocked"     -> "io"
    [] at = "epi_blocked" -> "epi"
    [] OTHER              -> at
AfterEintr(at, stop) ==
  CASE at = "opening"     -> "release"
    [] at \in Opening \ {"opening"} -> "shut"
    [] at = "blocked"     -> IF stop THEN "error" ELSE "io"
    [] at = "epi_blocked" -> IF stop THEN "close" ELSE "epi"
    [] OTHER              -> at

Interrupted(t, stop) == pc' = [pc EXCEPT ![t] = AfterEintr(@, stop)]

\* sh_terminate() for SIGUSR1: nothing but the interruption.
Pinged(t) ==
  /\ t \in ping /\ ping' = ping \ {t} /\ Running(t)
  /\ Interrupted(t, done)
  /\ UNCHANGED <<opts, nfd, ids, flags, int, hist>>

\* sh_terminate() for SIGINT or SIGTERM in a process of mp: it stops the
\* transfer, but neither posts nor pings.
Terminated(p) ==
  /\ mode = "mp" /\ p \in int /\ int' = int \ {p}
  /\ done' = TRUE /\ abrt' = TRUE
  /\ Interrupted(p, TRUE)
  /\ UNCHANGED <<opts, nfd, ids, ready, left, ping, hist>>

\* task_sigrelay() of mt, the only thread that does not block them.
Relayed ==
  /\ mode = "mt" /\ int # {} /\ int' = {}
  /\ Goto("relay", "sigwait", "release")
  /\ UNCHANGED <<opts, nfd, ids, flags, ping, hist>>

Alive(p) == pc[p] \notin {"off", "gone", "over"}
Processes == {p \in {"arbiter"} \union Workers :
                Alive(p) /\ (mode = "mt" => p = "arbiter")}

\* The terminal signals the whole group while the program holds it.
CtrlC ==
  /\ Alive("arbiter") /\ int' = int \union Processes
  /\ UNCHANGED <<opts, pc, nfd, ids, flags, ping, hist>>

\* kill with one pid.
Kill(p) ==
  /\ p \in Processes /\ int' = int \union {p}
  /\ UNCHANGED <<opts, pc, nfd, ids, flags, ping, hist>>

-----------------------------------------------------------------------------
AllOver == pc["arbiter"] = "over" /\ \A w \in Workers :
             mode = "mp" => pc[w] \in {"off", "gone"}

Over == AllOver /\ UNCHANGED vars

Next ==
  \/ Arbiter \/ Release("arbiter") \/ Release("relay") \/ Relayed
  \/ \E w \in Workers : Works(w) \/ PeerActs(w)
  \/ \E t \in Tasks : Pinged(t) \/ Terminated(t) \/ Kill(t)
  \/ CtrlC \/ Over

\* Tasks run, signals are delivered, and the user presses ctrl-c again while
\* the program is there.  Nothing is expected of the peers.
Fairness ==
  /\ WF_vars(Arbiter) /\ WF_vars(Release("arbiter")) /\ WF_vars(CtrlC)
  /\ WF_vars(Relayed) /\ WF_vars(Release("relay"))
  /\ \A w \in Workers : WF_vars(Works(w))
  /\ \A t \in Tasks : WF_vars(Pinged(t)) /\ WF_vars(Terminated(t))

Spec == Init /\ [][Next]_vars /\ Fairness

-----------------------------------------------------------------------------
\* The hang that the comment at yancat.c:121-122 admits is the only one: once
\* notify_tasks() has come past a worker, the worker is still in a blocking
\* call, with no signal on its way, only if it entered the call after the
\* order to stop.  (One not recorded yet cannot be signalled at all:
\* setup_proc() stores its id late.)
HangOnlyByRace ==
  \A w \in Workers :
    w \in passed /\ pc[w] \in Blocking /\ w \notin ping =>
      w \in late

\* "but then we can simply ctrl-c" (yancat.c:122): whatever the peers do not
\* do, repeated ctrl-c ends the program with all of its tasks, unless
\* setup_proc() gave up and left a worker to itself.
EndsOnCtrlC == <>(AllOver \/ gaveUp)

\* fd_open() keeps exactly one descriptor if it succeeds and none if it does
\* not, wherever in its series of calls that happens and by whatever signal.
OpenLeavesOne ==
  \A w \in Workers :
    /\ pc[w] \in {"loop", "sleep", "io", "blocked", "epi"} => nfd[w] = 1
    /\ pc[w] \in {"release", "to_reader", "gone"} => nfd[w] = 0

\* Signals to ids that may already belong to somebody else (yancat.c:134):
\* the order of the reaping leaves only the writer that could not open, once
\* the reader was waited for, and the relay.  The reader and the arbiter never
\* do it, nor does anybody to a writer process.
StalePings ==
  stale \subseteq {<<"writer", "reader">>} \union
    (IF mode = "mt" THEN {"relay"} \X Workers ELSE {})
=============================================================================
