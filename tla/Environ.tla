------------------------------ MODULE Environ ------------------------------
(***************************************************************************)
(* The shared environment of an iteration: the memory of Shmw, and what is *)
(* built in it for two workers, the mutex vars and the semaphores nospace  *)
(* and nodata (mtxw_posix.c; semw_posix.c with named, semw_posixu.c with   *)
(* unnamed and semw_sysv.c with SysV semaphores).  setup_env() makes it    *)
(* and unwinds it, each child detaches in cleanup_child() and the arbiter  *)
(* destroys it in cleanup_arbiter().                                       *)
(***************************************************************************)
EXTENDS Shmw

Syncs == {"vars", "nospace", "nodata"}

VARIABLES
  mode,       \* g_opts.mode, lowered when the memory cannot be shared
  sapi, vapi, \* the build: the kind of the semaphores; vars is one of them
              \* or a mutex
  sync,       \* mtx_s and sem_s in the chunk: sp or id is set, name is set
  exist,      \* those that exist: in the system or initialised in the chunk
  opened,     \* named semaphores each process has open
  sname,      \* the string of a semaphore's name, as str
  new         \* the one being constructed

svars == <<mode, sapi, vapi, sync, exist, opened, sname, new>>
evars == <<vars, svars>>

Kind(o) == IF o = "vars" /\ vapi = "mutex" THEN "mutex" ELSE sapi
NoSync == [set |-> FALSE, name |-> FALSE]

Init ==
  /\ MemInit
  /\ mode \in {"sp", "mt", "mp"}
  /\ sapi \in {"named", "unnamed", "sysv"} /\ vapi \in {"mutex", "sem"}
  /\ sync = [o \in Syncs |-> NoSync] /\ exist = {}
  /\ opened = [p \in Procs |-> {}] /\ sname = [o \in Syncs |-> "none"]
  /\ new = "vars"

-----------------------------------------------------------------------------
(* setup_env() after the memory.                                           *)

\* buf_setextra() may refuse; mp needs memory that can be shared.
SetsMode ==
  /\ mode' = IF mode = "mp" /\ api = "malloc" THEN "sp" ELSE mode
  /\ Goto("arbiter", "mode", IF mode' = "sp" THEN "wait" ELSE "make")
  /\ new' = "vars"
  /\ UNCHANGED <<api, maps, desc, str, linked, fds, cur, ret,
                 sapi, vapi, sync, exist, opened, sname>>

RejectsPoints ==
  /\ Goto("arbiter", "mode", "dtor_buf") /\ ret' = -1
  /\ UNCHANGED <<api, maps, desc, str, linked, fds, cur, svars>>

\* The label that undoes what was there before (first one too many).
OutTooEarly == [vars |-> "dtor_vars", nospace |-> "dtor_nospace", nodata |-> "dtor_nodata"]
Out == [vars |-> "dtor_buf", nospace |-> "dtor_vars", nodata |-> "dtor_nospace"]

\* semw_ctor() and mtxw_ctor() return: the rest of setup_env(), or setup_proc().
Made ==
  /\ new' = IF new = "vars" THEN "nospace" ELSE "nodata"
  /\ pc' = [pc EXCEPT !["arbiter"] =
              CASE new # "nodata"                 -> "make"
                [] new = "nodata" /\ mode = "mp" -> "fork_reader"
                [] OTHER                         -> "wait"]
  /\ UNCHANGED ret

NotMade ==
  /\ pc' = [pc EXCEPT !["arbiter"] = Out[new]] /\ ret' = -1
  /\ UNCHANGED new

Keeps == UNCHANGED <<api, maps, desc, str, linked, fds, cur, mode, sapi, vapi>>

SetSync(set, name) ==
  sync' = [sync EXCEPT ![new] = [set |-> set, name |-> name]]

\* In the chunk itself: sem_init(), pthread_mutex_init().
Initialises ==
  /\ pc["arbiter"] = "make" /\ Kind(new) \in {"unnamed", "mutex"}
  /\ \/ SetSync(TRUE, TRUE) /\ exist' = exist \union {new} /\ Made
     \/ SetSync(FALSE, FALSE) /\ UNCHANGED exist /\ NotMade
  /\ UNCHANGED <<opened, sname>> /\ Keeps

\* get_rndname(), then sem_open(): when this fails the freed name stays.
NamesSem ==
  /\ pc["arbiter"] = "make" /\ Kind(new) = "named"
  /\ \/ /\ SetSync(FALSE, TRUE) /\ sname' = [sname EXCEPT ![new] = "live"]
        /\ Goto("arbiter", "make", "make2") /\ UNCHANGED <<new, ret>>
     \/ SetSync(FALSE, FALSE) /\ UNCHANGED sname /\ NotMade
  /\ UNCHANGED <<exist, opened>> /\ Keeps

FreedName(o) ==
  [sname EXCEPT ![o] = IF @ = "live" THEN "freed" ELSE "freed_again"]

OpensSem ==
  /\ pc["arbiter"] = "make2" /\ Kind(new) = "named"
  /\ \/ /\ SetSync(TRUE, TRUE) /\ exist' = exist \union {new}
        /\ opened' = [opened EXCEPT !["arbiter"] = @ \union {new}]
        /\ UNCHANGED sname /\ Made
     \/ sname' = FreedName(new) /\ UNCHANGED <<sync, exist, opened>> /\ NotMade
  /\ Keeps

\* semget(), then semctl() to set the value.
GetsSem ==
  /\ pc["arbiter"] = "make" /\ Kind(new) = "sysv"
  /\ \/ /\ SetSync(TRUE, FALSE) /\ exist' = exist \union {new}
        /\ Goto("arbiter", "make", "make2") /\ UNCHANGED <<new, ret>>
     \/ SetSync(FALSE, FALSE) /\ UNCHANGED exist /\ NotMade
  /\ UNCHANGED <<opened, sname>> /\ Keeps

SetsSem ==
  /\ pc["arbiter"] = "make2" /\ Kind(new) = "sysv"
  /\ \/ SetSync(TRUE, TRUE) /\ UNCHANGED exist /\ Made
     \/ exist' = exist \ {new} /\ UNCHANGED sync /\ NotMade
  /\ UNCHANGED <<opened, sname>> /\ Keeps

SetupEnv ==
  \/ Ctor /\ UNCHANGED svars
  \/ SetsMode \/ RejectsPoints
  \/ Initialises \/ NamesSem \/ OpensSem \/ GetsSem \/ SetsSem

-----------------------------------------------------------------------------
(* setup_proc(), the workers, and both clean-ups.                          *)

ForkAt(kid) == IF kid = "reader" THEN "fork_reader" ELSE "fork_writer"

Fork(kid, next) ==
  /\ pc["arbiter"] = ForkAt(kid)
  /\ pc' = [pc EXCEPT !["arbiter"] = next, ![kid] = "run"]
  /\ Copies(kid)
  /\ opened' = [opened EXCEPT ![kid] = opened["arbiter"]]
  /\ UNCHANGED <<mode, sapi, vapi, sync, exist, sname, new>>

\* A reader that was forked already goes on while all is destroyed.
CannotFork ==
  /\ \E kid \in Kids : Goto("arbiter", ForkAt(kid), "dtor_nodata")
  /\ ret' = -1
  /\ UNCHANGED <<api, maps, desc, str, linked, fds, cur, svars>>

\* semw_dt(), mtxw_dt(): the sem_s is shared like the shm_s (first with sp
\* cleared).
SyncDtClears(o, p) ==
  /\ opened' = IF sync[o].set THEN [opened EXCEPT ![p] = @ \ {o}] ELSE opened
  /\ sync' = [sync EXCEPT ![o].set = FALSE]
SyncDt(o, p) ==
  /\ opened' = IF sync[o].set THEN [opened EXCEPT ![p] = @ \ {o}] ELSE opened
  /\ UNCHANGED sync

Detaches(kid, o, at, next) ==
  /\ Goto(kid, at, next) /\ SyncDt(o, kid)
  /\ UNCHANGED <<api, maps, desc, str, linked, fds, cur, ret,
                 mode, sapi, vapi, exist, sname, new>>

CleanupChild(kid) ==
  \/ Detaches(kid, "nodata", "run", "dt_nospace")
  \/ Detaches(kid, "nospace", "dt_nospace", "dt_vars")
  \/ Detaches(kid, "vars", "dt_vars", "dt_buf")
  \/ DetachesMemory(kid) /\ UNCHANGED svars

\* A process ends, by itself or killed.
Ends(kid) ==
  /\ pc[kid] \notin {"off", "gone"}
  /\ pc' = [pc EXCEPT ![kid] = "gone"]
  /\ Vanishes(kid)
  /\ opened' = [opened EXCEPT ![kid] = {}]
  /\ UNCHANGED <<mode, sapi, vapi, sync, exist, sname, new>>

\* reap_procs()
Waits ==
  /\ \A kid \in Kids : pc[kid] \in {"off", "gone"}
  /\ Goto("arbiter", "wait", IF mode = "sp" THEN "dtor_buf" ELSE "dtor_nodata")
  /\ UNCHANGED <<api, maps, desc, str, linked, fds, cur, ret, svars>>

\* semw_dtor(), mtxw_dtor(): what is set or named is closed, removed, freed.
SyncDtor(o, at, next) ==
  LET s == sync[o]
      removed == IF Kind(o) = "sysv" THEN s.set ELSE s.name
  IN  /\ Goto("arbiter", at, next)
      /\ opened' = [opened EXCEPT !["arbiter"] = IF s.set THEN @ \ {o} ELSE @]
      /\ exist' = IF removed THEN exist \ {o} ELSE exist
      /\ sname' = IF Kind(o) = "named" /\ s.name THEN FreedName(o) ELSE sname
      /\ sync' = [sync EXCEPT ![o] = NoSync]
      /\ UNCHANGED <<new, ret>> /\ Keeps

CleanupArbiter ==
  \/ SyncDtor("nodata", "dtor_nodata", "dtor_nospace")
  \/ SyncDtor("nospace", "dtor_nospace", "dtor_vars")
  \/ SyncDtor("vars", "dtor_vars", "dtor_buf")
  \/ DestroysMemory /\ UNCHANGED svars

\* The builtin loop.
LoopsOn ==
  /\ ret = 0 /\ pc["arbiter"] = "done"
  /\ pc' = [p \in Procs |-> IF p = "arbiter" THEN Entry ELSE "off"]
  /\ FreshMemory
  /\ sync' = [o \in Syncs |-> NoSync] /\ sname' = [o \in Syncs |-> "none"]
  /\ UNCHANGED <<mode, sapi, vapi, exist, opened, new>>

Over ==
  /\ pc["arbiter"] = "done" /\ \A kid \in Kids : pc[kid] \in {"off", "gone"}
  /\ UNCHANGED evars

Next ==
  \/ SetupEnv
  \/ Fork("reader", "fork_writer") \/ Fork("writer", "wait") \/ CannotFork
  \/ \E kid \in Kids : CleanupChild(kid) \/ Ends(kid)
  \/ Waits \/ CleanupArbiter \/ LoopsOn \/ Over

Spec == Init /\ [][Next]_evars

-----------------------------------------------------------------------------
\* Process p can use o: the chunk is mapped, sp is there and the semaphore
\* open, or the object is in the system or in the chunk.
Usable(o, p) ==
  /\ maps[p][Of("chunk", p).ptr] = "chunk"
  /\ IF Kind(o) = "named" THEN sync[o].set /\ o \in opened[p] ELSE o \in exist

\* Whoever works finds the mutex and both semaphores, while the other worker
\* detaches, dies or has not been forked yet (semw_posix.c:39-43).  Only a
\* reader left alone because the writer could not be forked may lose them.
SemaphoresThere ==
  mode # "sp" /\ ret = 0 =>
    \A p \in Procs :
      pc[p] = "run" \/ (p = "arbiter" /\ pc[p] \in {"wait", "fork_writer"}) =>
        \A o \in Syncs : Usable(o, p)

\* When an iteration is over the arbiter has no memory and no semaphore left,
\* the system no object and no name, and each string was freed once, whatever
\* failed and however the children ended.
CleansUp ==
  /\ LeavesNoMemory
  /\ pc["arbiter"] = "done" =>
       /\ exist = {} /\ opened["arbiter"] = {}
       /\ \A o \in Syncs : sname[o] \in {"none", "freed"}
=============================================================================
