-------------------------------- MODULE Shmw --------------------------------
(***************************************************************************)
(* The memory of an iteration: the chunk with struct shr_s, the area of    *)
(* the ring (buf_s.buf), which shmw_ctor() tries to map twice in a row,    *)
(* and the bounce areas (buf_s.scr); from POSIX or SysV shared memory, or  *)
(* for one process from malloc() (shmw_posix.c, shmw_sysv.c,               *)
(* shmw_malloc.c).  The shm_s of the latter two lie inside the chunk,      *)
(* where the children see them too; the one of the chunk, g_chunk, is      *)
(* copied to them by fork().  Environ joins this to the semaphores and to  *)
(* the order of setup_env() and of the clean-ups.                          *)
(*                                                                         *)
(* The address space is a row of places, each as large as one mapping.     *)
(* Where the kernel puts a mapping is its own choice, whatever is hinted.  *)
(***************************************************************************)
EXTENDS Integers

CONSTANT LastPlace   \* bound: places 0 .. LastPlace in each address space

ASSUME PlaceAssumption == LastPlace \in Nat

Place   == 0 .. LastPlace
Objs    == {"chunk", "buf", "scr"}
Kids    == {"reader", "writer"}
Procs   == Kids \union {"arbiter"}
Null    == -1

VARIABLES
  api,        \* the build: POSIX or SysV shared memory, or malloc()
  maps,       \* what is at each place of each address space
  desc,       \* shm_s: ptr, ptrc and whether name is set, one for each holder
  str,        \* the string of name: not allocated, live, freed or freed again
  linked,     \* objects that exist in the system, by name or identifier
  fds,        \* objects with an open descriptor
  cur,        \* the object being constructed
  pc, ret

vars == <<api, maps, desc, str, linked, fds, cur, pc, ret>>

Desc == [ptr: Place \union {Null}, ptrc: Place \union {Null}, name: BOOLEAN]
NoDesc == [ptr |-> Null, ptrc |-> Null, name |-> FALSE]

\* Where the shm_s of o lies that process p uses.
Holder(o, p) == IF o = "chunk" THEN p ELSE "chunk"

Of(o, p) == desc[o][Holder(o, p)]
SetDesc(o, p, d) == desc' = [desc EXCEPT ![o][Holder(o, p)] = d]

Free(p) == {a \in Place : maps[p][a] = "free"}
\* What munmap() or shmdt() takes away (first as a block of twice the size).
HeldTwice(d) == {d.ptr, d.ptr + 1}
Held(d) == {d.ptr, d.ptrc}

Unmapped(m, as) == [a \in Place |-> IF a \in as THEN "free" ELSE m[a]]

Goto(p, from, to) == pc[p] = from /\ pc' = [pc EXCEPT ![p] = to]

\* The first step of shmw_ctor().
Entry == CASE api = "posix" -> "name" [] api = "sysv" -> "open"
           [] api = "malloc" -> "map"

MemInit ==
  /\ api \in {"posix", "sysv", "malloc"}
  /\ \E others \in SUBSET Place :
       maps = [p \in Procs |-> [a \in Place |->
                 IF p = "arbiter" /\ a \in others THEN "other" ELSE "free"]]
  /\ desc = [o \in Objs |-> [h \in Procs \union {"chunk"} |-> NoDesc]]
  /\ str = [o \in Objs |-> "none"]
  /\ linked = {} /\ fds = {} /\ cur = "chunk"
  /\ pc = [p \in Procs |-> IF p = "arbiter" THEN Entry ELSE "off"]
  /\ ret = 0

-----------------------------------------------------------------------------
(* shmw_ctor()                                                             *)

MakesName ==
  /\ Goto("arbiter", "name", "open")
  /\ SetDesc(cur, "arbiter", [NoDesc EXCEPT !.name = TRUE])
  /\ str' = [str EXCEPT ![cur] = "live"]
  /\ UNCHANGED <<api, maps, linked, fds, cur, ret>>

NoName ==
  /\ Goto("arbiter", "name", "failed")
  /\ SetDesc(cur, "arbiter", NoDesc)
  /\ UNCHANGED <<api, maps, str, linked, fds, cur, ret>>

\* shm_open() and ftruncate(), or shmget().
Opens ==
  /\ Goto("arbiter", "open", "map")
  /\ linked' = linked \union {cur}
  /\ fds' = IF api = "posix" THEN fds \union {cur} ELSE fds
  /\ UNCHANGED <<api, maps, desc, str, cur, ret>>

\* free(s->name)
Freed(o) == [str EXCEPT ![o] = IF @ = "live" THEN "freed" ELSE "freed_again"]

\* outstr: shm_s keeps the name that is freed here.
FreesName == str' = IF api = "posix" THEN Freed(cur) ELSE str

CannotOpen ==
  /\ Goto("arbiter", "open", "failed")
  /\ FreesName
  /\ UNCHANGED <<api, maps, desc, linked, fds, cur, ret>>

MapsFirst ==
  /\ \E a \in Free("arbiter") :
       /\ maps' = [maps EXCEPT !["arbiter"][a] = cur]
       /\ SetDesc(cur, "arbiter", [Of(cur, "arbiter") EXCEPT !.ptr = a])
  /\ Goto("arbiter", "map", IF cur = "buf" /\ api # "malloc" THEN "above"
                           ELSE "close")
  /\ UNCHANGED <<api, str, linked, fds, cur, ret>>

\* outfd, outid: also when ftruncate() fails.
CannotMap ==
  /\ Goto("arbiter", "map", "failed")
  /\ linked' = linked \ {cur} /\ fds' = fds \ {cur}
  /\ FreesName
  /\ UNCHANGED <<api, maps, desc, cur, ret>>

\* circok: the lower one becomes ptr (first without the exchange).
CircokUnordered(a, b) == [Of("buf", "arbiter") EXCEPT !.ptrc = b]
Circok(a, b) ==
  [Of("buf", "arbiter") EXCEPT !.ptr = IF b < a THEN b ELSE a,
                                !.ptrc = IF b < a THEN a ELSE b]

\* The second mapping, hinted above and then below the first: kept only when
\* it is next to it, on whatever side; taken away again otherwise.
MapsSecond(at, next) ==
  LET first == Of("buf", "arbiter").ptr
  IN  \/ \E b \in Free("arbiter") :
           /\ b = first + 1 \/ b + 1 = first
           /\ Goto("arbiter", at, "close")
           /\ maps' = [maps EXCEPT !["arbiter"][b] = "buf"]
           /\ SetDesc("buf", "arbiter", Circok(first, b))
           /\ UNCHANGED <<api, str, linked, fds, cur, ret>>
      \/ /\ Goto("arbiter", at, next)
         /\ UNCHANGED <<api, maps, desc, str, linked, fds, cur, ret>>

\* circex; then the next object, or the rest of setup_env().
Closes ==
  /\ Goto("arbiter", "close", IF cur = "scr" THEN "mode" ELSE Entry)
  /\ fds' = fds \ {cur}
  /\ cur' = IF cur = "chunk" THEN "buf" ELSE "scr"
  /\ UNCHANGED <<api, maps, desc, str, linked, ret>>

\* What setup_env() and buf_ctor() undo when the ctor of cur has failed; scr
\* still has the name that is freed (first with all of buf_dtor()).
UndoAll == [chunk |-> "done", buf |-> "dtor_chunk", scr |-> "dtor_buf"]
Undo == [chunk |-> "done", buf |-> "dtor_chunk", scr |-> "undo_buf"]

Fails ==
  /\ Goto("arbiter", "failed", Undo[cur])
  /\ ret' = -1
  /\ UNCHANGED <<api, maps, desc, str, linked, fds, cur>>

Ctor ==
  \/ MakesName \/ NoName \/ Opens \/ CannotOpen \/ MapsFirst \/ CannotMap
  \/ MapsSecond("above", "below") \/ MapsSecond("below", "close")
  \/ Closes \/ Fails

-----------------------------------------------------------------------------
(* What fork(), the clean-ups and the end of a process do to the memory.   *)

\* The child gets a copy of what is private.
Copies(kid) ==
  /\ maps' = [maps EXCEPT ![kid] = maps["arbiter"]]
  /\ desc' = [desc EXCEPT !["chunk"][kid] = Of("chunk", "arbiter")]
  /\ UNCHANGED <<api, str, linked, fds, cur, ret>>

\* shmw_dt(): the shm_s is left alone, for it may be shared (first with the
\* pointers cleared).
DetachClears(o, p) ==
  /\ maps' = [maps EXCEPT ![p] = Unmapped(@, Held(Of(o, p)))]
  /\ SetDesc(o, p, [Of(o, p) EXCEPT !.ptr = Null, !.ptrc = Null])
Detach(o, p) ==
  /\ maps' = [maps EXCEPT ![p] = Unmapped(@, Held(Of(o, p)))]
  /\ UNCHANGED desc

\* buf_dt(), which finds its shm_s in the chunk, then the chunk itself.
DetachesMemory(kid) ==
  /\ \/ Goto(kid, "dt_buf", "dt_scr") /\ Detach("buf", kid)
     \/ Goto(kid, "dt_scr", "dt_chunk") /\ Detach("scr", kid)
     \/ Goto(kid, "dt_chunk", "exits") /\ Detach("chunk", kid)
  /\ UNCHANGED <<api, str, linked, fds, cur, ret>>

\* The kernel takes the mappings of a process that ends.
Vanishes(kid) ==
  /\ maps' = [maps EXCEPT ![kid] = Unmapped(@, Place)]
  /\ UNCHANGED <<api, desc, str, linked, fds, cur, ret>>

\* shmw_dtor()
Dtor(o, at, next) ==
  /\ Goto("arbiter", at, next)
  /\ maps' = [maps EXCEPT !["arbiter"] = Unmapped(@, Held(Of(o, "arbiter")))]
  /\ linked' = linked \ {o}
  /\ str' = IF Of(o, "arbiter").name THEN Freed(o) ELSE str
  /\ SetDesc(o, "arbiter", NoDesc)
  /\ UNCHANGED <<api, fds, cur, ret>>

DestroysMemory ==
  \/ Dtor("buf", "dtor_buf", "dtor_scr") \/ Dtor("scr", "dtor_scr", "dtor_chunk")
  \/ Dtor("buf", "undo_buf", "dtor_chunk") \/ Dtor("chunk", "dtor_chunk", "done")

\* Fresh memory knows nothing of the last iteration.
FreshMemory ==
  /\ desc' = [o \in Objs |-> [h \in Procs \union {"chunk"} |-> NoDesc]]
  /\ str' = [o \in Objs |-> "none"]
  /\ cur' = "chunk"
  /\ UNCHANGED <<api, maps, linked, fds, ret>>

-----------------------------------------------------------------------------
\* What Buffer calls iscir: when shmw_cir() says that the area is mapped twice,
\* every process that works on the ring finds it at ptr and again right behind,
\* as often as the program loops and wherever the kernel put the mappings.
RingIsContiguous ==
  LET d == Of("buf", "arbiter")
  IN  d.ptrc # Null =>
        /\ d.ptrc = d.ptr + 1
        /\ \A p \in Procs : pc[p] \in {"run", "dt_buf", "fork_reader", "wait"} =>
             maps[p][d.ptr] = "buf" /\ maps[p][d.ptrc] = "buf"

\* When an iteration is over, whatever failed in it and whether or not the
\* children got to detach, the arbiter has no mapping, descriptor or string
\* left of it, and the system no object; and each string was freed only once.
LeavesNoMemory ==
  pc["arbiter"] = "done" =>
    /\ \A a \in Place : maps["arbiter"][a] \in {"free", "other"}
    /\ linked = {} /\ fds = {}
    /\ \A o \in Objs : str[o] \in {"none", "freed"}

\* The mappings of others are as they were, at any time.
OthersUntouched ==
  [][\A a \in Place : maps["arbiter"][a] = "other" <=> maps'["arbiter"][a] = "other"]_vars
=============================================================================
