--------------------------- MODULE EnvironProofs ---------------------------
(***************************************************************************)
(* Proofs about Environ and the Shmw it extends, for address spaces of any *)
(* size with anything mapped in them: workers find their semaphores and    *)
(* the ring, wherever construction stopped and whoever has detached or     *)
(* died; an iteration leaves nothing behind and nothing of others touched. *)
(***************************************************************************)
EXTENDS Environ, TLAPS

-----------------------------------------------------------------------------
(* The inductive invariant.                                                *)

\* Where the arbiter may be.
CtorPlaces == {"name", "open", "map", "above", "below", "close", "failed"}
SyncPlaces == {"make", "make2"}
WorkPlaces == {"fork_reader", "fork_writer", "wait"}
DownPlaces == {"dtor_nodata", "dtor_nospace", "dtor_vars", "dtor_buf", "dtor_scr",
               "undo_buf", "dtor_chunk"}
KidPlaces  == {"run", "dt_nospace", "dt_vars", "dt_buf", "dt_scr", "dt_chunk", "exits"}
AllPlaces  == CtorPlaces \union {"mode"} \union SyncPlaces \union WorkPlaces
                \union DownPlaces \union {"done"} \union KidPlaces \union {"off", "gone"}

Typed ==
  /\ api \in {"posix", "sysv", "malloc"}
  /\ maps \in [Procs -> [Place -> {"free", "other"} \union Objs]]
  /\ desc \in [Objs -> [Procs \union {"chunk"} -> Desc]]
  /\ str \in [Objs -> {"none", "live", "freed", "freed_again"}]
  /\ linked \subseteq Objs /\ fds \subseteq Objs /\ cur \in Objs
  /\ pc \in [Procs -> AllPlaces]
  /\ ret \in {0, -1}
  /\ mode \in {"sp", "mt", "mp"}
  /\ sapi \in {"named", "unnamed", "sysv"} /\ vapi \in {"mutex", "sem"}
  /\ sync \in [Syncs -> [set: BOOLEAN, name: BOOLEAN]]
  /\ exist \subseteq Syncs
  /\ opened \in [Procs -> SUBSET Syncs]
  /\ sname \in [Syncs -> {"none", "live", "freed", "freed_again"}]
  /\ new \in Syncs

\* Who may be where.
At == pc["arbiter"]
Active(kid) == pc[kid] \in KidPlaces
Places ==
  /\ At \in CtorPlaces \union {"mode"} \union SyncPlaces \union WorkPlaces
            \union DownPlaces \union {"done"}
  /\ \A kid \in Kids : pc[kid] \in KidPlaces \union {"off", "gone"}
  /\ \A kid \in Kids : Active(kid) =>
       \/ At \in {"fork_writer", "wait"}
       \/ ret = -1 /\ At \in (DownPlaces \ {"undo_buf"}) \union {"done"}
  /\ ret = -1 => At \in DownPlaces \union {"done"}
  /\ At = "undo_buf" => ret = -1
  /\ At \in {"fork_reader", "fork_writer"} => mode = "mp"
  /\ At \in SyncPlaces => mode # "sp"
  /\ At \in {"dtor_nodata", "dtor_nospace", "dtor_vars"} => mode # "sp"
  /\ At = "name" => api = "posix"
  /\ At = "open" => api # "malloc"
  /\ At \in {"above", "below"} => cur = "buf" /\ api # "malloc"

\* The objects of the memory that exist at each place.
Before == [chunk |-> {}, buf |-> {"chunk"}, scr |-> {"chunk", "buf"}]
Whole ==
  CASE At \in CtorPlaces -> Before[cur]
    [] At = "dtor_scr"   -> {"chunk", "scr"}
    [] At = "undo_buf"   -> {"chunk", "buf"}
    [] At = "dtor_chunk" -> {"chunk"}
    [] At = "done"       -> {}
    [] OTHER             -> Objs

\* The one shm_s of an object the arbiter uses.
Own(o) == Of(o, "arbiter")

\* What is mapped is what the shm_s say.
Mapping ==
  /\ \A o \in Objs, a \in Place : maps["arbiter"][a] = o <=> a \in Held(Own(o))
  /\ \A o \in Objs : Own(o).ptrc # Null =>
       o = "buf" /\ Own(o).ptr # Null /\ Own(o).ptrc = Own(o).ptr + 1

\* An object is there, is not (any more), or is the one being constructed.
Live(o) == str[o] = IF api = "posix" THEN "live" ELSE "none"
Named(o) == Own(o).name <=> api = "posix"
Memory ==
  /\ \A o \in Whole : Own(o).ptr # Null /\ Named(o) /\ Live(o) /\ o \notin fds
  /\ \A o \in Objs \ Whole : o # cur \/ At \notin CtorPlaces =>
       Own(o).ptr = Null /\ o \notin linked /\ o \notin fds /\ str[o] \in {"none", "freed"}
  /\ At \in CtorPlaces =>
       /\ \A o \in Objs \ (Whole \union {cur}) : Own(o) = NoDesc /\ str[o] = "none"
       /\ At = "name" => Own(cur) = NoDesc
       /\ At \in {"name", "open", "map", "failed"} => Own(cur).ptr = Null
       /\ At \in {"above", "below", "close"} => Own(cur).ptr # Null
       /\ At \in {"above", "below"} => Own(cur).ptrc = Null
       /\ At \in {"open", "map", "above", "below", "close"} => Live(cur) /\ Named(cur)
       /\ At \in {"name", "failed"} => str[cur] \in {"none", "freed"}
       /\ At \in {"name", "open", "failed"} => cur \notin linked /\ cur \notin fds

\* What each child at work has mapped of it.
Copied ==
  \A kid \in Kids :
    /\ pc[kid] \in {"run", "dt_nospace", "dt_vars", "dt_buf"} =>
         /\ Own("buf").ptr # Null => maps[kid][Own("buf").ptr] = "buf"
         /\ Own("buf").ptrc # Null => maps[kid][Own("buf").ptrc] = "buf"
    /\ pc[kid] = "run" =>
         /\ Of("chunk", kid).ptr # Null
         /\ maps[kid][Of("chunk", kid).ptr] = "chunk"

\* The semaphores and the mutex that exist at each place.
Earlier == [vars |-> {}, nospace |-> {"vars"}, nodata |-> {"vars", "nospace"}]
Ready ==
  CASE At \in SyncPlaces -> Earlier[new]
    [] At \in WorkPlaces /\ mode # "sp" -> Syncs
    [] At = "dtor_nodata" -> Syncs
    [] At = "dtor_nospace" -> {"vars", "nospace"}
    [] At = "dtor_vars" -> {"vars"}
    [] OTHER -> {}

\* One that is finished, one that is not there (any more), and one whose
\* constructor has taken its first step.
Finished(o) ==
  /\ sync[o] = [set |-> TRUE, name |-> TRUE] /\ o \in exist
  /\ o \in opened["arbiter"] <=> Kind(o) = "named"
  /\ sname[o] = IF Kind(o) = "named" THEN "live" ELSE "none"
Absent(o) ==
  o \notin exist /\ o \notin opened["arbiter"] /\ sname[o] \in {"none", "freed"}
Begun(o) ==
  /\ Kind(o) \in {"named", "sysv"} /\ o \notin opened["arbiter"]
  /\ sync[o] = [set |-> Kind(o) = "sysv", name |-> Kind(o) = "named"]
  /\ o \in exist <=> Kind(o) = "sysv"
  /\ sname[o] = IF Kind(o) = "named" THEN "live" ELSE "none"
Sems ==
  /\ \A o \in Ready : Finished(o)
  /\ \A o \in Syncs \ Ready : o # new \/ At # "make2" => Absent(o)
  /\ At \in CtorPlaces \union {"mode"} \union SyncPlaces =>
       \A o \in Syncs \ Ready : o # new \/ At # "make2" => sname[o] = "none"
  /\ At = "make2" => Begun(new)

\* The semaphores a child at work has open.
Inherited ==
  \A kid \in Kids : pc[kid] = "run" =>
    \A o \in Syncs : Kind(o) = "named" => o \in opened[kid]

EnvInv == Typed /\ Places /\ Mapping /\ Memory /\ Copied /\ Sems /\ Inherited

\* What SetDesc() changes.
LEMMA SetDescValue ==
  ASSUME Typed, NEW o \in Objs, NEW p \in Procs, NEW d \in Desc,
         SetDesc(o, p, d)
  PROVE  /\ desc' \in [Objs -> [Procs \union {"chunk"} -> Desc]]
         /\ \A q \in Objs, h \in Procs \union {"chunk"} :
              desc'[q][h] = IF q = o /\ h = Holder(o, p) THEN d ELSE desc[q][h]
<1>1. Holder(o, p) \in Procs \union {"chunk"} BY DEF Holder
<1>2. [desc[o] EXCEPT ![Holder(o, p)] = d] \in [Procs \union {"chunk"} -> Desc]
  BY <1>1 DEF Typed
<1>3. desc' = [desc EXCEPT ![o] = [desc[o] EXCEPT ![Holder(o, p)] = d]]
  BY DEF SetDesc
<1> QED BY <1>1, <1>2, <1>3 DEF Typed

\* The same seen by the arbiter
LEMMA OwnValue ==
  ASSUME Typed, NEW o \in Objs, NEW d \in Desc, SetDesc(o, "arbiter", d)
  PROVE  \A q \in Objs : Own(q)' = IF q = o THEN d ELSE Own(q)
<1>1. "arbiter" \in Procs BY DEF Procs
<1>2. \A q \in Objs : Holder(q, "arbiter") \in Procs \union {"chunk"}
  BY DEF Holder, Procs
<1> QED BY <1>1, <1>2, SetDescValue DEF Own, Of

\* One place is mapped.
LEMMA MappedValue ==
  ASSUME Typed, NEW a \in Place, NEW o \in Objs,
         maps' = [maps EXCEPT !["arbiter"][a] = o]
  PROVE  /\ maps' \in [Procs -> [Place -> {"free", "other"} \union Objs]]
         /\ \A b \in Place : maps'["arbiter"][b] = IF b = a THEN o ELSE maps["arbiter"][b]
<1>1. [maps["arbiter"] EXCEPT ![a] = o] \in [Place -> {"free", "other"} \union Objs]
  BY DEF Typed, Procs
<1>2. maps' = [maps EXCEPT !["arbiter"] = [maps["arbiter"] EXCEPT ![a] = o]] OBVIOUS
<1> QED BY <1>1, <1>2 DEF Typed, Procs

\* munmap().
LEMMA UnmappedValue ==
  ASSUME Typed, NEW p \in Procs, NEW as,
         maps' = [maps EXCEPT ![p] = Unmapped(@, as)]
  PROVE  /\ maps' \in [Procs -> [Place -> {"free", "other"} \union Objs]]
         /\ \A q \in Procs, b \in Place : maps'[q][b] = IF q = p /\
              b \in as THEN "free" ELSE maps[q][b]
<1>1. Unmapped(maps[p], as) \in [Place -> {"free", "other"} \union Objs]
  <2>1. maps[p] \in [Place -> {"free", "other"} \union Objs] BY DEF Typed
  <2> QED BY <2>1 DEF Unmapped
<1> QED BY <1>1 DEF Typed, Unmapped

\* What the arbiter uses is a shm_s.
LEMMA OwnType == ASSUME Typed, NEW o \in Objs PROVE Own(o) \in Desc
BY DEF Typed, Own, Of, Holder, Procs

\* What SetSync() changes.
LEMMA SetSyncValue ==
  ASSUME Typed, NEW s \in BOOLEAN, NEW n \in BOOLEAN, SetSync(s, n)
  PROVE  /\ sync' \in [Syncs -> [set: BOOLEAN, name: BOOLEAN]]
         /\ \A o \in Syncs : sync'[o] = IF o = new THEN [set |-> s, name |-> n] ELSE sync[o]
BY DEF Typed, SetSync
\* No shm_s the arbiter uses is changed.
OwnSame == \A o \in Objs : Own(o)' = Own(o)

\* A step that leaves desc alone leaves all of them alone.
LEMMA OwnKept == ASSUME desc' = desc PROVE OwnSame
BY DEF OwnSame, Own, Of

\* Only objects are whole.
LEMMA WholeObjs == ASSUME Typed PROVE Whole \subseteq Objs
BY DEF Whole, At, Before, Objs, Typed

\* Frame conditions: what a step leaves alone it preserves.
LEMMA UntouchedMapping ==
  ASSUME Mapping, maps'["arbiter"] = maps["arbiter"], OwnSame
  PROVE  Mapping'
BY DEF Mapping, Held, OwnSame

\* The same for Memory, at the same place...
LEMMA UntouchedMemory ==
  ASSUME Typed, Memory, pc'["arbiter"] = pc["arbiter"], OwnSame,
         UNCHANGED <<api, str, linked, fds, cur>>
  PROVE  Memory'
<1>1. Whole' = Whole /\ At' = At /\ cur \in Objs BY DEF Whole, At, Typed
<1>2. Whole \subseteq Objs BY WholeObjs
<1>3. \A o \in Objs : (Live(o)' <=> Live(o)) /\ (Named(o)' <=> Named(o))
  BY DEF Live, Named, OwnSame
<1> QED BY <1>1, <1>2, <1>3 DEF Memory, OwnSame

\* A child that detaches leaves the arbiter and the shm_s alone
\* (shmw_posix.c:43-47).
LEMMA DetachesUntouched ==
  ASSUME Typed, NEW kid \in Kids, DetachesMemory(kid)
  PROVE /\ pc'["arbiter"] = pc["arbiter"] /\ maps'["arbiter"] = maps["arbiter"]
        /\ maps' \in [Procs -> [Place -> {"free", "other"} \union Objs]]
        /\ UNCHANGED <<api, desc, str, linked, fds, cur, ret>>
        /\ OwnSame
<1>1. "arbiter" # kid /\ kid \in Procs /\ "arbiter" \in Procs
  BY DEF Kids, Procs
<1>2. \E o \in Objs : Detach(o, kid) BY DEF DetachesMemory, Objs
<1>3. UNCHANGED <<api, desc, str, linked, fds, cur, ret>>
  BY DEF DetachesMemory, Detach
<1>4. pc'["arbiter"] = pc["arbiter"] BY <1>1 DEF DetachesMemory, Goto, Typed
<1>5. maps'["arbiter"] = maps["arbiter"] BY <1>1, <1>2 DEF Detach, Typed
<1> QED BY <1>1, <1>2, <1>3, <1>4, <1>5, UnmappedValue, OwnKept DEF Detach

\* ... or at two places behind shmw_ctor().
LEMMA UntouchedAfter ==
  ASSUME Memory, UNCHANGED <<api, str, linked, fds, cur>>, OwnSame,
         pc["arbiter"] \notin CtorPlaces, pc'["arbiter"] \notin CtorPlaces, Whole' = Whole
  PROVE  Memory'
<1>1. Whole \subseteq Objs BY DEF Whole, At, Objs
<1>2. \A o \in Objs : (Live(o)' <=> Live(o)) /\ (Named(o)' <=> Named(o))
  BY DEF Live, Named, OwnSame
<1> QED BY <1>1, <1>2 DEF Memory, OwnSame, At

\* The same for what the children have mapped.
LEMMA UntouchedCopied ==
  ASSUME Copied, Own("buf")' = Own("buf"),
         \A kid \in Kids : /\ pc'[kid] = pc[kid] /\ maps'[kid] = maps[kid]
                           /\ Of("chunk", kid)' = Of("chunk", kid)
  PROVE  Copied'
BY DEF Copied

\* Before the first fork() no child is at work.
LEMMA IdleKids ==
  ASSUME Places,
         pc["arbiter"] \in CtorPlaces \union {"mode"} \union SyncPlaces, 
         \A kid \in Kids : pc'[kid] = pc[kid]
  PROVE  Copied' /\ Inherited'
<1>1. \A kid \in Kids : pc'[kid] \notin KidPlaces
  BY DEF Places, Active, At, CtorPlaces, SyncPlaces, DownPlaces
<1> QED BY <1>1 DEF Copied, Inherited, KidPlaces

\* What a step does not touch of a semaphore or the mutex stays as it is.
LEMMA SyncKept ==
  ASSUME NEW o, sync'[o] = sync[o], o \in exist' <=> o \in exist,
         sname'[o] = sname[o], 
         o \in opened'["arbiter"] <=> o \in opened["arbiter"], sapi' = sapi, vapi' = vapi
  PROVE  (Finished(o)' <=> Finished(o)) /\ (Absent(o)' <=> Absent(o))
<1>1. Kind(o)' = Kind(o) BY DEF Kind
<1>2. Finished(o)' <=> Finished(o) BY <1>1 DEF Finished
<1>3. Absent(o)' <=> Absent(o) BY DEF Absent
<1> QED BY <1>2, <1>3

\* A step outside semw_ctor() and mtxw_ctor() that leaves the semaphores alone and
\* does not change what has to be there.
LEMMA UntouchedSems ==
  ASSUME Sems, UNCHANGED svars, pc["arbiter"] \notin SyncPlaces,
         Ready' = Ready, 
         pc'["arbiter"] \notin SyncPlaces,
         pc'["arbiter"] \in CtorPlaces \union {"mode"} =>
           pc["arbiter"] \in CtorPlaces \union {"mode"}
  PROVE  Sems'
<1>1. ASSUME NEW o \in Syncs
      PROVE  (Finished(o) => Finished(o)') /\ (Absent(o) => Absent(o)')
  <2>1. Kind(o)' = Kind(o) BY DEF Kind, svars
  <2> QED BY <2>1 DEF Finished, Absent, svars
<1>2. Ready \subseteq Syncs BY DEF Ready, At, Syncs
<1>3. pc["arbiter"] # "make2" /\ pc'["arbiter"] # "make2" BY DEF SyncPlaces
<1>4. sname' = sname BY DEF svars
<1>5. \A o \in Ready' : Finished(o)' BY <1>1, <1>2 DEF Sems
<1>6. \A o \in Syncs \ Ready' : Absent(o)' BY <1>1, <1>3 DEF Sems, At
<1> QED BY <1>3, <1>4, <1>5, <1>6 DEF Sems, At

\* Where semw_ctor() and mtxw_ctor() go.
LEMMA MadePlaces ==
  ASSUME Typed, Made \/ NotMade \/ Goto("arbiter", "make", "make2")
  PROVE  pc' \in [Procs -> AllPlaces]
<1>1. new \in Syncs /\ pc \in [Procs -> AllPlaces] /\ "arbiter" \in Procs
  BY DEF Typed, Procs
<1>2. {"make", "make2", "fork_reader", "wait", "dtor_buf", "dtor_vars",
        "dtor_nospace"} \subseteq AllPlaces
  BY DEF AllPlaces, SyncPlaces, WorkPlaces, DownPlaces
<1>3. \A x : x = Out[new] => x \in AllPlaces BY <1>1, <1>2 DEF Out, Syncs
<1>4. CASE Made BY <1>1, <1>2, <1>4 DEF Made
<1>5. CASE NotMade BY <1>1, <1>3, <1>5 DEF NotMade
<1>6. CASE Goto("arbiter", "make", "make2") BY <1>1, <1>2, <1>6 DEF Goto
<1> QED BY <1>4, <1>5, <1>6

\* A step of a child that leaves the semaphores alone.
LEMMA SameSems ==
  ASSUME Typed, Sems, pc'["arbiter"] = pc["arbiter"],
         opened'["arbiter"] = opened["arbiter"], 
         UNCHANGED <<mode, sapi, vapi, sync, exist, sname, new>>
  PROVE  Sems'
<1>1. ASSUME NEW o \in Syncs
      PROVE  /\ Finished(o) => Finished(o)'
             /\ Absent(o) => Absent(o)'
  BY SyncKept DEF Typed
<1>2. Ready' = Ready /\ Ready \subseteq Syncs
  BY DEF Ready, At, Syncs, Earlier, Typed
<1>3. Begun(new) => Begun(new)'
  <2>1. \A o : Kind(o)' = Kind(o) BY DEF Kind
  <2> QED BY <2>1 DEF Begun
<1> QED BY <1>1, <1>2, <1>3 DEF Sems, At

\* What shmw_dtor() does.
LEMMA DtorValue ==
  ASSUME Typed, NEW o \in Objs, NEW at, NEW next, Dtor(o, at, next)
  PROVE  /\ pc["arbiter"] = at /\ pc'["arbiter"] = next
         /\ \A q \in Objs : Own(q)' = IF q = o THEN NoDesc ELSE Own(q)
         /\ \A b \in Place : maps'["arbiter"][b] =
              IF b \in Held(Own(o)) THEN "free" ELSE maps["arbiter"][b]
         /\ \A kid \in Kids : /\ pc'[kid] = pc[kid] /\ maps'[kid] = maps[kid]
                              /\ Of("chunk", kid)' = Of("chunk", kid)
         /\ maps' \in [Procs -> [Place -> {"free", "other"} \union Objs]]
         /\ desc' \in [Objs -> [Procs \union {"chunk"} -> Desc]]
         /\ linked' = linked \ {o}
         /\ str' = IF Own(o).name THEN Freed(o) ELSE str
         /\ str' \in [Objs -> {"none", "live", "freed", "freed_again"}]
         /\ UNCHANGED <<api, fds, cur, ret>>
<1>1. "arbiter" \in Procs /\ \A kid \in Kids : kid \in Procs /\ kid # "arbiter"
  BY DEF Procs, Kids
<1>2. NoDesc \in Desc /\ "arbiter" \in Procs BY DEF NoDesc, Desc, Procs
<1>3. maps' = [maps EXCEPT !["arbiter"] = Unmapped(@, Held(Own(o)))]
  BY DEF Dtor, Own
<1>4. SetDesc(o, "arbiter", NoDesc) BY DEF Dtor
<1>5. /\ desc' \in [Objs -> [Procs \union {"chunk"} -> Desc]]
      /\ \A q \in Objs, h \in Procs \union {"chunk"} :
           desc'[q][h] = IF q = o /\ h = Holder(o, "arbiter") THEN NoDesc ELSE desc[q][h]
  <2>1. \A p \in Procs, d \in Desc : SetDesc(o, p, d) =>
          /\ desc' \in [Objs -> [Procs \union {"chunk"} -> Desc]]
          /\ \A q \in Objs, h \in Procs \union {"chunk"} :
               desc'[q][h] = IF q = o /\ h = Holder(o, p) THEN d ELSE desc[q][h]
    BY SetDescValue
  <2> QED BY <1>2, <1>4, <2>1
<1>6. \A q \in Objs : Own(q)' = IF q = o THEN NoDesc ELSE Own(q)
  BY <1>2, <1>4, OwnValue
<1>7. ASSUME NEW kid \in Kids PROVE Of("chunk", kid)' = Of("chunk", kid)
  <2>1. "chunk" \in Objs /\ kid \in Procs /\ kid # "arbiter" /\ kid # "chunk"
    BY DEF Objs, Procs, Kids
  <2> QED BY <1>5, <2>1 DEF Of, Holder
<1>8. maps' \in [Procs -> [Place -> {"free", "other"} \union Objs]]
  BY <1>1, <1>3, UnmappedValue DEF Typed, Dtor
<1>9. maps'["arbiter"] = Unmapped(maps["arbiter"], Held(Own(o)))
  BY <1>1, <1>3 DEF Typed
<1>10. \A b \in Place : maps'["arbiter"][b] =
         IF b \in Held(Own(o)) THEN "free" ELSE maps["arbiter"][b]
  BY <1>9 DEF Unmapped
<1>11. \A kid \in Kids : pc'[kid] = pc[kid] /\ maps'[kid] = maps[kid]
  BY <1>1, <1>3 DEF Dtor, Goto, Typed
<1>12. pc["arbiter"] = at /\ pc'["arbiter"] = next
  BY <1>1 DEF Dtor, Goto, Typed
<1>13. /\ linked' = linked \ {o} /\ str' = IF Own(o).name THEN Freed(o) ELSE str
       /\ UNCHANGED <<api, fds, cur, ret>>
  BY DEF Dtor, Own
<1>14. str' \in [Objs -> {"none", "live", "freed", "freed_again"}]
  <2>1. Freed(o) \in [Objs -> {"none", "live", "freed", "freed_again"}]
    BY DEF Typed, Freed
  <2>2. str' \in {str, Freed(o)} BY <1>13
  <2> QED BY <2>1, <2>2 DEF Typed
<1> QED BY <1>5, <1>6, <1>7, <1>8, <1>10, <1>11, <1>12, <1>13, <1>14

\* shmw_dtor() gives back exactly what its shm_s says, and nothing of others.
LEMMA DtorMapping ==
  ASSUME EnvInv, NEW o \in Objs, NEW at, NEW next, Dtor(o, at, next)
  PROVE  Mapping' /\ \A a \in Place : maps["arbiter"][a] = "other" <=>
           maps'["arbiter"][a] = "other"
<1>1. /\ \A q \in Objs : Own(q)' = IF q = o THEN NoDesc ELSE Own(q)
      /\ \A b \in Place : maps'["arbiter"][b] =
           IF b \in Held(Own(o)) THEN "free" ELSE maps["arbiter"][b]
  BY DtorValue DEF EnvInv
<1>2. \A b \in Place, q \in Objs : maps["arbiter"][b] = q <=> b \in Held(Own(q))
  BY DEF EnvInv, Mapping
<1>3. Null \notin Place BY PlaceAssumption DEF Null, Place
<1>4. "free" \notin Objs /\ "other" \notin Objs BY DEF Objs
<1>5. Held(NoDesc) = {Null} BY DEF Held, NoDesc
<1>6. ASSUME NEW q \in Objs, NEW a \in Place
      PROVE  (maps["arbiter"][a] = q <=> a \in Held(Own(q)))'
  <2>1. CASE q = o BY <1>1, <1>2, <1>3, <1>4, <1>5, <2>1
  <2>2. CASE q # o BY <1>1, <1>2, <1>4, <2>2
  <2> QED BY <2>1, <2>2
<1>7. \A q \in Objs : (Own(q).ptrc # Null =>
         q = "buf" /\ Own(q).ptr # Null /\ Own(q).ptrc = Own(q).ptr + 1)'
  BY <1>1 DEF EnvInv, Mapping, NoDesc
<1>8. \A a \in Place : maps["arbiter"][a] = "other" <=> maps'["arbiter"][a] = "other"
  BY <1>1, <1>2, <1>4
<1> QED BY <1>6, <1>7, <1>8 DEF Mapping

\* It takes nothing from a child that is still there.
LEMMA DtorCopied ==
  ASSUME EnvInv, NEW o \in Objs, NEW at, NEW next, Dtor(o, at, next)
  PROVE  Copied'
<1>1. /\ Own("buf")' = NoDesc \/ Own("buf")' = Own("buf")
      /\ \A kid \in Kids : /\ pc'[kid] = pc[kid] /\ maps'[kid] = maps[kid]
                           /\ Of("chunk", kid)' = Of("chunk", kid)
  BY DtorValue DEF EnvInv, Objs
<1> QED BY <1>1 DEF EnvInv, Copied, NoDesc

\* It leaves nothing of its object, and the rest as it was.
LEMMA DtorMemory ==
  ASSUME EnvInv, NEW o \in Objs, NEW at \in DownPlaces,
         NEW next \in DownPlaces \union {"done"}, 
         Dtor(o, at, next), o \in Whole, Whole' = Whole \ {o}
  PROVE  Memory'
<1>1. /\ pc["arbiter"] = at /\ pc'["arbiter"] = next /\ o \in Objs
      /\ \A q \in Objs : Own(q)' = IF q = o THEN NoDesc ELSE Own(q)
      /\ linked' = linked \ {o}
      /\ str' = IF Own(o).name THEN Freed(o) ELSE str
      /\ UNCHANGED <<api, fds, cur, ret>>
  BY DtorValue DEF EnvInv
<1>2. At \notin CtorPlaces /\ pc'["arbiter"] \notin CtorPlaces
  BY <1>1 DEF At, DownPlaces, CtorPlaces
<1>3. Typed /\ Whole \subseteq Objs BY WholeObjs DEF EnvInv
<1>4. ASSUME NEW q \in Whole \ {o}
      PROVE  (Own(q).ptr # Null /\ Named(q) /\ Live(q) /\ q \notin fds)'
  <2>1. Own(q).ptr # Null /\ Named(q) /\ Live(q) /\ q \notin fds
    BY DEF EnvInv, Memory
  <2>2. str'[q] = str[q] BY <1>1, <1>3 DEF Freed, Typed
  <2>3. Own(q)' = Own(q) BY <1>1, <1>3
  <2> QED BY <1>1, <2>1, <2>2, <2>3 DEF Named, Live
<1>5. ASSUME NEW q \in Objs \ (Whole \ {o})
      PROVE  (Own(q).ptr = Null /\ q \notin linked /\ q \notin fds /\
               str[q] \in {"none", "freed"})'
  <2>1. CASE q = o
    <3>1. Own(q).name <=> api = "posix" BY <2>1 DEF EnvInv, Memory, Named
    <3>2. str[q] = (IF api = "posix" THEN "live" ELSE "none") /\ q \notin fds
      BY <2>1 DEF EnvInv, Memory, Live
    <3>3. str'[q] \in {"none", "freed"}
      BY <1>1, <1>3, <2>1, <3>1, <3>2 DEF Freed, Typed
    <3>4. Own(q)'.ptr = Null BY <1>1, <2>1 DEF NoDesc
    <3> QED BY <1>1, <2>1, <3>2, <3>3, <3>4
  <2>2. CASE q # o
    <3>1. /\ Own(q).ptr = Null
          /\ q \notin linked
          /\ q \notin fds
          /\ str[q] \in {"none", "freed"}
      BY <1>2, <2>2 DEF EnvInv, Memory
    <3>2. str'[q] = str[q] BY <1>1, <1>3, <2>2 DEF Freed, Typed
    <3> QED BY <1>1, <2>2, <3>1, <3>2
  <2> QED BY <2>1, <2>2
<1>6. \A q \in Whole' : q \in Whole \ {o} OBVIOUS
<1>7. \A q \in Objs \ Whole' : q \in Objs \ (Whole \ {o}) OBVIOUS
<1> QED BY <1>1, <1>2, <1>4, <1>5, <1>6, <1>7 DEF Memory, At

\* The children only move on, or lose what they had.
LEMMA KidsCopied ==
  ASSUME Copied, desc' = desc,
         \A kid \in Kids :
           /\ pc'[kid] = "run" => pc[kid] = "run"
           /\ pc'[kid] \in {"run", "dt_nospace", "dt_vars", "dt_buf"} =>
                /\ pc[kid] \in {"run", "dt_nospace", "dt_vars", "dt_buf"}
                /\ maps'[kid] = maps[kid]
  PROVE  Copied'
<1>1. Own("buf")' = Own("buf") /\ \A kid \in Kids : Of("chunk", kid)' = Of("chunk", kid)
  BY DEF Own, Of, Holder
<1> QED BY <1>1 DEF Copied

\* One object is finished and the next one begun.
LEMMA ClosesMemory == ASSUME EnvInv, Closes PROVE Memory'
<1>1. /\ Typed /\ pc["arbiter"] = "close" /\ cur \in Objs
      /\ pc'["arbiter"] = IF cur = "scr" THEN "mode" ELSE Entry
      /\ UNCHANGED <<api, str, linked>> /\ fds' = fds \ {cur}
      /\ cur' = IF cur = "chunk" THEN "buf" ELSE "scr"
      /\ OwnSame
  BY OwnKept DEF EnvInv, Typed, Closes, Goto, Procs
<1>2. Whole = Before[cur] /\ cur \notin Whole
  BY <1>1 DEF Whole, At, CtorPlaces, Before, Objs
<1>3. Entry \in {"name", "open", "map"} /\ (Entry = "name" <=> api = "posix")
  BY <1>1 DEF Entry, Typed
<1>4. Whole' = Whole \union {cur}
  <2>1. CASE cur = "scr"
    BY <1>1, <1>2, <2>1 DEF Whole, At, CtorPlaces, Before, Objs
  <2>2. CASE cur # "scr"
    <3>2. Whole' = Before[cur'] BY <1>1, <1>3, <2>2 DEF Whole, At, CtorPlaces
    <3> QED BY <1>1, <1>2, <2>2, <3>2 DEF Before, Objs
  <2> QED BY <2>1, <2>2
<1>5. \A o \in Objs : (Live(o)' <=> Live(o)) /\ (Named(o)' <=> Named(o))
  BY <1>1 DEF Live, Named, OwnSame
<1>6. At = "close" /\ At \in CtorPlaces BY <1>1 DEF At, CtorPlaces
<1>7. Whole \union {cur} \subseteq Objs BY <1>1, WholeObjs
<1>8. ASSUME NEW o \in Whole \union {cur}
      PROVE  Own(o).ptr # Null /\ Named(o) /\ Live(o) /\ o \notin fds'
  BY <1>1, <1>6 DEF EnvInv, Memory
<1>9. ASSUME NEW o \in Objs \ (Whole \union {cur})
      PROVE  Own(o) = NoDesc /\ str[o] = "none" /\ o \notin linked /\ o \notin fds'
  BY <1>1, <1>6 DEF EnvInv, Memory
<1>10. CASE cur = "scr"
  <2>1. pc'["arbiter"] \notin CtorPlaces BY <1>1, <1>10 DEF CtorPlaces
  <2>2. Whole \union {cur} = Objs BY <1>2, <1>10 DEF Before, Objs
  <2> QED BY <1>1, <1>4, <1>5, <1>8, <2>1, <2>2 DEF Memory, At, OwnSame
<1>11. CASE cur # "scr"
  <2>1. cur' \in Objs \ (Whole \union {cur})
    BY <1>1, <1>2, <1>11 DEF Before, Objs
  <2>2. NoDesc.ptr = Null /\ NoDesc.ptrc = Null /\ NoDesc.name = FALSE
    BY DEF NoDesc
  <2>3. At' \in {"name", "open", "map"} /\ (At' = "name" <=> api = "posix") /\
          At' \in CtorPlaces
    BY <1>1, <1>3, <1>11 DEF At, CtorPlaces
  <2>4. \A o \in Objs \ (Whole \union {cur}) : Own(o)' = NoDesc
    BY <1>1, <1>9 DEF OwnSame
  <2>5. At' # "name" => (Live(cur) /\ Named(cur))'
    BY <1>1, <1>9, <2>1, <2>2, <2>3, <2>4 DEF Live, Named
  <2>6. \A o \in Whole' : (Own(o).ptr # Null /\ Named(o) /\ Live(o) /\ o \notin fds)'
    BY <1>1, <1>4, <1>5, <1>7, <1>8 DEF OwnSame
  <2> QED BY <1>1, <1>4, <1>9, <2>1, <2>2, <2>3, <2>4, <2>5, <2>6 DEF Memory
<1> QED BY <1>10, <1>11

\* What the first mapping changes.
LEMMA MapsFirstValue ==
  ASSUME EnvInv, MapsFirst
  PROVE  /\ pc["arbiter"] = "map"
         /\ pc'["arbiter"] = IF cur = "buf" /\ api # "malloc" THEN "above" ELSE "close"
         /\ maps' \in [Procs -> [Place -> {"free", "other"} \union Objs]]
         /\ desc' \in [Objs -> [Procs \union {"chunk"} -> Desc]]
         /\ \E a \in Place :
              /\ maps["arbiter"][a] = "free"
              /\ \A b \in Place : maps'["arbiter"][b] = IF b = a THEN cur
                   ELSE maps["arbiter"][b]
              /\ \A q \in Objs : Own(q)' = IF q = cur THEN [Own(q) EXCEPT !.ptr = a]
                   ELSE Own(q)
         /\ UNCHANGED <<api, str, linked, fds, cur, ret>>
<1>1. PICK a \in Free("arbiter") :
        /\ maps' = [maps EXCEPT !["arbiter"][a] = cur]
        /\ SetDesc(cur, "arbiter", [Of(cur, "arbiter") EXCEPT !.ptr = a])
  BY DEF MapsFirst
<1>2. Typed /\ cur \in Objs /\ "arbiter" \in Procs BY DEF EnvInv, Typed, Procs
<1>3. [Own(cur) EXCEPT !.ptr = a] \in Desc BY <1>2, OwnType DEF Desc, Free
<1>4. a \in Place /\ maps["arbiter"][a] = "free" BY DEF Free
<1>5. SetDesc(cur, "arbiter", [Own(cur) EXCEPT !.ptr = a]) BY <1>1 DEF Own
<1>6. /\ maps' \in [Procs -> [Place -> {"free", "other"} \union Objs]]
      /\ \A b \in Place : maps'["arbiter"][b] = IF b = a THEN cur ELSE maps["arbiter"][b]
  BY <1>1, <1>2, <1>4, MappedValue
<1>7. desc' \in [Objs -> [Procs \union {"chunk"} -> Desc]]
  BY <1>2, <1>3, <1>5, SetDescValue
<1>8. \A q \in Objs : Own(q)' = IF q = cur THEN [Own(cur) EXCEPT !.ptr = a] ELSE Own(q)
  BY <1>2, <1>3, <1>5, OwnValue
<1>9. /\ pc["arbiter"] = "map"
      /\ pc'["arbiter"] = IF cur = "buf" /\ api # "malloc" THEN "above" ELSE "close"
      /\ UNCHANGED <<api, str, linked, fds, cur, ret>>
  BY <1>2 DEF MapsFirst, Goto, Typed
<1> QED BY <1>4, <1>6, <1>7, <1>8, <1>9

\* The first mapping is the one its shm_s has.
LEMMA MapsFirstMapping == ASSUME EnvInv, MapsFirst PROVE Mapping'
<1>1. PICK a \in Place :
              /\ maps["arbiter"][a] = "free"
              /\ \A b \in Place : maps'["arbiter"][b] = IF b = a THEN cur
                   ELSE maps["arbiter"][b]
              /\ \A q \in Objs : Own(q)' = IF q = cur THEN [Own(q) EXCEPT !.ptr = a]
                   ELSE Own(q)
   BY MapsFirstValue
<1>2. pc["arbiter"] = "map" /\ Own(cur).ptr = Null /\ cur \in Objs
   BY MapsFirstValue DEF EnvInv, Memory, At, CtorPlaces, Typed
<1>3. Own(cur).ptrc = Null BY <1>2, OwnType DEF EnvInv, Mapping
<1>4. \A o \in Objs : Own(o) \in Desc BY OwnType DEF EnvInv
<1>5. Null \notin Place BY PlaceAssumption DEF Null, Place
<1> QED BY <1>1, <1>2, <1>3, <1>4, <1>5 DEF EnvInv, Mapping, Held, Desc, Objs

\* And the object under construction has it.
LEMMA MapsFirstMemory == ASSUME EnvInv, MapsFirst PROVE Memory'
<1>1. PICK a \in Place :
              /\ maps["arbiter"][a] = "free"
              /\ \A b \in Place : maps'["arbiter"][b] = IF b = a THEN cur
                   ELSE maps["arbiter"][b]
              /\ \A q \in Objs : Own(q)' = IF q = cur THEN [Own(q) EXCEPT !.ptr = a]
                   ELSE Own(q)
   BY MapsFirstValue
<1>2. /\ pc["arbiter"] = "map" /\ pc'["arbiter"] \in {"above", "close"} /\
           Own(cur).ptr = Null /\ cur \in Objs
      /\ UNCHANGED <<api, str, linked, fds, cur>>
   BY MapsFirstValue DEF EnvInv, Memory, At, CtorPlaces, Typed
<1>3. Own(cur).ptrc = Null BY <1>2, OwnType DEF EnvInv, Mapping
<1>4. \A o \in Objs : Own(o) \in Desc BY OwnType DEF EnvInv
<1>5. a # Null BY PlaceAssumption DEF Null, Place
<1>6. Whole' = Whole /\ cur \notin Whole
  BY <1>2 DEF Whole, At, CtorPlaces, Objs, Before
<1>7. \A q \in Objs : Own(q)'.ptr = (IF q = cur THEN a ELSE Own(q).ptr) /\
        Own(q)'.ptrc = Own(q).ptrc /\ Own(q)'.name = Own(q).name
       /\ (q # cur => Own(q)' = Own(q))
  BY <1>1, <1>4 DEF Desc
<1>8. Whole \subseteq Objs BY <1>2 DEF Whole, At, CtorPlaces, Objs, Before
<1> QED
  BY <1>2, <1>3, <1>5, <1>6, <1>7, <1>8
    DEF EnvInv, Memory, At, CtorPlaces, Live, Named
\* The second mapping of the ring is kept.
Taken(b, at) ==
  LET first == Own("buf").ptr
  IN  /\ b \in Place /\ maps["arbiter"][b] = "free"
      /\ b = first + 1 \/ b + 1 = first
      /\ at \in {"above", "below"}
      /\ Goto("arbiter", at, "close")
      /\ maps' = [maps EXCEPT !["arbiter"][b] = "buf"]
      /\ SetDesc("buf", "arbiter", Circok(first, b))
      /\ UNCHANGED <<api, str, linked, fds, cur, ret>>
Kept(at, next) ==
  /\ Goto("arbiter", at, next)
  /\ UNCHANGED <<api, maps, desc, str, linked, fds, cur, ret>>

\* The second mapping is one or the other.
LEMMA SecondIs ==
  ASSUME NEW at \in {"above", "below"}, NEW next, MapsSecond(at, next)
  PROVE  (\E b \in Place : Taken(b, at)) \/ Kept(at, next)
BY DEF MapsSecond, Taken, Kept, Own, Free

\* What an adjacent mapping changes: the lower one becomes ptr (shmw_posix.c:201-212).
LEMMA TakenValue ==
  ASSUME EnvInv, NEW b, NEW at, Taken(b, at)
  PROVE  LET d == [ptr |-> IF b < Own("buf").ptr THEN b ELSE Own("buf").ptr,
                   ptrc |-> IF b < Own("buf").ptr THEN Own("buf").ptr ELSE b,
                   name |-> Own("buf").name]
         IN  /\ pc["arbiter"] = at /\ at \in {"above", "below"} /\
                  pc'["arbiter"] = "close" /\ cur = "buf"
             /\ b \in Place /\ maps["arbiter"][b] = "free" 
             /\ maps' \in [Procs -> [Place -> {"free", "other"} \union Objs]]
             /\ desc' \in [Objs -> [Procs \union {"chunk"} -> Desc]]
             /\ Own("buf").ptr \in Place /\ Own("buf").ptrc = Null
             /\ b = Own("buf").ptr + 1 \/ b + 1 = Own("buf").ptr
             /\ \A c \in Place : maps'["arbiter"][c] = IF c = b THEN "buf"
                  ELSE maps["arbiter"][c]
             /\ \A q \in Objs : Own(q)' = IF q = "buf" THEN d ELSE Own(q)
             /\ UNCHANGED <<api, str, linked, fds, cur, ret>>
<1> DEFINE d == [ptr |-> IF b < Own("buf").ptr THEN b ELSE Own("buf").ptr,
                   ptrc |-> IF b < Own("buf").ptr THEN Own("buf").ptr ELSE b,
                   name |-> Own("buf").name]
<1>1. /\ Typed /\ b \in Place /\ maps["arbiter"][b] = "free" /\ "arbiter" \in Procs /\
           "buf" \in Objs
      /\ b = Own("buf").ptr + 1 \/ b + 1 = Own("buf").ptr
      /\ pc["arbiter"] = at
      /\ at \in {"above", "below"}
      /\ pc'["arbiter"] = "close"
      /\ maps' = [maps EXCEPT !["arbiter"][b] = "buf"]
      /\ SetDesc("buf", "arbiter", Circok(Own("buf").ptr, b))
      /\ UNCHANGED <<api, str, linked, fds, cur, ret>>
  BY DEF Taken, EnvInv, Typed, Goto, Procs, Objs
<1>2. cur = "buf" BY <1>1 DEF EnvInv, Places, At
<1>3. Own("buf").ptr \in Place /\ Own("buf").ptrc = Null /\ Own("buf") \in Desc
  <2>1. Own("buf") \in Desc BY <1>1, OwnType
  <2> QED BY <1>1, <1>2, <2>1 DEF EnvInv, Memory, At, CtorPlaces, Desc
<1>4. Circok(Own("buf").ptr, b) = d
  <2>1. Circok(Own("buf").ptr, b)
          = [Own("buf") EXCEPT !.ptr = IF b < Own("buf").ptr THEN b ELSE Own("buf").ptr,
                               !.ptrc = IF b < Own("buf").ptr THEN Own("buf").ptr ELSE b]
    BY DEF Circok, Own
  <2> QED BY <1>3, <2>1 DEF Desc
<1>5. d \in Desc BY <1>1, <1>3 DEF Desc
<1> HIDE DEF d
<1>6. SetDesc("buf", "arbiter", d) BY <1>1, <1>4
<1>7. desc' \in [Objs -> [Procs \union {"chunk"} -> Desc]]
  BY <1>1, <1>5, <1>6, SetDescValue
<1>8. \A q \in Objs : Own(q)' = IF q = "buf" THEN d ELSE Own(q)
  BY <1>1, <1>5, <1>6, OwnValue
<1>9. /\ maps' \in [Procs -> [Place -> {"free", "other"} \union Objs]]
      /\ \A c \in Place : maps'["arbiter"][c] = IF c = b THEN "buf" ELSE maps["arbiter"][c]
  BY <1>1, MappedValue
<1> QED BY <1>1, <1>2, <1>3, <1>7, <1>8, <1>9 DEF d

\* The two mappings are the two of the shm_s.
LEMMA TakenMapping == ASSUME EnvInv, NEW b, NEW at, Taken(b, at) PROVE Mapping'
<1> DEFINE lo == IF b < Own("buf").ptr THEN b ELSE Own("buf").ptr
           hi == IF b < Own("buf").ptr THEN Own("buf").ptr ELSE b
<1>1. /\ b \in Place /\ maps["arbiter"][b] = "free" /\ Own("buf").ptr \in Place /\
           Own("buf").ptrc = Null
      /\ b = Own("buf").ptr + 1 \/ b + 1 = Own("buf").ptr
      /\ \A c \in Place : maps'["arbiter"][c] = IF c = b THEN "buf" ELSE maps["arbiter"][c]
      /\ \A q \in Objs \ {"buf"} : Own(q)' = Own(q)
      /\ Own("buf")'.ptr = lo /\ Own("buf")'.ptrc = hi
  BY TakenValue DEF Objs
<1>2. /\ {lo, hi} = {b, Own("buf").ptr}
      /\ hi = lo + 1
      /\ lo \in Place
      /\ hi \in Place
  BY <1>1 DEF Place
<1> HIDE DEF lo, hi
<1>3. Null \notin Place BY PlaceAssumption DEF Null, Place
<1>4. ASSUME NEW o \in Objs \ {"buf"}, NEW a \in Place
      PROVE  (maps["arbiter"][a] = o <=> a \in Held(Own(o)))'
  BY <1>1 DEF EnvInv, Mapping, Held, Objs
<1>5. ASSUME NEW a \in Place
      PROVE  (maps["arbiter"][a] = "buf" <=> a \in Held(Own("buf")))'
  BY <1>1, <1>2, <1>3 DEF EnvInv, Mapping, Held, Objs
<1>6. \A o \in Objs : (Own(o).ptrc # Null => o = "buf" /\ Own(o).ptr # Null /\
        Own(o).ptrc = Own(o).ptr + 1)'
  BY <1>1, <1>2, <1>3 DEF EnvInv, Mapping
<1> QED BY <1>4, <1>5, <1>6 DEF Mapping

\* Nothing else about the objects changes.
LEMMA TakenMemory == ASSUME EnvInv, NEW b, NEW at, Taken(b, at) PROVE Memory'
<1>1. /\ pc["arbiter"] \in {"above", "below"} /\ pc'["arbiter"] = "close" /\ cur = "buf"
      /\ UNCHANGED <<api, str, linked, fds, cur>>
      /\ \A q \in Objs \ {"buf"} : Own(q)' = Own(q)
      /\ Own("buf")'.ptr \in Place /\ Own("buf")'.name = Own("buf").name
  BY TakenValue DEF Objs
<1>2. Null \notin Place BY PlaceAssumption DEF Null, Place
<1>3. Whole' = Whole /\ cur \notin Whole /\ Whole \subseteq Objs
  BY <1>1 DEF Whole, At, CtorPlaces, Objs, Before
<1> QED BY <1>1, <1>2, <1>3 DEF EnvInv, Memory, At, CtorPlaces, Live, Named

\* The child finds the chunk where the arbiter has it, and the ring where its shm_s
\* says (yancat.c:405-431).
LEMMA ForkCopied ==
  ASSUME EnvInv, NEW kid \in Kids, NEW next, Fork(kid, next)
  PROVE  Copied' /\ desc' \in [Objs -> [Procs \union {"chunk"} -> Desc]]
<1> DEFINE c == "chunk"
<1>1. /\ Typed /\ kid \in Procs /\ kid # "arbiter" /\ "arbiter" \in Procs /\
           c \in Objs /\ "buf" \in Objs
  BY DEF EnvInv, Kids, Procs, Objs
<1>2. \A p \in Procs : maps'[p] = IF p = kid THEN maps["arbiter"] ELSE maps[p]
  BY <1>1 DEF Fork, Copies, Typed
<1>3. Own(c) \in Desc BY <1>1, OwnType
<1>4. Holder(c, kid) = kid /\ Of(c, "arbiter") = Own(c) BY DEF Holder, Own
<1> HIDE DEF c
<1>5. desc' = [desc EXCEPT ![c] = [desc[c] EXCEPT ![kid] = Own(c)]]
  BY <1>4 DEF Fork, Copies, c
<1>15. [desc[c] EXCEPT ![kid] = Own(c)] \in [Procs \union {"chunk"} -> Desc]
  BY <1>1, <1>3 DEF Typed
<1>16. desc' \in [Objs -> [Procs \union {"chunk"} -> Desc]]
  BY <1>1, <1>5, <1>15 DEF Typed
<1>17. /\ desc'[c] = [desc[c] EXCEPT ![kid] = Own(c)]
       /\ \A q \in Objs \ {c} : desc'[q] = desc[q]
  BY <1>1, <1>5 DEF Typed
<1>6. Own("buf")' = Own("buf") BY <1>1, <1>17 DEF Own, Of, c
<1>7. \A k \in Kids : Of(c, k)' = IF k = kid THEN Own(c) ELSE Of(c, k)
  BY <1>1, <1>17 DEF Of, Holder, Kids, Procs, Typed, c
<1>8. At \in {"fork_reader", "fork_writer"} BY DEF Fork, ForkAt, At
<1>9. Own(c).ptr # Null /\ Own(c).ptr \in Place
  BY <1>1, <1>3, <1>8 DEF EnvInv, Memory, Whole, CtorPlaces, Desc
<1>10. maps["arbiter"][Own(c).ptr] = c BY <1>1, <1>9 DEF EnvInv, Mapping, Held
<1>11. Own("buf") \in Desc BY <1>1, OwnType
<1>12. Own("buf").ptr # Null => maps["arbiter"][Own("buf").ptr] = "buf"
  BY <1>1, <1>11 DEF EnvInv, Mapping, Held, Desc
<1>13. Own("buf").ptrc # Null => maps["arbiter"][Own("buf").ptrc] = "buf"
  BY <1>1, <1>11 DEF EnvInv, Mapping, Held, Desc
<1>14. \A k \in Kids : k \in Procs /\ (k # kid => pc'[k] = pc[k])
  BY <1>1 DEF Fork, Kids, Procs, Typed
<1>18. ASSUME NEW k \in Kids
       PROVE  /\ pc'[k] \in {"run", "dt_nospace", "dt_vars", "dt_buf"} =>
                 /\ Own("buf")'.ptr # Null => maps'[k][Own("buf")'.ptr] = "buf"
                 /\ Own("buf")'.ptrc # Null => maps'[k][Own("buf")'.ptrc] = "buf"
              /\ pc'[k] = "run" => Of(c, k)'.ptr # Null /\ maps'[k][Of(c, k)'.ptr] = c
  <2>1. CASE k = kid BY <1>1, <1>2, <1>6, <1>7, <1>9, <1>10, <1>12, <1>13, <2>1
  <2>2. CASE k # kid
    BY <1>1, <1>2, <1>6, <1>7, <1>14, <2>2 DEF EnvInv, Copied, c
  <2> QED BY <2>1, <2>2
<1> QED BY <1>16, <1>18 DEF Copied, c

\* fork() leaves the arbiter's view alone.
LEMMA ForkOwn ==
  ASSUME EnvInv, NEW kid \in Kids, NEW next, Fork(kid, next)
  PROVE  OwnSame /\ maps'["arbiter"] = maps["arbiter"]
<1>1. Typed /\ kid # "arbiter" /\ "arbiter" \in Procs /\ "chunk" \in Objs
  BY DEF EnvInv, Kids, Procs, Objs
<1>2. maps'["arbiter"] = maps["arbiter"] BY <1>1 DEF Fork, Copies, Typed
<1>3. ASSUME NEW o \in Objs PROVE Own(o)' = Own(o)
  <2>1. CASE o = "chunk"
    <3>1. desc' = [desc EXCEPT !["chunk"] = [desc["chunk"] EXCEPT ![kid] = Of("chunk",
            "arbiter")]]
      BY DEF Fork, Copies
    <3>2. desc'["chunk"]["arbiter"] = desc["chunk"]["arbiter"]
      BY <1>1, <3>1 DEF Typed
    <3> QED BY <2>1, <3>2 DEF Own, Of, Holder
  <2>2. CASE o # "chunk" BY <1>1, <2>2 DEF Fork, Copies, Typed, Own, Of
  <2> QED BY <2>1, <2>2
<1> QED BY <1>2, <1>3 DEF OwnSame

\* fork() preserves the types.
LEMMA ForkTyped ==
  ASSUME EnvInv, NEW kid \in Kids, NEW next \in {"fork_writer", "wait"},
         Fork(kid, next)
  PROVE  Typed'
<1>1. Typed /\ kid \in Procs /\ "arbiter" \in Procs BY DEF EnvInv, Kids, Procs
<1>2. desc' \in [Objs -> [Procs \union {"chunk"} -> Desc]] BY ForkCopied
<1>3. maps' \in [Procs -> [Place -> {"free", "other"} \union Objs]]
  BY <1>1 DEF Fork, Copies, Typed
<1>4. opened' \in [Procs -> SUBSET Syncs]
  <2>1. opened["arbiter"] \in SUBSET Syncs BY <1>1 DEF Typed
  <2> QED BY <1>1, <2>1 DEF Fork, Typed
<1>5. pc' \in [Procs -> AllPlaces]
  <2>1. {"fork_writer", "wait", "run"} \subseteq AllPlaces
    BY DEF AllPlaces, WorkPlaces, KidPlaces
  <2> QED BY <1>1, <2>1 DEF Fork, Typed
<1>6. UNCHANGED <<api, str, linked, fds, cur, ret, mode, sapi, vapi, sync, exist,
        sname, new>>
  BY DEF Fork, Copies
<1> QED BY <1>1, <1>2, <1>3, <1>4, <1>5, <1>6 DEF Typed

\* What is there while one more is constructed.
LEMMA ReadyAt ==
  ASSUME EnvInv, pc["arbiter"] \in {"make", "make2"}
  PROVE  Ready = Earlier[new] /\ mode # "sp" /\ new \in Syncs /\ new \notin Earlier[new]
<1>1. At \in SyncPlaces BY DEF At, SyncPlaces
<1>2. Ready = Earlier[new] BY <1>1 DEF Ready, SyncPlaces, WorkPlaces
<1>3. mode # "sp" BY <1>1 DEF EnvInv, Places
<1>4. new \in Syncs BY DEF EnvInv, Typed
<1> QED BY <1>2, <1>3, <1>4 DEF Earlier, Syncs

\* semw_ctor() and mtxw_ctor() return
LEMMA MadeAt ==
  ASSUME EnvInv, Made, pc["arbiter"] \in {"make", "make2"}
  PROVE  /\ pc'["arbiter"] \in {"make", "fork_reader", "wait"}
         /\ pc'["arbiter"] = "make" => new # "nodata" /\ new' =
              IF new = "vars" THEN "nospace" ELSE "nodata"
         /\ pc'["arbiter"] # "make" => new = "nodata"
BY DEF Made, EnvInv, Typed, Procs

\* Then one more is there...
LEMMA MadeReady ==
  ASSUME EnvInv, Made, pc["arbiter"] \in {"make", "make2"}, mode' = mode
  PROVE  Ready' = Earlier[new] \union {new}
<1>1. Ready = Earlier[new] /\ mode # "sp" /\ new \in Syncs BY ReadyAt
<1>2. CASE pc'["arbiter"] = "make"
  <2>1. Ready' = Earlier[new']
    BY <1>2 DEF Ready, At, SyncPlaces, Earlier, WorkPlaces
  <2> QED BY <1>1, <1>2, <2>1, MadeAt DEF Earlier, Syncs
<1>3. CASE pc'["arbiter"] # "make"
  <2>1. pc'["arbiter"] \in {"fork_reader", "wait"} /\ new = "nodata"
    BY <1>3, MadeAt
  <2>2. Ready' = Syncs BY <1>1, <2>1 DEF Ready, At, SyncPlaces, WorkPlaces
  <2> QED BY <2>1, <2>2 DEF Earlier, Syncs
<1> QED BY <1>2, <1>3

\* ... or the label undoes what was there before (yancat.c:329-336).
LEMMA NotMadeReady ==
  ASSUME EnvInv, NotMade, pc["arbiter"] \in {"make", "make2"}, mode' = mode
  PROVE  Ready' = Earlier[new] /\ pc'["arbiter"] \in DownPlaces /\ new' = new
<1>1. Ready = Earlier[new] /\ mode # "sp" /\ new \in Syncs BY ReadyAt
<1>2. pc'["arbiter"] = Out[new] /\ new' = new
  BY DEF NotMade, EnvInv, Typed, Procs
<1>3. CASE new = "vars"
  BY <1>1, <1>2, <1>3 DEF Ready, At, Earlier, WorkPlaces, Out, DownPlaces
<1>4. CASE new = "nospace"
  BY <1>1, <1>2, <1>4 DEF Ready, At, Earlier, Out, DownPlaces
<1>5. CASE new = "nodata"
  BY <1>1, <1>2, <1>5 DEF Ready, At, Earlier, Out, DownPlaces
<1> QED BY <1>1, <1>3, <1>4, <1>5 DEF Syncs
\* A step of a constructor leaves all but new alone.
OthersKept ==
  /\ mode' = mode /\ sapi' = sapi /\ vapi' = vapi
  /\ \A o \in Syncs \ {new} :
       /\ sync'[o] = sync[o] /\ (o \in exist' <=> o \in exist) /\ sname'[o] = sname[o]
       /\ o \in opened'["arbiter"] <=> o \in opened["arbiter"]

\* The others stay finished or absent.
LEMMA OthersFinished ==
  ASSUME EnvInv, OthersKept, pc["arbiter"] \in {"make", "make2"}
  PROVE  /\ \A o \in Earlier[new] : Finished(o)'
         /\ \A o \in (Syncs \ Earlier[new]) \ {new} : Absent(o)' /\ sname'[o] = "none"
<1>1. Ready = Earlier[new] /\ new \in Syncs /\ new \notin Earlier[new]
  BY ReadyAt
<1>2. At \in SyncPlaces BY DEF At, SyncPlaces
<1>3. \A o \in Earlier[new] : o \in Syncs \ {new} BY <1>1 DEF Earlier, Syncs
<1>4. \A o \in Syncs \ {new} : (Finished(o)' <=> Finished(o)) /\ (Absent(o)' <=> Absent(o))
  BY SyncKept DEF OthersKept
<1>5. ASSUME NEW o \in Earlier[new] PROVE Finished(o)'
  BY <1>1, <1>3, <1>4 DEF EnvInv, Sems
<1>6. ASSUME NEW o \in (Syncs \ Earlier[new]) \ {new}
      PROVE  Absent(o)' /\ sname'[o] = "none"
  BY <1>1, <1>2, <1>4 DEF EnvInv, Sems, OthersKept
<1> QED BY <1>5, <1>6

\* A constructor has finished new.
LEMMA SemsMade ==
  ASSUME EnvInv, Made, pc["arbiter"] \in {"make", "make2"}, OthersKept, NEW x,
         x = new, Finished(x)'
  PROVE Sems'
<1>1. Ready' = Earlier[new] \union {new} BY MadeReady DEF OthersKept
<1>3. pc'["arbiter"] \in {"make", "fork_reader", "wait"} BY MadeAt
<1>4. \A o \in Ready' : Finished(o)' BY <1>1, OthersFinished
<1>5. \A o \in Syncs \ Ready' : Absent(o)' /\ sname'[o] = "none"
  BY <1>1, OthersFinished
<1> QED BY <1>3, <1>4, <1>5 DEF Sems, At

\* A constructor has failed and left nothing of new.
LEMMA SemsNotMade ==
  ASSUME EnvInv, NotMade, pc["arbiter"] \in {"make", "make2"}, OthersKept,
         NEW x, x = new, Absent(x)'
  PROVE Sems'
<1>1. Ready' = Earlier[new] /\ pc'["arbiter"] \in DownPlaces /\ new' = new
  BY NotMadeReady DEF OthersKept
<1>4. \A o \in Ready' : Finished(o)' BY <1>1, OthersFinished
<1>5. \A o \in Syncs \ Ready' : Absent(o)' BY <1>1, OthersFinished
<1> QED BY <1>1, <1>4, <1>5 DEF Sems, At, CtorPlaces, DownPlaces, SyncPlaces

\* A constructor has taken the first of two steps.
LEMMA SemsGoOn ==
  ASSUME EnvInv, pc["arbiter"] = "make", pc'["arbiter"] = "make2", NEW x,
         new' = x, new = x, OthersKept, Begun(x)'
  PROVE Sems'
<1>1. Ready' = Earlier[new] BY DEF Ready, At, SyncPlaces, Earlier, WorkPlaces
<1>4. \A o \in Ready' : Finished(o)' BY <1>1, OthersFinished
<1>5. \A o \in Syncs \ Ready' : o # new' => Absent(o)' /\ sname'[o] = "none"
  BY <1>1, OthersFinished
<1> QED BY <1>4, <1>5 DEF Sems, At

\* sem_init() and pthread_mutex_init() leave a finished object or none.
LEMMA InitialisesSems == ASSUME EnvInv, Initialises PROVE Sems'
<1> SUFFICES ASSUME NEW x, x = new PROVE Sems' OBVIOUS
<1>1. /\ Typed /\ pc["arbiter"] = "make" /\ x \in Syncs
      /\ mode' = mode
      /\ sapi' = sapi
      /\ vapi' = vapi
      /\ opened' = opened
      /\ sname' = sname
      /\ Kind(x) \in {"unnamed", "mutex"} /\ x = new
  BY DEF EnvInv, Typed, Initialises, Keeps
<1>2. Kind(x)' = Kind(x) BY <1>1 DEF Kind
<1>3. Ready = Earlier[x] /\ x \notin Earlier[x] BY <1>1, ReadyAt
<1>4. x \notin opened["arbiter"] /\ x \notin exist /\ sname[x] = "none"
  BY <1>1, <1>3 DEF EnvInv, Sems, At, SyncPlaces, Absent
<1>5. CASE SetSync(TRUE, TRUE) /\ exist' = exist \union {new} /\ Made
  <2>1. \A o \in Syncs : sync'[o] = IF o = new THEN [set |-> TRUE, name |-> TRUE]
          ELSE sync[o]
    BY <1>1, <1>5, SetSyncValue
  <2>2. OthersKept BY <1>1, <1>5, <2>1 DEF OthersKept
  <2>3. Finished(x)' BY <1>1, <1>2, <1>4, <1>5, <2>1 DEF Finished
  <2> QED BY <1>1, <1>5, <2>2, <2>3, SemsMade
<1>6. CASE SetSync(FALSE, FALSE) /\ UNCHANGED exist /\ NotMade
  <2>1. \A o \in Syncs : sync'[o] = IF o = new THEN [set |-> FALSE, name |-> FALSE]
          ELSE sync[o]
    BY <1>1, <1>6, SetSyncValue
  <2>2. OthersKept BY <1>1, <1>6, <2>1 DEF OthersKept
  <2>3. Absent(x)' BY <1>1, <1>4, <1>6 DEF Absent
  <2> QED BY <1>1, <1>6, <2>2, <2>3, SemsNotMade
<1> QED BY <1>5, <1>6 DEF Initialises

\* A name is made, or nothing.
LEMMA NamesSemSems == ASSUME EnvInv, NamesSem PROVE Sems'
<1> SUFFICES ASSUME NEW x, x = new PROVE Sems' OBVIOUS
<1>1. /\ Typed /\ pc["arbiter"] = "make" /\ x \in Syncs
      /\ mode' = mode
      /\ sapi' = sapi
      /\ vapi' = vapi
      /\ opened' = opened
      /\ exist' = exist
      /\ Kind(x) = "named"
  BY DEF EnvInv, Typed, NamesSem, Keeps
<1>2. Kind(x)' = Kind(x) BY <1>1 DEF Kind
<1>3. Ready = Earlier[x] /\ x \notin Earlier[x] BY <1>1, ReadyAt
<1>4. x \notin opened["arbiter"] /\ x \notin exist /\ sname[x] = "none"
  BY <1>1, <1>3 DEF EnvInv, Sems, At, SyncPlaces, Absent
<1>5. CASE /\ SetSync(FALSE, TRUE) /\ sname' = [sname EXCEPT ![new] = "live"]
           /\ Goto("arbiter", "make", "make2") /\ UNCHANGED <<new, ret>>
  <2>1. \A o \in Syncs : sync'[o] = IF o = new THEN [set |-> FALSE, name |-> TRUE]
          ELSE sync[o]
    BY <1>1, <1>5, SetSyncValue
  <2>2. \A o \in Syncs : sname'[o] = IF o = new THEN "live" ELSE sname[o]
    BY <1>1, <1>5 DEF Typed
  <2>3. OthersKept BY <1>1, <1>5, <2>1, <2>2 DEF OthersKept
  <2>4. Begun(x)' BY <1>1, <1>2, <1>4, <1>5, <2>1, <2>2 DEF Begun
  <2>5. pc'["arbiter"] = "make2" /\ new' = x
    BY <1>1, <1>5 DEF Goto, Typed, Procs
  <2> QED BY <1>1, <2>3, <2>4, <2>5, SemsGoOn
<1>6. CASE SetSync(FALSE, FALSE) /\ UNCHANGED sname /\ NotMade
  <2>1. \A o \in Syncs : sync'[o] = IF o = new THEN [set |-> FALSE, name |-> FALSE]
          ELSE sync[o]
    BY <1>1, <1>6, SetSyncValue
  <2>2. OthersKept BY <1>1, <1>6, <2>1 DEF OthersKept
  <2>3. Absent(x)' BY <1>1, <1>4, <1>6 DEF Absent
  <2> QED BY <1>1, <1>6, <2>2, <2>3, SemsNotMade
<1> QED BY <1>5, <1>6 DEF NamesSem

\* sem_open() leaves a finished semaphore, or the name is freed.
LEMMA OpensSemSems == ASSUME EnvInv, OpensSem PROVE Sems'
<1> SUFFICES ASSUME NEW x, x = new PROVE Sems' OBVIOUS
<1>1. /\ Typed /\ pc["arbiter"] = "make2" /\ x \in Syncs
      /\ mode' = mode /\ sapi' = sapi /\ vapi' = vapi
      /\ Kind(x) = "named"
  BY DEF EnvInv, Typed, OpensSem, Keeps
<1>2. Kind(x)' = Kind(x) BY <1>1 DEF Kind
<1>3. Ready = Earlier[x] /\ x \notin Earlier[x] BY <1>1, ReadyAt
<1>4. Begun(x) BY <1>1, <1>3 DEF EnvInv, Sems, At
<1>5. CASE /\ SetSync(TRUE, TRUE) /\ exist' = exist \union {new}
           /\ opened' = [opened EXCEPT !["arbiter"] = @ \union {new}]
           /\ UNCHANGED sname /\ Made
  <2>1. \A o \in Syncs : sync'[o] = IF o = new THEN [set |-> TRUE, name |-> TRUE]
          ELSE sync[o]
    BY <1>1, <1>5, SetSyncValue
  <2>2. opened'["arbiter"] = opened["arbiter"] \union {new}
    BY <1>1, <1>5 DEF Typed, Procs
  <2>3. OthersKept BY <1>1, <1>5, <2>1, <2>2 DEF OthersKept
  <2>4. Finished(x)' BY <1>1, <1>2, <1>4, <1>5, <2>1, <2>2 DEF Finished, Begun
  <2> QED BY <1>1, <1>5, <2>3, <2>4, SemsMade
<1>6. CASE sname' = FreedName(new) /\ UNCHANGED <<sync, exist, opened>> /\ NotMade
  <2>1. \A o \in Syncs \ {new} : sname'[o] = sname[o]
    BY <1>1, <1>6 DEF FreedName, Typed
  <2>2. sname'[x] = "freed" BY <1>1, <1>4, <1>6 DEF FreedName, Typed, Begun
  <2>3. OthersKept BY <1>1, <1>6, <2>1 DEF OthersKept
  <2>4. Absent(x)' BY <1>1, <1>4, <1>6, <2>2 DEF Absent, Begun
  <2> QED BY <1>1, <1>6, <2>3, <2>4, SemsNotMade
<1> QED BY <1>5, <1>6 DEF OpensSem

\* semget() makes a set, or nothing.
LEMMA GetsSemSems == ASSUME EnvInv, GetsSem PROVE Sems'
<1> SUFFICES ASSUME NEW x, x = new PROVE Sems' OBVIOUS
<1>1. /\ Typed /\ pc["arbiter"] = "make" /\ x \in Syncs
      /\ mode' = mode
      /\ sapi' = sapi
      /\ vapi' = vapi
      /\ opened' = opened
      /\ sname' = sname
      /\ Kind(x) = "sysv"
  BY DEF EnvInv, Typed, GetsSem, Keeps
<1>2. Kind(x)' = Kind(x) BY <1>1 DEF Kind
<1>3. Ready = Earlier[x] /\ x \notin Earlier[x] BY <1>1, ReadyAt
<1>4. x \notin opened["arbiter"] /\ x \notin exist /\ sname[x] = "none"
  BY <1>1, <1>3 DEF EnvInv, Sems, At, SyncPlaces, Absent
<1>5. CASE /\ SetSync(TRUE, FALSE) /\ exist' = exist \union {new}
           /\ Goto("arbiter", "make", "make2") /\ UNCHANGED <<new, ret>>
  <2>1. \A o \in Syncs : sync'[o] = IF o = new THEN [set |-> TRUE, name |-> FALSE]
          ELSE sync[o]
    BY <1>1, <1>5, SetSyncValue
  <2>3. OthersKept BY <1>1, <1>5, <2>1 DEF OthersKept
  <2>4. Begun(x)' BY <1>1, <1>2, <1>4, <1>5, <2>1 DEF Begun
  <2>5. pc'["arbiter"] = "make2" /\ new' = x
    BY <1>1, <1>5 DEF Goto, Typed, Procs
  <2> QED BY <1>1, <2>3, <2>4, <2>5, SemsGoOn
<1>6. CASE SetSync(FALSE, FALSE) /\ UNCHANGED exist /\ NotMade
  <2>1. \A o \in Syncs : sync'[o] = IF o = new THEN [set |-> FALSE, name |-> FALSE]
          ELSE sync[o]
    BY <1>1, <1>6, SetSyncValue
  <2>2. OthersKept BY <1>1, <1>6, <2>1 DEF OthersKept
  <2>3. Absent(x)' BY <1>1, <1>4, <1>6 DEF Absent
  <2> QED BY <1>1, <1>6, <2>2, <2>3, SemsNotMade
<1> QED BY <1>5, <1>6 DEF GetsSem

\* semctl() leaves a finished semaphore, or the set is removed.
LEMMA SetsSemSems == ASSUME EnvInv, SetsSem PROVE Sems'
<1> SUFFICES ASSUME NEW x, x = new PROVE Sems' OBVIOUS
<1>1. /\ Typed /\ pc["arbiter"] = "make2" /\ x \in Syncs
      /\ mode' = mode
      /\ sapi' = sapi
      /\ vapi' = vapi
      /\ opened' = opened
      /\ sname' = sname
      /\ Kind(x) = "sysv"
  BY DEF EnvInv, Typed, SetsSem, Keeps
<1>2. Kind(x)' = Kind(x) BY <1>1 DEF Kind
<1>3. Ready = Earlier[x] /\ x \notin Earlier[x] BY <1>1, ReadyAt
<1>4. Begun(x) BY <1>1, <1>3 DEF EnvInv, Sems, At
<1>5. CASE SetSync(TRUE, TRUE) /\ UNCHANGED exist /\ Made
  <2>1. \A o \in Syncs : sync'[o] = IF o = new THEN [set |-> TRUE, name |-> TRUE]
          ELSE sync[o]
    BY <1>1, <1>5, SetSyncValue
  <2>3. OthersKept BY <1>1, <1>5, <2>1 DEF OthersKept
  <2>4. Finished(x)' BY <1>1, <1>2, <1>4, <1>5, <2>1 DEF Finished, Begun
  <2> QED BY <1>1, <1>5, <2>3, <2>4, SemsMade
<1>6. CASE exist' = exist \ {new} /\ UNCHANGED sync /\ NotMade
  <2>3. OthersKept BY <1>1, <1>6 DEF OthersKept
  <2>4. Absent(x)' BY <1>1, <1>4, <1>6 DEF Absent, Begun
  <2> QED BY <1>1, <1>6, <2>3, <2>4, SemsNotMade
<1> QED BY <1>5, <1>6 DEF SetsSem

\* MakesName preserves the invariant.
LEMMA MakesNameKeeps ==
  ASSUME EnvInv, MakesName, UNCHANGED svars
  PROVE  EnvInv'
<1>1. Typed'
  <2>1. desc' \in [Objs -> [Procs \union {"chunk"} -> Desc]]
    BY SetDescValue DEF EnvInv, Typed, MakesName, Procs, NoDesc, Desc
  <2>2. pc' \in [Procs -> AllPlaces]
    BY DEF EnvInv, Typed, MakesName, Goto, AllPlaces, CtorPlaces
  <2> QED BY <2>1, <2>2 DEF EnvInv, Typed, MakesName, svars
<1>2. Places'
  BY PlaceAssumption DEF EnvInv, MakesName, Places, Goto, Procs, At, CtorPlaces,
       SyncPlaces, DownPlaces, Active
<1>3. Mapping'
  <2>1. \A q \in Objs : Own(q)' = IF q = cur THEN [NoDesc EXCEPT !.name = TRUE] ELSE Own(q)
    BY OwnValue DEF EnvInv, Typed, MakesName, Desc, NoDesc
  <2>2. Own(cur) = NoDesc
    BY DEF EnvInv, Memory, MakesName, Goto, At, CtorPlaces
  <2> QED BY <2>1, <2>2 DEF EnvInv, Mapping, Held, NoDesc, MakesName
<1>4. Memory'
  <2>1. \A q \in Objs : Own(q)' = IF q = cur THEN [NoDesc EXCEPT !.name = TRUE] ELSE Own(q)
    BY OwnValue DEF EnvInv, Typed, MakesName, Desc, NoDesc
  <2> QED
    BY <2>1, PlaceAssumption DEF EnvInv, MakesName, svars, Typed, Places,
         Memory, Whole, Before, Live, Named, Goto, NoDesc, Procs, Objs, At,
         CtorPlaces
<1>5. Copied'
  BY IdleKids DEF EnvInv, MakesName, Goto, Kids, Procs, CtorPlaces
<1>6. Sems'
  BY UntouchedSems DEF EnvInv, MakesName, Ready, CtorPlaces, SyncPlaces, At,
       Goto, Procs, WorkPlaces
<1>7. Inherited'
  BY IdleKids DEF EnvInv, MakesName, Goto, Kids, Procs, CtorPlaces
<1> QED BY <1>1, <1>2, <1>3, <1>4, <1>5, <1>6, <1>7 DEF EnvInv

\* NoName preserves the invariant.
LEMMA NoNameKeeps ==
  ASSUME EnvInv, NoName, UNCHANGED svars
  PROVE  EnvInv'
<1>1. Typed'
  <2>1. desc' \in [Objs -> [Procs \union {"chunk"} -> Desc]]
    BY SetDescValue DEF EnvInv, Typed, NoName, Procs, NoDesc, Desc
  <2>2. pc' \in [Procs -> AllPlaces]
    BY DEF EnvInv, Typed, NoName, Goto, AllPlaces, CtorPlaces
  <2> QED BY <2>1, <2>2 DEF EnvInv, Typed, NoName, svars
<1>2. Places'
  BY PlaceAssumption DEF EnvInv, NoName, Places, Goto, Procs, At, CtorPlaces,
       SyncPlaces, DownPlaces, Active
<1>3. Mapping'
  <2>1. \A q \in Objs : Own(q)' = IF q = cur THEN NoDesc ELSE Own(q)
    BY OwnValue DEF EnvInv, Typed, NoName, Desc, NoDesc
  <2>2. Own(cur) = NoDesc
    BY DEF EnvInv, Memory, NoName, Goto, At, CtorPlaces
  <2> QED BY <2>1, <2>2 DEF EnvInv, Mapping, Held, NoDesc, NoName
<1>4. Memory'
  <2>1. \A q \in Objs : Own(q)' = IF q = cur THEN NoDesc ELSE Own(q)
    BY OwnValue DEF EnvInv, Typed, NoName, Desc, NoDesc
  <2> QED
    BY <2>1, PlaceAssumption DEF EnvInv, NoName, svars, Typed, Memory, Whole,
         Before, Live, Named, Goto, Procs, Objs, At, CtorPlaces
<1>5. Copied'
  BY IdleKids DEF EnvInv, NoName, Goto, Kids, Procs, CtorPlaces
<1>6. Sems'
  BY UntouchedSems DEF EnvInv, NoName, Ready, CtorPlaces, SyncPlaces, At, Goto,
       Procs, WorkPlaces
<1>7. Inherited'
  BY IdleKids DEF EnvInv, NoName, Goto, Kids, Procs, CtorPlaces
<1> QED BY <1>1, <1>2, <1>3, <1>4, <1>5, <1>6, <1>7 DEF EnvInv

\* Opens preserves the invariant.
LEMMA OpensKeeps ==
  ASSUME EnvInv, Opens, UNCHANGED svars
  PROVE  EnvInv'
<1>1. Typed'
  BY PlaceAssumption DEF EnvInv, Opens, svars, Typed, Goto, Procs, AllPlaces,
       CtorPlaces, Null
<1>2. Places'
  BY PlaceAssumption DEF EnvInv, Opens, Places, Goto, Procs, At, CtorPlaces,
       SyncPlaces, DownPlaces, Active
<1>3. Mapping'
  BY UntouchedMapping, OwnKept DEF EnvInv, Opens, svars, Keeps, Goto
<1>4. Memory'
  <2>1. OwnSame BY OwnKept DEF Opens
  <2> QED
    BY <2>1, PlaceAssumption DEF EnvInv, OwnSame, Opens, svars, Typed, Memory,
         Whole, Before, Live, Named, Goto, Procs, Objs, At, CtorPlaces
<1>5. Copied'
  BY IdleKids DEF EnvInv, Opens, Goto, Kids, Procs, CtorPlaces
<1>6. Sems'
  BY UntouchedSems DEF EnvInv, Opens, Ready, CtorPlaces, SyncPlaces, At, Goto,
       Procs, WorkPlaces
<1>7. Inherited'
  BY IdleKids DEF EnvInv, Opens, Goto, Kids, Procs, CtorPlaces
<1> QED BY <1>1, <1>2, <1>3, <1>4, <1>5, <1>6, <1>7 DEF EnvInv

\* CannotOpen preserves the invariant.
LEMMA CannotOpenKeeps ==
  ASSUME EnvInv, CannotOpen, UNCHANGED svars
  PROVE  EnvInv'
<1>1. Typed'
  BY PlaceAssumption DEF EnvInv, CannotOpen, svars, Typed, Goto, FreesName,
       Procs, AllPlaces, CtorPlaces, Null, Freed
<1>2. Places'
  BY PlaceAssumption DEF EnvInv, CannotOpen, Places, Goto, Procs, At,
       CtorPlaces, SyncPlaces, DownPlaces, Active
<1>3. Mapping'
  BY UntouchedMapping, OwnKept DEF EnvInv, CannotOpen
<1>4. Memory'
  <2>1. OwnSame BY OwnKept DEF CannotOpen
  <2> QED
    BY <2>1, PlaceAssumption DEF EnvInv, OwnSame, CannotOpen, svars, Typed,
         Memory, Whole, Before, Live, Named, Goto, FreesName, Procs, Objs, At,
         CtorPlaces, Freed
<1>5. Copied'
  BY IdleKids DEF EnvInv, CannotOpen, Goto, Kids, Procs, CtorPlaces
<1>6. Sems'
  BY UntouchedSems DEF EnvInv, CannotOpen, Ready, CtorPlaces, SyncPlaces, At,
       Goto, Procs, WorkPlaces
<1>7. Inherited'
  BY IdleKids DEF EnvInv, CannotOpen, Goto, Kids, Procs, CtorPlaces
<1> QED BY <1>1, <1>2, <1>3, <1>4, <1>5, <1>6, <1>7 DEF EnvInv

\* MapsFirst preserves the invariant.
LEMMA MapsFirstKeeps ==
  ASSUME EnvInv, MapsFirst, UNCHANGED svars
  PROVE  EnvInv'
<1>1. Typed'
  <2>1. /\ maps' \in [Procs -> [Place -> {"free", "other"} \union Objs]]
        /\ desc' \in [Objs -> [Procs \union {"chunk"} -> Desc]]
    BY MapsFirstValue
  <2> QED
    BY <2>1, PlaceAssumption DEF EnvInv, MapsFirst, svars, Typed, Goto, Procs,
         AllPlaces, CtorPlaces, Null
<1>2. Places'
  BY PlaceAssumption DEF EnvInv, MapsFirst, Places, Goto, Procs, At, CtorPlaces,
       SyncPlaces, DownPlaces, Active
<1>3. Mapping'
  BY MapsFirstMapping
<1>4. Memory'
  BY MapsFirstMemory
<1>5. Copied'
  BY IdleKids DEF EnvInv, MapsFirst, Goto, Kids, Procs, CtorPlaces
<1>6. Sems'
  BY UntouchedSems DEF EnvInv, MapsFirst, Ready, CtorPlaces, SyncPlaces, At,
       Goto, Procs, WorkPlaces
<1>7. Inherited'
  BY IdleKids DEF EnvInv, MapsFirst, Goto, Kids, Procs, CtorPlaces
<1> QED BY <1>1, <1>2, <1>3, <1>4, <1>5, <1>6, <1>7 DEF EnvInv

\* CannotMap preserves the invariant.
LEMMA CannotMapKeeps ==
  ASSUME EnvInv, CannotMap, UNCHANGED svars
  PROVE  EnvInv'
<1>1. Typed'
  BY PlaceAssumption DEF EnvInv, CannotMap, svars, Typed, Goto, FreesName,
       Procs, AllPlaces, CtorPlaces, Null, Freed
<1>2. Places'
  BY PlaceAssumption DEF EnvInv, CannotMap, Places, Goto, Procs, At, CtorPlaces,
       SyncPlaces, DownPlaces, Active
<1>3. Mapping'
  BY UntouchedMapping, OwnKept DEF EnvInv, CannotMap
<1>4. Memory'
  <2>1. OwnSame BY OwnKept DEF CannotMap
  <2> QED
    BY <2>1, PlaceAssumption DEF EnvInv, OwnSame, CannotMap, svars, Typed,
         Memory, Whole, Before, Live, Named, Goto, FreesName, Procs, Objs, At,
         CtorPlaces, Freed
<1>5. Copied'
  BY IdleKids DEF EnvInv, CannotMap, Goto, Kids, Procs, CtorPlaces
<1>6. Sems'
  BY UntouchedSems DEF EnvInv, CannotMap, Ready, CtorPlaces, SyncPlaces, At,
       Goto, Procs, WorkPlaces
<1>7. Inherited'
  BY IdleKids DEF EnvInv, CannotMap, Goto, Kids, Procs, CtorPlaces
<1> QED BY <1>1, <1>2, <1>3, <1>4, <1>5, <1>6, <1>7 DEF EnvInv

\* Closes preserves the invariant.
LEMMA ClosesKeeps ==
  ASSUME EnvInv, Closes, UNCHANGED svars
  PROVE  EnvInv'
<1>1. Typed'
  BY PlaceAssumption DEF EnvInv, Closes, svars, Typed, Goto, Entry, Procs, Objs,
       AllPlaces, CtorPlaces, Null
<1>2. Places'
  BY PlaceAssumption DEF EnvInv, Closes, Typed, Places, Goto, Entry, Procs, At,
       CtorPlaces, SyncPlaces, DownPlaces, Active
<1>3. Mapping'
  BY UntouchedMapping, OwnKept DEF EnvInv, Closes, svars, Keeps, Goto, Entry
<1>4. Memory'
  BY ClosesMemory
<1>5. Copied'
  BY IdleKids DEF EnvInv, Closes, Goto, Kids, Procs, CtorPlaces
<1>6. Sems'
  BY UntouchedSems DEF EnvInv, Closes, Typed, Ready, CtorPlaces, SyncPlaces, At,
       Goto, Entry, Procs, WorkPlaces
<1>7. Inherited'
  BY IdleKids DEF EnvInv, Closes, Goto, Kids, Procs, CtorPlaces
<1> QED BY <1>1, <1>2, <1>3, <1>4, <1>5, <1>6, <1>7 DEF EnvInv

\* Fails preserves the invariant.
LEMMA FailsKeeps ==
  ASSUME EnvInv, Fails, UNCHANGED svars
  PROVE  EnvInv'
<1>1. Typed'
  BY PlaceAssumption DEF EnvInv, Fails, svars, Typed, Goto, Undo, Procs, Objs,
       AllPlaces, DownPlaces, Null
<1>2. Places'
  BY PlaceAssumption DEF EnvInv, Fails, Typed, Places, Goto, Undo, Procs, Objs,
       At, SyncPlaces, DownPlaces, Active
<1>3. Mapping'
  BY UntouchedMapping, OwnKept DEF EnvInv, Fails, svars, Keeps, Goto, Undo
<1>4. Memory'
  <2>1. OwnSame BY OwnKept DEF Fails
  <2> QED
    BY <2>1, PlaceAssumption DEF EnvInv, OwnSame, Fails, svars, Typed, Memory,
         Whole, Before, Live, Named, Goto, Undo, Procs, Objs, At, CtorPlaces
<1>5. Copied'
  BY IdleKids DEF EnvInv, Fails, Goto, Kids, Procs, CtorPlaces
<1>6. Sems'
  BY UntouchedSems DEF EnvInv, Fails, Typed, Ready, CtorPlaces, SyncPlaces, At,
       Goto, Undo, Procs, Objs, WorkPlaces
<1>7. Inherited'
  BY IdleKids DEF EnvInv, Fails, Goto, Kids, Procs, CtorPlaces
<1> QED BY <1>1, <1>2, <1>3, <1>4, <1>5, <1>6, <1>7 DEF EnvInv

\* SetsMode preserves the invariant.
LEMMA SetsModeKeeps ==
  ASSUME EnvInv, SetsMode
  PROVE  EnvInv'
<1>1. Typed'
  BY PlaceAssumption DEF EnvInv, SetsMode, Typed, Goto, Procs, AllPlaces, Syncs,
       SyncPlaces, WorkPlaces, Null
<1>2. Places'
  BY PlaceAssumption DEF EnvInv, SetsMode, Places, Goto, Procs, At, SyncPlaces,
       WorkPlaces, DownPlaces, Active
<1>3. Mapping'
  BY UntouchedMapping, OwnKept DEF EnvInv, SetsMode, Keeps, Goto
<1>4. Memory'
  BY UntouchedAfter, OwnKept DEF EnvInv, SetsMode, Whole, CtorPlaces, At, Goto,
       Procs, vars
<1>5. Copied'
  BY IdleKids DEF EnvInv, SetsMode, Goto, Kids, Procs
<1>6. Sems'
  BY PlaceAssumption DEF EnvInv, SetsMode, Sems, Ready, Earlier, Finished,
       Absent, Begun, Goto, Procs, At, SyncPlaces, WorkPlaces, vars
<1>7. Inherited'
  BY IdleKids DEF EnvInv, SetsMode, Goto, Kids, Procs
<1> QED BY <1>1, <1>2, <1>3, <1>4, <1>5, <1>6, <1>7 DEF EnvInv

\* RejectsPoints preserves the invariant.
LEMMA RejectsPointsKeeps ==
  ASSUME EnvInv, RejectsPoints
  PROVE  EnvInv'
<1>1. Typed'
  BY PlaceAssumption DEF EnvInv, RejectsPoints, Typed, Goto, svars, Procs,
       AllPlaces, DownPlaces, Null
<1>2. Places'
  BY PlaceAssumption DEF EnvInv, RejectsPoints, Typed, Places, Goto, Procs, At,
       SyncPlaces, DownPlaces, KidPlaces
<1>3. Mapping'
  BY UntouchedMapping, OwnKept DEF EnvInv, RejectsPoints, Keeps, Goto, svars
<1>4. Memory'
  BY UntouchedAfter, OwnKept DEF EnvInv, RejectsPoints, Whole, CtorPlaces, At,
       Goto, Procs, vars
<1>5. Copied'
  BY IdleKids DEF EnvInv, RejectsPoints, Goto, Kids, Procs
<1>6. Sems'
  BY PlaceAssumption DEF EnvInv, RejectsPoints, Sems, Ready, Earlier, Finished,
       Absent, Begun, Goto, svars, Procs, At, SyncPlaces, WorkPlaces, vars, Kind
<1>7. Inherited'
  BY IdleKids DEF EnvInv, RejectsPoints, Goto, Kids, Procs
<1> QED BY <1>1, <1>2, <1>3, <1>4, <1>5, <1>6, <1>7 DEF EnvInv

\* Initialises preserves the invariant.
LEMMA InitialisesKeeps ==
  ASSUME EnvInv, Initialises
  PROVE  EnvInv'
<1>1. Typed'
  <2>1. sync' \in [Syncs -> [set: BOOLEAN, name: BOOLEAN]]
    BY SetSyncValue DEF EnvInv, Typed, Initialises
  <2>2. pc' \in [Procs -> AllPlaces] BY MadePlaces DEF EnvInv, Initialises
  <2>3. new' \in Syncs /\ ret' \in {0, -1}
    BY DEF EnvInv, Typed, Initialises, Made, NotMade, Syncs
  <2>4. exist' \subseteq Syncs
    BY DEF EnvInv, Typed, Initialises
  <2>5. opened' \in [Procs -> SUBSET Syncs]
    BY DEF EnvInv, Typed, Initialises, Procs
  <2>6. sname' \in [Syncs -> {"none", "live", "freed", "freed_again"}]
    BY DEF EnvInv, Typed, Initialises, FreedName
  <2>7. UNCHANGED <<api, maps, desc, str, linked, fds, cur, mode, sapi, vapi>>
    BY DEF Initialises, Keeps
  <2> QED BY <2>1, <2>2, <2>3, <2>4, <2>5, <2>6, <2>7 DEF EnvInv, Typed
<1>2. Places'
  BY PlaceAssumption DEF EnvInv, Initialises, Typed, Places, SetSync, Made,
       NotMade, Keeps, Procs, Syncs, At, CtorPlaces, WorkPlaces, DownPlaces,
       Active, Out, vars
<1>3. Mapping'
  BY UntouchedMapping, OwnKept DEF EnvInv, Initialises, Keeps, SetSync, vars
<1>4. Memory'
  BY UntouchedAfter, OwnKept DEF EnvInv, Initialises, Whole, Typed, CtorPlaces,
       At, Out, SetSync, Made, NotMade, Keeps, Syncs, vars
<1>5. Copied'
  BY IdleKids DEF EnvInv, Initialises, Goto, Typed, Kids, Procs, SyncPlaces,
       SetSync, Made, NotMade, Out, vars
<1>6. Sems'
  BY InitialisesSems
<1>7. Inherited'
  BY IdleKids DEF EnvInv, Initialises, Goto, Typed, Kids, Procs, SyncPlaces,
       SetSync, Made, NotMade, Out, vars
<1> QED BY <1>1, <1>2, <1>3, <1>4, <1>5, <1>6, <1>7 DEF EnvInv

\* NamesSem preserves the invariant.
LEMMA NamesSemKeeps ==
  ASSUME EnvInv, NamesSem
  PROVE  EnvInv'
<1>1. Typed'
  <2>1. sync' \in [Syncs -> [set: BOOLEAN, name: BOOLEAN]]
    BY SetSyncValue DEF EnvInv, Typed, NamesSem
  <2>2. pc' \in [Procs -> AllPlaces] BY MadePlaces DEF EnvInv, NamesSem
  <2>3. new' \in Syncs /\ ret' \in {0, -1}
    BY DEF EnvInv, Typed, NamesSem, Made, NotMade, Syncs
  <2>4. exist' \subseteq Syncs
    BY DEF EnvInv, Typed, NamesSem
  <2>5. opened' \in [Procs -> SUBSET Syncs]
    BY DEF EnvInv, Typed, NamesSem, Procs
  <2>6. sname' \in [Syncs -> {"none", "live", "freed", "freed_again"}]
    BY DEF EnvInv, Typed, NamesSem, FreedName
  <2>7. UNCHANGED <<api, maps, desc, str, linked, fds, cur, mode, sapi, vapi>>
    BY DEF NamesSem, Keeps
  <2> QED BY <2>1, <2>2, <2>3, <2>4, <2>5, <2>6, <2>7 DEF EnvInv, Typed
<1>2. Places'
  BY PlaceAssumption DEF EnvInv, NamesSem, Typed, Places, SetSync, Goto,
       NotMade, Keeps, Procs, Syncs, At, SyncPlaces, DownPlaces, Kids, Active,
       Out, vars
<1>3. Mapping'
  BY UntouchedMapping, OwnKept DEF EnvInv, NamesSem, Keeps, SetSync, vars
<1>4. Memory'
  BY UntouchedAfter, OwnKept DEF EnvInv, NamesSem, Whole, Typed, CtorPlaces, At,
       Out, SetSync, Goto, NotMade, Keeps, Procs, Syncs, vars
<1>5. Copied'
  BY IdleKids DEF EnvInv, NamesSem, Goto, Typed, Kids, Procs, SyncPlaces,
       SetSync, NotMade, Out, vars
<1>6. Sems'
  BY NamesSemSems
<1>7. Inherited'
  BY IdleKids DEF EnvInv, NamesSem, Goto, Typed, Kids, Procs, SyncPlaces,
       SetSync, NotMade, Out, vars
<1> QED BY <1>1, <1>2, <1>3, <1>4, <1>5, <1>6, <1>7 DEF EnvInv

\* OpensSem preserves the invariant.
LEMMA OpensSemKeeps ==
  ASSUME EnvInv, OpensSem
  PROVE  EnvInv'
<1>1. Typed'
  <2>1. sync' \in [Syncs -> [set: BOOLEAN, name: BOOLEAN]]
    BY SetSyncValue DEF EnvInv, Typed, OpensSem
  <2>2. pc' \in [Procs -> AllPlaces] BY MadePlaces DEF EnvInv, OpensSem
  <2>3. new' \in Syncs /\ ret' \in {0, -1}
    BY DEF EnvInv, Typed, OpensSem, Made, NotMade, Syncs
  <2>4. exist' \subseteq Syncs
    BY DEF EnvInv, Typed, OpensSem
  <2>5. opened' \in [Procs -> SUBSET Syncs]
    <3>1. opened["arbiter"] \union {new} \in SUBSET Syncs
      BY DEF EnvInv, Typed, Procs
    <3> QED BY <3>1 DEF EnvInv, Typed, OpensSem
  <2>6. sname' \in [Syncs -> {"none", "live", "freed", "freed_again"}]
    BY DEF EnvInv, Typed, OpensSem, FreedName
  <2>7. UNCHANGED <<api, maps, desc, str, linked, fds, cur, mode, sapi, vapi>>
    BY DEF OpensSem, Keeps
  <2> QED BY <2>1, <2>2, <2>3, <2>4, <2>5, <2>6, <2>7 DEF EnvInv, Typed
<1>2. Places'
  BY PlaceAssumption DEF EnvInv, OpensSem, Typed, Places, SetSync, Made,
       FreedName, NotMade, Keeps, Procs, Syncs, At, SyncPlaces, WorkPlaces,
       DownPlaces, KidPlaces, Active, Out, vars
<1>3. Mapping'
  BY UntouchedMapping, OwnKept DEF EnvInv, OpensSem, Keeps, SetSync, FreedName,
       vars
<1>4. Memory'
  BY UntouchedAfter, OwnKept DEF EnvInv, OpensSem, Whole, Typed, CtorPlaces, At,
       Out, SetSync, Made, FreedName, NotMade, Keeps, Syncs, vars
<1>5. Copied'
  BY IdleKids DEF EnvInv, OpensSem, Goto, Typed, Kids, Procs, SyncPlaces,
       SetSync, Made, FreedName, NotMade, Out, vars
<1>6. Sems'
  BY OpensSemSems
<1>7. Inherited'
  BY IdleKids DEF EnvInv, OpensSem, Goto, Typed, Kids, Procs, SyncPlaces,
       SetSync, Made, FreedName, NotMade, Out, vars
<1> QED BY <1>1, <1>2, <1>3, <1>4, <1>5, <1>6, <1>7 DEF EnvInv

\* GetsSem preserves the invariant.
LEMMA GetsSemKeeps ==
  ASSUME EnvInv, GetsSem
  PROVE  EnvInv'
<1>1. Typed'
  <2>1. sync' \in [Syncs -> [set: BOOLEAN, name: BOOLEAN]]
    BY SetSyncValue DEF EnvInv, Typed, GetsSem
  <2>2. pc' \in [Procs -> AllPlaces] BY MadePlaces DEF EnvInv, GetsSem
  <2>3. new' \in Syncs /\ ret' \in {0, -1}
    BY DEF EnvInv, Typed, GetsSem, Made, NotMade, Syncs
  <2>4. exist' \subseteq Syncs
    BY DEF EnvInv, Typed, GetsSem
  <2>5. opened' \in [Procs -> SUBSET Syncs]
    BY DEF EnvInv, Typed, GetsSem, Procs
  <2>6. sname' \in [Syncs -> {"none", "live", "freed", "freed_again"}]
    BY DEF EnvInv, Typed, GetsSem, FreedName
  <2>7. UNCHANGED <<api, maps, desc, str, linked, fds, cur, mode, sapi, vapi>>
    BY DEF GetsSem, Keeps
  <2> QED BY <2>1, <2>2, <2>3, <2>4, <2>5, <2>6, <2>7 DEF EnvInv, Typed
<1>2. Places'
  BY PlaceAssumption DEF EnvInv, GetsSem, Typed, Places, SetSync, Goto, NotMade,
       Keeps, Procs, Syncs, At, SyncPlaces, DownPlaces, Kids, Active, Out, vars
<1>3. Mapping'
  BY UntouchedMapping, OwnKept DEF EnvInv, GetsSem, Keeps, SetSync, vars
<1>4. Memory'
  BY UntouchedAfter, OwnKept DEF EnvInv, GetsSem, Whole, Typed, CtorPlaces, At,
       Out, SetSync, Goto, NotMade, Keeps, Procs, Syncs, vars
<1>5. Copied'
  BY IdleKids DEF EnvInv, GetsSem, Goto, Typed, Kids, Procs, SyncPlaces,
       SetSync, NotMade, Out, vars
<1>6. Sems'
  BY GetsSemSems
<1>7. Inherited'
  BY IdleKids DEF EnvInv, GetsSem, Goto, Typed, Kids, Procs, SyncPlaces,
       SetSync, NotMade, Out, vars
<1> QED BY <1>1, <1>2, <1>3, <1>4, <1>5, <1>6, <1>7 DEF EnvInv

\* SetsSem preserves the invariant.
LEMMA SetsSemKeeps ==
  ASSUME EnvInv, SetsSem
  PROVE  EnvInv'
<1>1. Typed'
  <2>1. sync' \in [Syncs -> [set: BOOLEAN, name: BOOLEAN]]
    BY SetSyncValue DEF EnvInv, Typed, SetsSem
  <2>2. pc' \in [Procs -> AllPlaces] BY MadePlaces DEF EnvInv, SetsSem
  <2>3. new' \in Syncs /\ ret' \in {0, -1}
    BY DEF EnvInv, Typed, SetsSem, Made, NotMade, Syncs
  <2>4. exist' \subseteq Syncs
    BY DEF EnvInv, Typed, SetsSem
  <2>5. opened' \in [Procs -> SUBSET Syncs]
    BY DEF EnvInv, Typed, SetsSem, Procs
  <2>6. sname' \in [Syncs -> {"none", "live", "freed", "freed_again"}]
    BY DEF EnvInv, Typed, SetsSem, FreedName
  <2>7. UNCHANGED <<api, maps, desc, str, linked, fds, cur, mode, sapi, vapi>>
    BY DEF SetsSem, Keeps
  <2> QED BY <2>1, <2>2, <2>3, <2>4, <2>5, <2>6, <2>7 DEF EnvInv, Typed
<1>2. Places'
  BY PlaceAssumption DEF EnvInv, SetsSem, Typed, Places, SetSync, Made, NotMade,
       Keeps, Procs, Syncs, At, SyncPlaces, WorkPlaces, DownPlaces, Active, Out,
       vars
<1>3. Mapping'
  BY UntouchedMapping, OwnKept DEF EnvInv, SetsSem, Keeps, SetSync, vars
<1>4. Memory'
  BY UntouchedAfter, OwnKept DEF EnvInv, SetsSem, Whole, Typed, CtorPlaces, At,
       Out, SetSync, Made, NotMade, Keeps, Syncs, vars
<1>5. Copied'
  BY IdleKids DEF EnvInv, SetsSem, Goto, Typed, Kids, Procs, SyncPlaces,
       SetSync, Made, NotMade, Out, vars
<1>6. Sems'
  BY SetsSemSems
<1>7. Inherited'
  BY IdleKids DEF EnvInv, SetsSem, Goto, Typed, Kids, Procs, SyncPlaces,
       SetSync, Made, NotMade, Out, vars
<1> QED BY <1>1, <1>2, <1>3, <1>4, <1>5, <1>6, <1>7 DEF EnvInv

\* fork() of the reader preserves the invariant.
LEMMA ForksReaderKeeps ==
  ASSUME EnvInv, Fork("reader", "fork_writer")
  PROVE  EnvInv'
<1>1. Typed'
  BY ForkTyped DEF Kids
<1>2. Places'
  BY PlaceAssumption DEF EnvInv, Fork, Typed, Places, ForkAt, Copies, Procs, At,
       WorkPlaces, DownPlaces, KidPlaces
<1>3. Mapping'
  BY ForkOwn, UntouchedMapping DEF Kids, EnvInv
<1>4. Memory'
  <2>1. OwnSame BY ForkOwn DEF Kids
  <2> QED
    BY <2>1, UntouchedAfter DEF EnvInv, Fork, Whole, Typed, CtorPlaces, At,
         ForkAt, Copies, Procs
<1>5. Copied'
  BY ForkCopied DEF Kids
<1>6. Sems'
  BY PlaceAssumption DEF EnvInv, Fork, Typed, Sems, Ready, Earlier, Finished,
       Absent, Begun, ForkAt, Copies, Procs, At, CtorPlaces, SyncPlaces,
       WorkPlaces, vars, Kind
<1>7. Inherited'
  BY PlaceAssumption DEF EnvInv, Fork, Typed, Places, Inherited, Sems, Ready,
       Finished, ForkAt, Copies, Procs, At, WorkPlaces, Kind
<1> QED BY <1>1, <1>2, <1>3, <1>4, <1>5, <1>6, <1>7 DEF EnvInv

\* fork() of the writer preserves the invariant.
LEMMA ForksWriterKeeps ==
  ASSUME EnvInv, Fork("writer", "wait")
  PROVE  EnvInv'
<1>1. Typed'
  BY ForkTyped DEF Kids
<1>2. Places'
  BY PlaceAssumption DEF EnvInv, Fork, Typed, Places, ForkAt, Copies, Procs, At,
       WorkPlaces, DownPlaces, KidPlaces
<1>3. Mapping'
  BY ForkOwn, UntouchedMapping DEF Kids, EnvInv
<1>4. Memory'
  <2>1. OwnSame BY ForkOwn DEF Kids
  <2> QED
    BY <2>1, UntouchedAfter DEF EnvInv, Fork, Whole, Typed, CtorPlaces, At,
         ForkAt, Copies, Procs
<1>5. Copied'
  BY ForkCopied DEF Kids
<1>6. Sems'
  BY PlaceAssumption DEF EnvInv, Fork, Typed, Sems, Ready, Earlier, Finished,
       Absent, Begun, ForkAt, Copies, Procs, At, CtorPlaces, SyncPlaces,
       WorkPlaces, vars, Kind
<1>7. Inherited'
  BY PlaceAssumption DEF EnvInv, Fork, Typed, Places, Inherited, Sems, Ready,
       Finished, ForkAt, Copies, Procs, At, WorkPlaces, Kind
<1> QED BY <1>1, <1>2, <1>3, <1>4, <1>5, <1>6, <1>7 DEF EnvInv

\* CannotFork preserves the invariant.
LEMMA CannotForkKeeps ==
  ASSUME EnvInv, CannotFork
  PROVE  EnvInv'
<1>1. Typed'
  BY PlaceAssumption DEF EnvInv, CannotFork, Typed, Goto, ForkAt, svars, Procs,
       AllPlaces, DownPlaces, Null
<1>2. Places'
  BY PlaceAssumption DEF EnvInv, CannotFork, Typed, Places, Goto, ForkAt, svars,
       Procs, At, DownPlaces, KidPlaces
<1>3. Mapping'
  BY UntouchedMapping, OwnKept DEF EnvInv, CannotFork, ForkAt
<1>4. Memory'
  BY UntouchedAfter, OwnKept DEF EnvInv, CannotFork, Whole, CtorPlaces, At,
       Goto, ForkAt, Procs, vars
<1>5. Copied'
  BY KidsCopied DEF EnvInv, CannotFork, Goto, Procs, Copied, ForkAt
<1>6. Sems'
  BY PlaceAssumption DEF EnvInv, CannotFork, Places, Sems, Ready, Earlier,
       Finished, Absent, Begun, Goto, ForkAt, svars, Procs, At, WorkPlaces,
       vars, Kind
<1>7. Inherited'
  BY PlaceAssumption DEF EnvInv, CannotFork, Inherited, Sems, Ready, Finished,
       Goto, ForkAt, svars, Procs, Kind
<1> QED BY <1>1, <1>2, <1>3, <1>4, <1>5, <1>6, <1>7 DEF EnvInv

\* semw_dt() of nodata preserves the invariant.
LEMMA DetachesNodataKeeps ==
  ASSUME EnvInv, NEW kid \in Kids, Detaches(kid, "nodata", "run", "dt_nospace")
  PROVE  EnvInv'
<1>1. Typed'
  BY PlaceAssumption DEF EnvInv, Detaches, Typed, Goto, SyncDt, Procs,
       AllPlaces, KidPlaces, Null
<1>2. Places'
  BY PlaceAssumption DEF EnvInv, Detaches, Places, Goto, SyncDt, Procs, At,
       DownPlaces, KidPlaces, Active
<1>3. Mapping'
  BY UntouchedMapping, OwnKept DEF EnvInv, Detaches, Keeps, Goto, SyncDt
<1>4. Memory'
  BY UntouchedMemory, OwnKept DEF EnvInv, Detaches, Kids, Procs, Goto, SyncDt
<1>5. Copied'
  BY KidsCopied DEF EnvInv, Detaches, Goto, Procs, Copied, SyncDt
<1>6. Sems'
  BY SameSems DEF EnvInv, Detaches, Goto, Procs, Kids, SyncDt
<1>7. Inherited'
  BY PlaceAssumption DEF EnvInv, Detaches, Typed, Inherited, Sems, Ready,
       Finished, Goto, SyncDt, Procs, Kind
<1> QED BY <1>1, <1>2, <1>3, <1>4, <1>5, <1>6, <1>7 DEF EnvInv

\* semw_dt() of nospace preserves the invariant.
LEMMA DetachesNospaceKeeps ==
  ASSUME EnvInv, NEW kid \in Kids,
         Detaches(kid, "nospace", "dt_nospace", "dt_vars")
  PROVE  EnvInv'
<1>1. Typed'
  BY PlaceAssumption DEF EnvInv, Detaches, Typed, Goto, SyncDt, Procs,
       AllPlaces, KidPlaces, Null
<1>2. Places'
  BY PlaceAssumption DEF EnvInv, Detaches, Places, Goto, SyncDt, Procs, At,
       DownPlaces, KidPlaces, Active
<1>3. Mapping'
  BY UntouchedMapping, OwnKept DEF EnvInv, Detaches, Keeps, Goto, SyncDt
<1>4. Memory'
  BY UntouchedMemory, OwnKept DEF EnvInv, Detaches, Kids, Procs, Goto, SyncDt
<1>5. Copied'
  BY KidsCopied DEF EnvInv, Detaches, Goto, Procs, Copied, SyncDt
<1>6. Sems'
  BY SameSems DEF EnvInv, Detaches, Goto, Procs, Kids, SyncDt
<1>7. Inherited'
  BY PlaceAssumption DEF EnvInv, Detaches, Inherited, Sems, Ready, Finished,
       Goto, SyncDt, Procs, Kind
<1> QED BY <1>1, <1>2, <1>3, <1>4, <1>5, <1>6, <1>7 DEF EnvInv

\* mtxw_dt() of vars preserves the invariant.
LEMMA DetachesVarsKeeps ==
  ASSUME EnvInv, NEW kid \in Kids, Detaches(kid, "vars", "dt_vars", "dt_buf")
  PROVE  EnvInv'
<1>1. Typed'
  BY PlaceAssumption DEF EnvInv, Detaches, Typed, Goto, SyncDt, Procs,
       AllPlaces, KidPlaces, Null
<1>2. Places'
  BY PlaceAssumption DEF EnvInv, Detaches, Places, Goto, SyncDt, Procs, At,
       DownPlaces, KidPlaces, Active
<1>3. Mapping'
  BY UntouchedMapping, OwnKept DEF EnvInv, Detaches, Keeps, Goto, SyncDt
<1>4. Memory'
  BY UntouchedMemory, OwnKept DEF EnvInv, Detaches, Kids, Procs, Goto, SyncDt
<1>5. Copied'
  BY KidsCopied DEF EnvInv, Detaches, Goto, Procs, Copied, SyncDt
<1>6. Sems'
  BY SameSems DEF EnvInv, Detaches, Goto, Procs, Kids, SyncDt
<1>7. Inherited'
  BY PlaceAssumption DEF EnvInv, Detaches, Inherited, Sems, Ready, Finished,
       Goto, SyncDt, Procs, Kind
<1> QED BY <1>1, <1>2, <1>3, <1>4, <1>5, <1>6, <1>7 DEF EnvInv

\* Detaching from the memory preserves the invariant.
LEMMA DetachesMemoryKeeps ==
  ASSUME EnvInv, NEW kid \in Kids, DetachesMemory(kid), UNCHANGED svars
  PROVE  EnvInv'
<1>1. Typed'
  <2>1. pc' \in [Procs -> AllPlaces]
    BY DEF EnvInv, Typed, DetachesMemory, AllPlaces, KidPlaces, Goto
  <2> QED BY <2>1, DetachesUntouched DEF EnvInv, Typed, svars
<1>2. Places'
  BY PlaceAssumption DEF EnvInv, DetachesMemory, svars, Typed, Places, Goto,
       Detach, Procs, At, Kids, KidPlaces, Active
<1>3. Mapping'
  BY DetachesUntouched, UntouchedMapping DEF EnvInv
<1>4. Memory'
  BY DetachesUntouched, UntouchedMemory DEF EnvInv
<1>5. Copied'
  <2>1. \A k \in Kids : k # kid => maps'[k] = maps[k] /\ pc'[k] = pc[k]
    BY DEF EnvInv, Typed, DetachesMemory, Detach, Goto, Procs
  <2>2. pc'[kid] \in {"dt_scr", "dt_chunk", "exits"}
    BY DEF EnvInv, Typed, DetachesMemory, Goto, Kids, Procs
  <2> QED BY <2>1, <2>2, DetachesUntouched, KidsCopied DEF EnvInv
<1>6. Sems'
  BY SameSems DEF EnvInv, DetachesMemory, svars, Goto, Typed, Procs, Kids,
       SyncDt
<1>7. Inherited'
  BY PlaceAssumption DEF EnvInv, DetachesMemory, svars, Typed, Inherited, Sems,
       Ready, Finished, Goto, Detach, Procs, Kind
<1> QED BY <1>1, <1>2, <1>3, <1>4, <1>5, <1>6, <1>7 DEF EnvInv

\* The end of a child preserves the invariant.
LEMMA EndsKeeps ==
  ASSUME EnvInv, NEW kid \in Kids, Ends(kid)
  PROVE  EnvInv'
<1>1. Typed'
  <2>1. pc' \in [Procs -> AllPlaces]
    BY DEF EnvInv, Typed, Ends, AllPlaces
  <2>2. maps' \in [Procs -> [Place -> {"free", "other"} \union Objs]]
    BY UnmappedValue DEF EnvInv, Ends, Vanishes, Kids, Procs
  <2>3. opened' \in [Procs -> SUBSET Syncs]
    BY DEF EnvInv, Typed, Ends
  <2> QED BY <2>1, <2>2, <2>3 DEF EnvInv, Typed, Ends, Vanishes
<1>2. Places'
  BY PlaceAssumption DEF EnvInv, Ends, Places, Vanishes, At, DownPlaces,
       KidPlaces, Active
<1>3. Mapping'
  <2>1. maps'["arbiter"] = maps["arbiter"] /\ OwnSame
    BY OwnKept DEF EnvInv, Typed, Ends, Vanishes, Kids, Procs
  <2> QED BY <2>1, UntouchedMapping DEF EnvInv
<1>4. Memory'
  BY UntouchedMemory, OwnKept DEF EnvInv, Ends, Kids, Vanishes
<1>5. Copied'
  BY KidsCopied DEF EnvInv, Ends, Typed, Copied, Vanishes
<1>6. Sems'
  BY SameSems DEF EnvInv, Ends, Kids, SyncDt, Vanishes
<1>7. Inherited'
  BY PlaceAssumption DEF EnvInv, Ends, Typed, Inherited, Sems, Ready, Finished,
       Vanishes, Kind
<1> QED BY <1>1, <1>2, <1>3, <1>4, <1>5, <1>6, <1>7 DEF EnvInv

\* Waits preserves the invariant.
LEMMA WaitsKeeps ==
  ASSUME EnvInv, Waits
  PROVE  EnvInv'
<1>1. Typed'
  BY PlaceAssumption DEF EnvInv, Waits, Typed, Goto, svars, Procs, AllPlaces,
       DownPlaces, Null
<1>2. Places'
  BY PlaceAssumption DEF EnvInv, Waits, Places, Goto, svars, Procs, At,
       SyncPlaces, DownPlaces, KidPlaces, Active
<1>3. Mapping'
  BY UntouchedMapping, OwnKept DEF EnvInv, Waits, Keeps, Kids, Goto, svars
<1>4. Memory'
  BY UntouchedAfter, OwnKept DEF EnvInv, Waits, Whole, CtorPlaces, At, Goto,
       Procs, vars
<1>5. Copied'
  BY KidsCopied DEF EnvInv, Waits, Goto, Procs, Copied
<1>6. Sems'
  BY PlaceAssumption DEF EnvInv, Waits, Sems, Ready, Earlier, Finished, Absent,
       Begun, Goto, svars, Procs, At, CtorPlaces, SyncPlaces, WorkPlaces, vars,
       Kind
<1>7. Inherited'
  BY PlaceAssumption DEF EnvInv, Waits, Inherited, Sems, Ready, Finished, Goto,
       Procs
<1> QED BY <1>1, <1>2, <1>3, <1>4, <1>5, <1>6, <1>7 DEF EnvInv

\* semw_dtor() of nodata preserves the invariant.
LEMMA DestroysNodataKeeps ==
  ASSUME EnvInv, SyncDtor("nodata", "dtor_nodata", "dtor_nospace")
  PROVE  EnvInv'
<1>1. Typed'
  BY PlaceAssumption DEF EnvInv, SyncDtor, Typed, Goto, FreedName, NoSync,
       Keeps, Procs, AllPlaces, DownPlaces, Null
<1>2. Places'
  BY PlaceAssumption DEF EnvInv, SyncDtor, Places, Goto, FreedName, NoSync,
       Keeps, Procs, At, DownPlaces, KidPlaces, Active
<1>3. Mapping'
  BY UntouchedMapping, OwnKept DEF EnvInv, SyncDtor, Keeps, FreedName, NoSync
<1>4. Memory'
  BY UntouchedAfter, OwnKept DEF EnvInv, SyncDtor, Whole, CtorPlaces, At, Goto,
       FreedName, NoSync, Keeps, Procs, vars
<1>5. Copied'
  BY KidsCopied DEF EnvInv, SyncDtor, Goto, Procs, Copied, FreedName, NoSync,
       Keeps
<1>6. Sems'
  BY PlaceAssumption DEF EnvInv, SyncDtor, Typed, Sems, Ready, Earlier,
       Finished, Absent, Begun, Kind, Goto, FreedName, NoSync, Keeps, Procs,
       Syncs, At, CtorPlaces, SyncPlaces, vars
<1>7. Inherited'
  BY PlaceAssumption DEF EnvInv, SyncDtor, Inherited, Sems, Ready, Finished,
       Kind, Goto, FreedName, NoSync, Keeps, Procs
<1> QED BY <1>1, <1>2, <1>3, <1>4, <1>5, <1>6, <1>7 DEF EnvInv

\* semw_dtor() of nospace preserves the invariant.
LEMMA DestroysNospaceKeeps ==
  ASSUME EnvInv, SyncDtor("nospace", "dtor_nospace", "dtor_vars")
  PROVE  EnvInv'
<1>1. Typed'
  BY PlaceAssumption DEF EnvInv, SyncDtor, Typed, Goto, FreedName, NoSync,
       Keeps, Procs, AllPlaces, DownPlaces, Null
<1>2. Places'
  BY PlaceAssumption DEF EnvInv, SyncDtor, Places, Goto, FreedName, NoSync,
       Keeps, Procs, At, DownPlaces, KidPlaces, Active
<1>3. Mapping'
  BY UntouchedMapping, OwnKept DEF EnvInv, SyncDtor, Keeps, FreedName, NoSync
<1>4. Memory'
  BY UntouchedAfter, OwnKept DEF EnvInv, SyncDtor, Whole, CtorPlaces, At, Goto,
       FreedName, NoSync, Keeps, Procs, vars
<1>5. Copied'
  BY KidsCopied DEF EnvInv, SyncDtor, Goto, Procs, Copied, FreedName, NoSync,
       Keeps
<1>6. Sems'
  BY PlaceAssumption DEF EnvInv, SyncDtor, Typed, Sems, Ready, Earlier,
       Finished, Absent, Begun, Kind, Goto, FreedName, NoSync, Keeps, Procs, At,
       CtorPlaces, SyncPlaces, vars
<1>7. Inherited'
  BY PlaceAssumption DEF EnvInv, SyncDtor, Inherited, Sems, Ready, Finished,
       Kind, Goto, FreedName, NoSync, Keeps, Procs
<1> QED BY <1>1, <1>2, <1>3, <1>4, <1>5, <1>6, <1>7 DEF EnvInv

\* mtxw_dtor() of vars preserves the invariant.
LEMMA DestroysVarsKeeps ==
  ASSUME EnvInv, SyncDtor("vars", "dtor_vars", "dtor_buf")
  PROVE  EnvInv'
<1>1. Typed'
  BY PlaceAssumption DEF EnvInv, SyncDtor, Typed, Goto, FreedName, NoSync,
       Keeps, Procs, AllPlaces, DownPlaces, Null
<1>2. Places'
  BY PlaceAssumption DEF EnvInv, SyncDtor, Places, Goto, FreedName, NoSync,
       Keeps, Procs, At, DownPlaces, KidPlaces, Active
<1>3. Mapping'
  BY UntouchedMapping, OwnKept DEF EnvInv, SyncDtor, Keeps, FreedName, NoSync
<1>4. Memory'
  BY UntouchedAfter, OwnKept DEF EnvInv, SyncDtor, Whole, CtorPlaces, At, Goto,
       FreedName, NoSync, Keeps, Procs, vars
<1>5. Copied'
  BY KidsCopied DEF EnvInv, SyncDtor, Goto, Procs, Copied, FreedName, NoSync,
       Keeps
<1>6. Sems'
  BY PlaceAssumption DEF EnvInv, SyncDtor, Typed, Sems, Ready, Earlier,
       Finished, Absent, Begun, Goto, FreedName, Procs, At, CtorPlaces,
       SyncPlaces, WorkPlaces, vars
<1>7. Inherited'
  BY PlaceAssumption DEF EnvInv, SyncDtor, Inherited, Sems, Ready, Finished,
       Kind, Goto, FreedName, NoSync, Keeps, Procs
<1> QED BY <1>1, <1>2, <1>3, <1>4, <1>5, <1>6, <1>7 DEF EnvInv

\* shmw_dtor() of the ring preserves the invariant.
LEMMA DestroysBufKeeps ==
  ASSUME EnvInv, Dtor("buf", "dtor_buf", "dtor_scr"), UNCHANGED svars
  PROVE  EnvInv'
<1>1. Typed'
  <2>1. "buf" \in Objs BY DEF Objs
  <2>2. pc' \in [Procs -> AllPlaces]
    BY DEF EnvInv, Typed, Dtor, Goto, AllPlaces, DownPlaces
  <2>3. linked' \subseteq Objs BY <2>1, DtorValue DEF EnvInv, Typed
  <2> QED BY <2>1, <2>2, <2>3, DtorValue DEF EnvInv, Typed, svars
<1>2. Places'
  BY PlaceAssumption DEF EnvInv, Dtor, Places, Goto, Procs, At, SyncPlaces,
       DownPlaces, KidPlaces, Active
<1>3. Mapping'
  BY DtorMapping DEF Objs
<1>4. Memory'
  <2>1. "buf" \in Objs BY DEF Objs
  <2>2. "buf" \in Whole /\ Whole' = Whole \ {"buf"}
    BY <2>1, DtorValue DEF EnvInv, Whole, At, CtorPlaces, Objs
  <2>3. "dtor_buf" \in DownPlaces /\ "dtor_scr" \in DownPlaces \union {"done"}
    BY DEF DownPlaces
  <2> QED BY <2>1, <2>2, <2>3, DtorMemory
<1>5. Copied'
  BY DtorCopied DEF Objs
<1>6. Sems'
  BY UntouchedSems DEF EnvInv, Dtor, Ready, CtorPlaces, SyncPlaces, At, Goto,
       Procs, WorkPlaces
<1>7. Inherited'
  BY PlaceAssumption DEF EnvInv, Dtor, svars, Inherited, Sems, Ready, Finished,
       Goto, Procs, Kind
<1> QED BY <1>1, <1>2, <1>3, <1>4, <1>5, <1>6, <1>7 DEF EnvInv

\* shmw_dtor() of the bounce areas preserves the invariant.
LEMMA DestroysScrKeeps ==
  ASSUME EnvInv, Dtor("scr", "dtor_scr", "dtor_chunk"), UNCHANGED svars
  PROVE  EnvInv'
<1>1. Typed'
  <2>1. "scr" \in Objs BY DEF Objs
  <2>2. pc' \in [Procs -> AllPlaces]
    BY DEF EnvInv, Typed, Dtor, Goto, AllPlaces, DownPlaces
  <2>3. linked' \subseteq Objs BY <2>1, DtorValue DEF EnvInv, Typed
  <2> QED BY <2>1, <2>2, <2>3, DtorValue DEF EnvInv, Typed, svars
<1>2. Places'
  BY PlaceAssumption DEF EnvInv, Dtor, Places, Goto, Procs, At, SyncPlaces,
       DownPlaces, KidPlaces, Active
<1>3. Mapping'
  BY DtorMapping DEF Objs
<1>4. Memory'
  <2>1. "scr" \in Objs BY DEF Objs
  <2>2. "scr" \in Whole /\ Whole' = Whole \ {"scr"}
    BY <2>1, DtorValue DEF EnvInv, Whole, At, CtorPlaces, Objs
  <2>3. /\ "dtor_scr" \in DownPlaces
        /\ "dtor_chunk" \in DownPlaces \union {"done"}
    BY DEF DownPlaces
  <2> QED BY <2>1, <2>2, <2>3, DtorMemory
<1>5. Copied'
  BY DtorCopied DEF Objs
<1>6. Sems'
  BY UntouchedSems DEF EnvInv, Dtor, Ready, CtorPlaces, SyncPlaces, At, Goto,
       Procs, WorkPlaces
<1>7. Inherited'
  BY PlaceAssumption DEF EnvInv, Dtor, svars, Inherited, Sems, Ready, Finished,
       Goto, Procs, Kind
<1> QED BY <1>1, <1>2, <1>3, <1>4, <1>5, <1>6, <1>7 DEF EnvInv

\* shmw_dtor() of the ring in buf_ctor() preserves the invariant.
LEMMA DestroysBufUndoneKeeps ==
  ASSUME EnvInv, Dtor("buf", "undo_buf", "dtor_chunk"), UNCHANGED svars
  PROVE  EnvInv'
<1>1. Typed'
  <2>1. "buf" \in Objs BY DEF Objs
  <2>2. pc' \in [Procs -> AllPlaces]
    BY DEF EnvInv, Typed, Dtor, Goto, AllPlaces, DownPlaces
  <2>3. linked' \subseteq Objs BY <2>1, DtorValue DEF EnvInv, Typed
  <2> QED BY <2>1, <2>2, <2>3, DtorValue DEF EnvInv, Typed, svars
<1>2. Places'
  BY PlaceAssumption DEF EnvInv, Dtor, Places, Goto, Procs, At, SyncPlaces,
       DownPlaces, Active
<1>3. Mapping'
  BY DtorMapping DEF Objs
<1>4. Memory'
  <2>1. "buf" \in Objs BY DEF Objs
  <2>2. "buf" \in Whole /\ Whole' = Whole \ {"buf"}
    BY <2>1, DtorValue DEF EnvInv, Whole, At, CtorPlaces, Objs
  <2>3. /\ "undo_buf" \in DownPlaces
        /\ "dtor_chunk" \in DownPlaces \union {"done"}
    BY DEF DownPlaces
  <2> QED BY <2>1, <2>2, <2>3, DtorMemory
<1>5. Copied'
  BY DtorCopied DEF Objs
<1>6. Sems'
  BY UntouchedSems DEF EnvInv, Dtor, Ready, CtorPlaces, SyncPlaces, At, Goto,
       Procs, WorkPlaces
<1>7. Inherited'
  BY PlaceAssumption DEF EnvInv, Dtor, svars, Inherited, Sems, Ready, Finished,
       Goto, Procs, Kind
<1> QED BY <1>1, <1>2, <1>3, <1>4, <1>5, <1>6, <1>7 DEF EnvInv

\* shmw_dtor() of the chunk preserves the invariant.
LEMMA DestroysChunkKeeps ==
  ASSUME EnvInv, Dtor("chunk", "dtor_chunk", "done"), UNCHANGED svars
  PROVE  EnvInv'
<1>1. Typed'
  <2>1. "chunk" \in Objs BY DEF Objs
  <2>2. pc' \in [Procs -> AllPlaces]
    BY DEF EnvInv, Typed, Dtor, Goto, AllPlaces, DownPlaces
  <2>3. linked' \subseteq Objs BY <2>1, DtorValue DEF EnvInv, Typed
  <2> QED BY <2>1, <2>2, <2>3, DtorValue DEF EnvInv, Typed, svars
<1>2. Places'
  BY PlaceAssumption DEF EnvInv, Dtor, Places, Goto, Procs, At, SyncPlaces,
       KidPlaces, Active
<1>3. Mapping'
  BY DtorMapping DEF Objs
<1>4. Memory'
  <2>1. "chunk" \in Objs BY DEF Objs
  <2>2. "chunk" \in Whole /\ Whole' = Whole \ {"chunk"}
    BY <2>1, DtorValue DEF EnvInv, Whole, At, CtorPlaces, Objs
  <2>3. "dtor_chunk" \in DownPlaces /\ "done" \in DownPlaces \union {"done"}
    BY DEF DownPlaces
  <2> QED BY <2>1, <2>2, <2>3, DtorMemory
<1>5. Copied'
  BY DtorCopied DEF Objs
<1>6. Sems'
  BY UntouchedSems DEF EnvInv, Dtor, Ready, CtorPlaces, SyncPlaces, At, Goto,
       Procs, WorkPlaces
<1>7. Inherited'
  BY PlaceAssumption DEF EnvInv, Dtor, svars, Inherited, Sems, Ready, Finished,
       Goto, Procs, Kind
<1> QED BY <1>1, <1>2, <1>3, <1>4, <1>5, <1>6, <1>7 DEF EnvInv

\* LoopsOn preserves the invariant.
LEMMA LoopsOnKeeps ==
  ASSUME EnvInv, LoopsOn
  PROVE  EnvInv'
<1>1. Typed'
  BY PlaceAssumption DEF EnvInv, LoopsOn, Typed, Entry, FreshMemory, NoSync,
       Objs, Desc, AllPlaces, CtorPlaces, Null, NoDesc, Holder
<1>2. Places'
  BY PlaceAssumption DEF EnvInv, LoopsOn, Typed, Places, Procs, Entry,
       FreshMemory, At, CtorPlaces, SyncPlaces, KidPlaces, Active
<1>3. Mapping'
  BY PlaceAssumption DEF EnvInv, LoopsOn, Mapping, Memory, Whole, Before, Procs,
       FreshMemory, Objs, At, CtorPlaces, Held, Own, NoDesc, Of, Holder
<1>4. Memory'
  <2>1. \A q \in Objs : Own(q)' = NoDesc
    BY DEF LoopsOn, FreshMemory, Own, Of, Holder, Procs
  <2> QED
    BY <2>1 DEF EnvInv, LoopsOn, Typed, Memory, Whole, Before, Live, Named,
         Procs, Entry, FreshMemory, Objs, At, CtorPlaces, NoDesc
<1>5. Copied'
  BY DEF Copied, LoopsOn, Procs, Kids
<1>6. Sems'
  BY PlaceAssumption DEF EnvInv, LoopsOn, Typed, Sems, Ready, Earlier, Finished,
       Absent, Begun, Procs, Entry, FreshMemory, At, SyncPlaces, WorkPlaces,
       vars
<1>7. Inherited'
  BY PlaceAssumption DEF EnvInv, LoopsOn, Typed, Inherited, Sems, Ready,
       Finished, Procs, Entry, FreshMemory
<1> QED BY <1>1, <1>2, <1>3, <1>4, <1>5, <1>6, <1>7 DEF EnvInv

\* Stuttering preserves the invariant.
LEMMA StuttersKeep ==
  ASSUME EnvInv, UNCHANGED evars
  PROVE  EnvInv'
<1>1. Typed'
  BY DEF EnvInv, Typed, evars, vars, svars
<1>2. Places'
  BY DEF EnvInv, Places, At, Active, evars, vars, svars
<1>3. Mapping'
  BY UntouchedMapping, OwnKept DEF EnvInv, evars, vars
<1>4. Memory'
  BY UntouchedMemory, OwnKept DEF EnvInv, evars, vars
<1>5. Copied'
  BY KidsCopied DEF EnvInv, evars, vars
<1>6. Sems'
  BY SameSems DEF EnvInv, evars, vars, svars
<1>7. Inherited'
  BY DEF EnvInv, Inherited, Kind, evars, vars, svars
<1> QED BY <1>1, <1>2, <1>3, <1>4, <1>5, <1>6, <1>7 DEF EnvInv

\* The second mapping fails to be adjacent, or is not made.
LEMMA KeptKeeps ==
  ASSUME EnvInv, NEW at \in {"above", "below"},
         NEW next \in {"below", "close"}, 
         Kept(at, next), UNCHANGED svars
  PROVE  EnvInv'
<1>1. Typed'
  BY DEF EnvInv, Typed, svars, Kept, Goto, Procs, AllPlaces, CtorPlaces
<1>2. Places'
  BY DEF EnvInv, Places, Kept, Goto, Procs, At, Active, CtorPlaces, SyncPlaces,
       DownPlaces
<1>3. Mapping'
  BY UntouchedMapping, OwnKept DEF EnvInv, Kept
<1>4. Memory'
  BY DEF EnvInv, Memory, Kept, Goto, Procs, Whole, CtorPlaces, At, Own, Of,
       Live, Named, Before
<1>5. Copied'
  BY DEF EnvInv, Copied, Kept, Goto, Procs, Own, Of
<1>6. Sems'
  BY UntouchedSems DEF EnvInv, Kept, Goto, Procs, Ready, CtorPlaces, SyncPlaces,
       WorkPlaces, At
<1>7. Inherited'
  BY DEF EnvInv, Inherited, Kept, Goto, Procs, Kind, svars
<1> QED BY <1>1, <1>2, <1>3, <1>4, <1>5, <1>6, <1>7 DEF EnvInv

\* The second mapping is next to the first.
LEMMA TakenKeeps ==
  ASSUME EnvInv, NEW at \in {"above", "below"}, NEW b, Taken(b, at),
         UNCHANGED svars
  PROVE  EnvInv'
<1>1. Typed'
  <2>1. pc' \in [Procs -> AllPlaces]
    BY DEF EnvInv, Typed, Taken, Goto, Procs, AllPlaces, CtorPlaces
  <2> QED BY <2>1, TakenValue DEF EnvInv, Typed, svars
<1>2. /\ pc["arbiter"] \in {"above", "below"} /\ pc'["arbiter"] = "close"
      /\ \A kid \in Kids : pc'[kid] = pc[kid] /\ maps'[kid] = maps[kid]
      /\ UNCHANGED <<api, cur, ret, mode, sapi, opened>>
  BY DEF EnvInv, Typed, Taken, Goto, Procs, Kids, svars
<1>3. Places'
  BY <1>2 DEF EnvInv, Places, At, Active, CtorPlaces, SyncPlaces, DownPlaces
<1>4. Mapping' BY TakenMapping
<1>5. Memory' BY TakenMemory
<1>6. \A kid \in Kids : pc'[kid] \notin KidPlaces
  BY <1>2 DEF EnvInv, Places, At, Active, DownPlaces
<1>7. Copied' BY <1>6 DEF Copied, KidPlaces
<1>8. Sems'
  BY <1>2, UntouchedSems
    DEF EnvInv, Ready, CtorPlaces, SyncPlaces, WorkPlaces, At
<1>9. Inherited' BY <1>6 DEF Inherited, KidPlaces
<1> QED BY <1>1, <1>3, <1>4, <1>5, <1>7, <1>8, <1>9 DEF EnvInv

\* Every step of setup_env() preserves the invariant.
LEMMA SetupKeeps == ASSUME EnvInv, SetupEnv PROVE EnvInv'
<1>1. ASSUME NEW at \in {"above", "below"}, NEW next \in {"below", "close"},
             MapsSecond(at, next), UNCHANGED svars
      PROVE  EnvInv'
  BY <1>1, SecondIs, TakenKeeps, KeptKeeps
<1>2. CASE Ctor /\ UNCHANGED svars
  BY <1>1, <1>2, MakesNameKeeps, NoNameKeeps, OpensKeeps, CannotOpenKeeps,
     MapsFirstKeeps, CannotMapKeeps, ClosesKeeps, FailsKeeps DEF Ctor
<1> QED
  BY <1>2, SetsModeKeeps, RejectsPointsKeeps, InitialisesKeeps, NamesSemKeeps,
     OpensSemKeeps, GetsSemKeeps, SetsSemKeeps DEF SetupEnv

\* So does every step of a child.
LEMMA KidKeeps ==
  ASSUME EnvInv, NEW kid \in Kids, CleanupChild(kid) \/ Ends(kid) PROVE EnvInv'
BY DetachesNodataKeeps, DetachesNospaceKeeps, DetachesVarsKeeps,
   DetachesMemoryKeeps,
   EndsKeeps DEF CleanupChild

\* And every step of the final clean-up.
LEMMA CleanupKeeps == ASSUME EnvInv, CleanupArbiter PROVE EnvInv'
BY DestroysNodataKeeps, DestroysNospaceKeeps, DestroysVarsKeeps,
   DestroysBufKeeps,
   DestroysScrKeeps, DestroysBufUndoneKeeps, DestroysChunkKeeps
   DEF CleanupArbiter, DestroysMemory

\* The environment of the first iteration satisfies the invariant.
LEMMA InitEnv == ASSUME Init PROVE EnvInv
<1>1. Typed
  BY PlaceAssumption DEF Init, MemInit, Typed, Entry, NoSync, Desc, NoDesc,
       Null, Objs, Syncs, AllPlaces, CtorPlaces
<1>2. Places
  BY DEF Init, MemInit, Places, Entry, At, Active, Procs, Kids, CtorPlaces,
       SyncPlaces, KidPlaces
<1>3. \A o \in Objs : Own(o) = NoDesc
  BY DEF Init, MemInit, Own, Of, Holder, Procs
<1>4. Null \notin Place BY PlaceAssumption DEF Null, Place
<1>5. Mapping
  <2>1. \A a \in Place : maps["arbiter"][a] \notin Objs
    BY DEF Init, MemInit, Procs, Objs
  <2> QED BY <1>3, <1>4, <2>1 DEF Mapping, NoDesc, Held
<1>6. Memory
  BY <1>3
    DEF Init, MemInit, Memory, Entry, At, CtorPlaces, Whole, Before, Live,
        Named,
     NoDesc, Procs, Objs
<1>7. Copied BY DEF Init, MemInit, Copied, Procs, Kids
<1>8. Sems
  <2>1. At \in CtorPlaces BY DEF Init, MemInit, At, Entry, CtorPlaces, Procs
  <2>2. Ready = {}
    BY <2>1 DEF Ready, CtorPlaces, SyncPlaces, WorkPlaces
  <2> QED BY <2>1, <2>2 DEF Init, Sems, Absent, Procs, Syncs, CtorPlaces
<1>9. Inherited BY DEF Init, MemInit, Inherited, Procs, Kids
<1> QED BY <1>1, <1>2, <1>5, <1>6, <1>7, <1>8, <1>9 DEF EnvInv

\* Every step preserves the invariant.
LEMMA NextKeeps == ASSUME EnvInv, [Next]_evars PROVE EnvInv'
BY SetupKeeps, ForksReaderKeeps, ForksWriterKeeps, CannotForkKeeps, KidKeeps,
   WaitsKeeps,
   CleanupKeeps, LoopsOnKeeps, StuttersKeep DEF Next, Over

\* EnvInv is an invariant of every iteration, for any number of places, whatever
\* call of setup_env() fails and however the children end (yancat.c:205-342,
\* 378-502).
THEOREM EnvInductive == Spec => []EnvInv
<1>1. Init => EnvInv BY InitEnv
<1>2. EnvInv /\ [Next]_evars => EnvInv' BY NextKeeps
<1> QED BY <1>1, <1>2, PTL DEF Spec

-----------------------------------------------------------------------------
(* What the environment promises.                                          *)

\* At each place where the workers may be at work the chunk is mapped and all is
\* there.
LEMMA ThereFollows == ASSUME EnvInv PROVE SemaphoresThere
<1> SUFFICES ASSUME mode # "sp", ret = 0, NEW p \in Procs,
                    pc[p] = "run" \/ (p = "arbiter" /\ pc[p] \in {"wait", "fork_writer"}),
                    NEW o \in Syncs
             PROVE  Usable(o, p)
  BY DEF SemaphoresThere
<1>1. At \in {"fork_writer", "wait"}
  <2>1. CASE p = "arbiter"
    BY <2>1
      DEF EnvInv, Places, At, CtorPlaces, SyncPlaces, WorkPlaces, DownPlaces
  <2>2. CASE p \in Kids BY <2>2 DEF EnvInv, Places, Active, KidPlaces
  <2> QED BY <2>1, <2>2 DEF Procs
<1>2. Ready = Syncs /\ Whole = Objs
  BY <1>1 DEF Ready, Whole, CtorPlaces, SyncPlaces, WorkPlaces
<1>3. Finished(o) BY <1>2 DEF EnvInv, Sems
<1>4. CASE p = "arbiter"
  <2>1. Own("chunk").ptr # Null /\ Own("chunk") \in Desc
    BY <1>2, OwnType DEF EnvInv, Memory, Objs
  <2>2. maps["arbiter"][Own("chunk").ptr] = "chunk"
    BY <2>1 DEF EnvInv, Mapping, Held, Desc, Objs
  <2>3. Own("chunk") = Of("chunk", "arbiter") BY DEF Own
  <2> QED BY <1>3, <1>4, <2>2, <2>3 DEF Usable, Finished
<1>5. CASE p \in Kids
  <2>1. pc[p] = "run" BY <1>5 DEF Kids
  <2>2. maps[p][Of("chunk", p).ptr] = "chunk" BY <1>5, <2>1 DEF EnvInv, Copied
  <2>3. Kind(o) = "named" => o \in opened[p]
    BY <1>5, <2>1 DEF EnvInv, Inherited
  <2> QED BY <1>3, <2>2, <2>3 DEF Usable, Finished
<1> QED BY <1>4, <1>5 DEF Procs

\* SemaphoresThere: in whatever order the children come, detach and die, whoever
\* works has the mutex and both semaphores (semw_posix.c:39-43).
THEOREM WorkersHaveSemaphores == Spec => []SemaphoresThere
<1>1. EnvInv => SemaphoresThere BY ThereFollows
<1> QED BY <1>1, EnvInductive, PTL

\* The area of the ring is mapped where the one shm_s says.
LEMMA ContiguousFollows == ASSUME EnvInv PROVE RingIsContiguous
<1> SUFFICES ASSUME Of("buf", "arbiter").ptrc # Null
             PROVE  /\ Of("buf", "arbiter").ptrc = Of("buf", "arbiter").ptr + 1
                    /\ \A p \in Procs : pc[p] \in {"run", "dt_buf", "fork_reader",
                         "wait"} =>
                         /\ maps[p][Of("buf", "arbiter").ptr] = "buf"
                         /\ maps[p][Of("buf", "arbiter").ptrc] = "buf"
  BY DEF RingIsContiguous
<1>1. Own("buf") = Of("buf", "arbiter") BY DEF Own
<1>2. /\ Own("buf").ptr # Null /\ Own("buf").ptrc # Null
      /\ Own("buf").ptrc = Own("buf").ptr + 1 /\ Own("buf") \in Desc
  BY <1>1, OwnType DEF EnvInv, Mapping, Objs
<1>3. ASSUME NEW p \in Kids, pc[p] \in {"run", "dt_buf", "fork_reader", "wait"}
      PROVE  maps[p][Own("buf").ptr] = "buf" /\ maps[p][Own("buf").ptrc] = "buf"
  <2>1. pc[p] \in {"run", "dt_buf"} BY <1>3 DEF EnvInv, Places, KidPlaces
  <2> QED BY <1>2, <2>1 DEF EnvInv, Copied
<1>4. /\ maps["arbiter"][Own("buf").ptr] = "buf"
      /\ maps["arbiter"][Own("buf").ptrc] = "buf"
  BY <1>2 DEF EnvInv, Mapping, Held, Desc, Objs
<1> QED BY <1>1, <1>2, <1>3, <1>4 DEF Procs

\* RingIsContiguous: what is called circular is mapped twice in a row in every process
\* that works on it, wherever the kernel puts the mappings (shmw_posix.c:193-224).
THEOREM RingIsTwiceInARow == Spec => []RingIsContiguous
<1>1. EnvInv => RingIsContiguous BY ContiguousFollows
<1> QED BY <1>1, EnvInductive, PTL

\* When all is undone nothing is left.
LEMMA CleanFollows == ASSUME EnvInv PROVE CleansUp
<1> SUFFICES ASSUME pc["arbiter"] = "done" PROVE CleansUp
  BY DEF CleansUp, LeavesNoMemory
<1>1. Whole = {} /\ At \notin CtorPlaces /\ Ready = {} /\ At # "make2"
  BY DEF Whole, Ready, At, CtorPlaces, SyncPlaces, WorkPlaces
<1>2. \A o \in Objs : Own(o).ptr = Null /\ o \notin linked /\ o \notin fds /\
        str[o] \in {"none", "freed"}
  BY <1>1 DEF EnvInv, Memory
<1>3. \A o \in Objs : Own(o).ptrc = Null BY <1>2 DEF EnvInv, Mapping
<1>4. Null \notin Place BY PlaceAssumption DEF Null, Place
<1>5. \A a \in Place : maps["arbiter"][a] \in {"free", "other"}
  BY <1>2, <1>3, <1>4 DEF EnvInv, Mapping, Held, Typed, Procs
<1>6. linked = {} /\ fds = {} BY <1>2 DEF EnvInv, Typed
<1>7. \A o \in Syncs : Absent(o) BY <1>1 DEF EnvInv, Sems
<1>8. exist = {} /\ opened["arbiter"] = {}
  BY <1>7 DEF EnvInv, Typed, Absent, Procs
<1> QED BY <1>2, <1>5, <1>6, <1>7, <1>8 DEF CleansUp, LeavesNoMemory, Absent

\* CleansUp: whatever failed and however the children ended, the arbiter is left with
\* no mapping, descriptor, string, semaphore or name, and none was freed twice
\* (yancat.c:300-342, 455-502).
THEOREM NothingStays == Spec => []CleansUp
<1>1. EnvInv => CleansUp BY CleanFollows
<1> QED BY <1>1, EnvInductive, PTL

-----------------------------------------------------------------------------
(* The mappings of others.                                                 *)

\* What belongs to others, in main()'s address space.
OthersStand == \A a \in Place : maps["arbiter"][a] = "other" <=>
  maps'["arbiter"][a] = "other"

\* A step that maps a free place, or one that unmaps what the program holds.
LEMMA MapsFreeOnly == ASSUME EnvInv, MapsFirst PROVE OthersStand
<1>1. PICK a \in Place :
        /\ maps["arbiter"][a] = "free"
        /\ \A b \in Place : maps'["arbiter"][b] = IF b = a THEN cur ELSE maps["arbiter"][b]
  BY MapsFirstValue
<1>2. cur \in Objs BY DEF EnvInv, Typed
<1> QED BY <1>1, <1>2 DEF OthersStand, Objs

\* So does the second mapping.
LEMMA SecondMapsFreeOnly ==
  ASSUME EnvInv, NEW at \in {"above", "below"}, NEW next, MapsSecond(at, next)
  PROVE  OthersStand
<1>1. CASE Kept(at, next) BY <1>1 DEF Kept, OthersStand
<1>2. ASSUME NEW b \in Place, Taken(b, at) PROVE OthersStand
  BY <1>2, TakenValue DEF OthersStand
<1> QED BY <1>1, <1>2, SecondIs

\* What is unmapped was the program's own.
LEMMA UnmapsOwnOnly ==
  ASSUME EnvInv, NEW o \in Objs, NEW at, NEW next, Dtor(o, at, next)
  PROVE  OthersStand
BY DtorMapping DEF OthersStand

\* Nothing else touches main()'s address space.
LEMMA ElseUntouched ==
  ASSUME EnvInv, NEW kid \in Kids,
         DetachesMemory(kid) \/ Ends(kid) \/ Fork("reader", "fork_writer") \/
           Fork("writer", "wait")
  PROVE  maps'["arbiter"] = maps["arbiter"]
<1>1. /\ kid # "arbiter"
      /\ "reader" # "arbiter"
      /\ "writer" # "arbiter"
      /\ "arbiter" \in Procs
  BY DEF Kids, Procs
<1>2. CASE DetachesMemory(kid) BY <1>2, DetachesUntouched DEF EnvInv
<1>3. CASE Ends(kid) BY <1>1, <1>3 DEF Ends, Vanishes, EnvInv, Typed
<1>4. CASE Fork("reader", "fork_writer")
  BY <1>1, <1>4 DEF Fork, Copies, EnvInv, Typed
<1>5. CASE Fork("writer", "wait") BY <1>1, <1>5 DEF Fork, Copies, EnvInv, Typed
<1> QED BY <1>2, <1>3, <1>4, <1>5

\* No step takes a place of others or gives them one.
LEMMA NextLeavesOthers == ASSUME EnvInv, Next PROVE OthersStand
<1>1. CASE SetupEnv
  <2>1. CASE Ctor
    <3>1. CASE UNCHANGED maps BY <3>1 DEF OthersStand
    <3> QED
      BY <2>1, <3>1, MapsFreeOnly, SecondMapsFreeOnly
         DEF Ctor, MakesName, NoName, Opens, CannotOpen, CannotMap, Closes,
         Fails
  <2> QED
    BY <1>1, <2>1
      DEF SetupEnv, SetsMode, RejectsPoints, Initialises, NamesSem, OpensSem,
       GetsSem, SetsSem, Keeps, OthersStand
<1>2. CASE Fork("reader", "fork_writer") \/ Fork("writer", "wait")
  <2>1. "reader" \in Kids BY DEF Kids
  <2> QED BY <1>2, <2>1, ElseUntouched DEF OthersStand
<1>3. ASSUME NEW kid \in Kids, CleanupChild(kid) \/ Ends(kid) PROVE OthersStand
  <2>1. UNCHANGED maps \/ DetachesMemory(kid) \/ Ends(kid)
    BY <1>3 DEF CleanupChild, Detaches
  <2> QED BY <2>1, ElseUntouched DEF OthersStand
<1>4. CASE CleanupArbiter
  <2>1. CASE UNCHANGED maps BY <2>1 DEF OthersStand
  <2> QED
    BY <1>4, <2>1, UnmapsOwnOnly
      DEF CleanupArbiter, SyncDtor, Keeps, DestroysMemory, Objs
<1>5. CASE CannotFork \/ Waits \/ LoopsOn \/ Over
  BY <1>5
    DEF CannotFork, Waits, LoopsOn, FreshMemory, Over, evars, vars, OthersStand
<1> QED BY <1>1, <1>2, <1>3, <1>4, <1>5 DEF Next

\* OthersUntouched: no mapping that is not the program's own is ever replaced or
\* removed (shmw_posix.c:176-224, 62-88).
THEOREM OthersStay == Spec => OthersUntouched
<1>1. EnvInv /\ [Next]_evars => [OthersStand]_vars
  <2>1. UNCHANGED evars => UNCHANGED vars BY DEF evars
  <2> QED BY <2>1, NextLeavesOthers
<1>2. Spec => [][OthersStand]_vars BY <1>1, EnvInductive, PTL DEF Spec
<1>3. OthersStand => \A a \in Place : maps["arbiter"][a] = "other" <=>
        maps'["arbiter"][a] = "other"
  BY DEF OthersStand
<1> QED BY <1>2, <1>3, PTL DEF OthersUntouched
===============================================================================
