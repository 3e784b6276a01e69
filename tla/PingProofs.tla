----------------------------- MODULE PingProofs -----------------------------
(***************************************************************************)
(* Proofs about Ping, for all kinds of ends and any number of blocks left: *)
(* after a ping only a call that was entered too late may hang, fd_open()  *)
(* leaves one descriptor or none, and stale ids are only ever signalled by *)
(* the writer and by the relay.                                            *)
(***************************************************************************)
EXTENDS Ping, TLAPS

-----------------------------------------------------------------------------
(* The inductive invariant.                                                *)

Pinging == {"to_reader", "to_writer", "to_relay"}

ArbiterPlaces == {"start", "record", "wait", "release", "over"} \union Pinging
RelayPlaces   == {"off", "sigwait", "release", "gone"} \union Pinging
WorkerPlaces  ==
  {"off", "open", "setsockopt", "bind", "listen", "accepted", "shut", "release",
   "loop", "sleep", "io", "error", "outt", "outt2", "epi", "close", "gone"}
  \union Blocking \union Pinging

\* Who may be where.
Typed ==
  /\ mode \in {"mp", "mt"} /\ kind \in [Workers -> Kinds]
  /\ pc \in [Tasks -> ArbiterPlaces \union RelayPlaces \union WorkerPlaces]
  /\ pc["arbiter"] \in ArbiterPlaces /\ pc["relay"] \in RelayPlaces
  /\ \A w \in Workers : pc[w] \in WorkerPlaces
  /\ nfd \in [Workers -> Nat]
  /\ made \in Nat /\ reaped \subseteq Workers /\ ping \subseteq Tasks
  /\ passed \subseteq Workers

\* Descriptors by place.
Held(w) ==
  CASE pc[w] \in {"off", "open"} -> IF kind[w] = "fd" THEN 1 ELSE 0
    [] pc[w] \in {"opening", "release", "gone"} \union Pinging -> 0
    [] pc[w] = "accepted" -> 2
    [] OTHER -> 1

Fds == \A w \in Workers : nfd[w] = Held(w)

\* setup_proc() starts each task once, and nobody else does.
Starting ==
  /\ pc["arbiter"] = "start"  => made \in 0 .. Len(Order) - 1
  /\ pc["arbiter"] = "record" => made \in 1 .. Len(Order)
  /\ pc["arbiter"] \in {"start", "record"} =>
       /\ pc["writer"] = "off" \/ made = Len(Order)
       /\ pc["reader"] = "off" \/ made >= Len(Order) - 1
       /\ pc["relay"] = "off" \/ made >= Len(Order) - 2
  /\ mode = "mp" => pc["relay"] \in {"off", "gone"}

\* Nobody is waited for while tasks are started or signalled by the arbiter;
\* who was is gone, the reader before the writer.
Reaping ==
  /\ pc["arbiter"] \in {"start", "record", "release"} \union Pinging => reaped = {}
  /\ \A w \in reaped : pc[w] = "gone"
  /\ "writer" \in reaped => "reader" \in reaped

\* Signals follow the order to stop.
Stopping ==
  /\ \A t \in Tasks : pc[t] \in Pinging => done
  /\ passed # {} => done

PingInv ==
  Typed /\ Fds /\ Starting /\ Reaping /\ Stopping /\ HangOnlyByRace /\ StalePings
-----------------------------------------------------------------------------
(* Its steps.                                                              *)

\* Nobody has been started yet.
LEMMA InitPing ==
  Init => PingInv
<1> SUFFICES ASSUME Init PROVE PingInv
  OBVIOUS
<1> USE DEF Init, Tasks, Workers
<1>1. kind \in [Workers -> Kinds]
  BY EndsAssumption
<1>2. Typed
  BY <1>1 DEF Typed, ArbiterPlaces, RelayPlaces, WorkerPlaces
<1>3. Fds
  <2> SUFFICES ASSUME NEW w \in Workers PROVE nfd[w] = Held(w)
    BY DEF Fds
  <2>1. pc[w] = "off" /\ nfd[w] = IF kind[w] = "fd" THEN 1 ELSE 0
    OBVIOUS
  <2> QED BY <2>1 DEF Held, Pinging
<1>4. Starting /\ Reaping
  BY DEF Starting, Reaping, Order, Pinging
<1>5. Stopping /\ HangOnlyByRace /\ StalePings
  BY DEF Stopping, HangOnlyByRace, StalePings, Pinging
<1> QED BY <1>2, <1>3, <1>4, <1>5 DEF PingInv

\* The arbiter starts tasks and waits for them.
LEMMA ArbiterPing ==
  ASSUME PingInv, Arbiter
  PROVE  PingInv'
<1> USE DEF PingInv, Typed, Fds, Held, Starting, Reaping, Stopping, HangOnlyByRace,
            StalePings, ArbiterPlaces, RelayPlaces, WorkerPlaces, Pinging, Blocking,
            Opening, Tasks, Workers, Kinds, Goto, At, Running, opts, ids, flags, hist
<1>1. CASE Start
  BY <1>1 DEF Start, Order
<1>2. CASE RecordsId
  BY <1>2 DEF RecordsId, Order
<1>3. CASE CannotStart
  BY <1>3 DEF CannotStart, Order
<1>4. CASE Reaps
  BY <1>4 DEF Reaps, Awaited, Order
<1> QED BY <1>1, <1>2, <1>3, <1>4 DEF Arbiter

\* release() orders everybody to stop before it signals anybody.
LEMMA ReleasePing ==
  ASSUME PingInv, NEW t \in Tasks, Release(t)
  PROVE  PingInv'
<1> USE DEF PingInv, Typed, Fds, Held, Starting, Reaping, Stopping, HangOnlyByRace,
            StalePings, ArbiterPlaces, RelayPlaces, WorkerPlaces, Pinging, Blocking,
            Opening, Tasks, Workers, Kinds, Goto, At, Running, opts, ids, flags, hist
<1>1. CASE Releases(t)
  BY <1>1 DEF Releases, Stop, Order
<1>2. CASE Pings(t, "reader", "to_reader", "to_writer")
  BY <1>2 DEF Pings, Order
<1>3. CASE Pings(t, "writer", "to_writer", "to_relay")
  BY <1>3 DEF Pings, Order
<1>4. CASE Pings(t, "relay", "to_relay", Return(t))
  BY <1>4 DEF Pings, Return, Order
<1> QED BY <1>1, <1>2, <1>3, <1>4 DEF Release

\* fd_open(), with the calls in it that wait for the peer.
LEMMA OpeningPing ==
  ASSUME PingInv, NEW w \in Workers,
         OpenBegins(w) \/ (w = "reader" /\ Binds) \/ OpenReturns(w) \/ Shuts(w)
  PROVE  PingInv'
<1> USE DEF PingInv, Typed, Fds, Held, Starting, Reaping, Stopping, HangOnlyByRace,
            StalePings, ArbiterPlaces, RelayPlaces, WorkerPlaces, Pinging, Blocking,
            Opening, Tasks, Workers, Kinds, Goto, At, Running, opts, ids, flags, hist
<1> USE DEF Moves, Enters, Holds, Order
<1>1. CASE OpenBegins(w)
  BY <1>1 DEF OpenBegins, IsSocket
<1>2. CASE w = "reader" /\ Binds
  BY <1>2 DEF Binds
<1>3. CASE OpenReturns(w)
  BY <1>3 DEF OpenReturns
<1>4. CASE Shuts(w)
  BY <1>4 DEF Shuts
<1> QED BY <1>1, <1>2, <1>3, <1>4

\* What follows an error or the end of the loop.
LEMMA OuttPing ==
  ASSUME PingInv, NEW w \in Workers, NEW at \in {"outt", "error"}, Outt(w, at)
  PROVE  PingInv'
<1> USE DEF PingInv, Typed, Fds, Held, Starting, Reaping, Stopping, HangOnlyByRace,
            StalePings, ArbiterPlaces, RelayPlaces, WorkerPlaces, Pinging, Blocking,
            Opening, Tasks, Workers, Kinds, Goto, At, Running, opts, ids, flags, hist
<1>1. /\ pc[w] = at /\ pc' = [pc EXCEPT ![w] = IF w = "reader" THEN "close" ELSE "outt2"]
      /\ done => done'
      /\ UNCHANGED <<mode, kind, nfd, made, recorded, reaped, gaveUp, left, ping, int,
                     late, passed, stale>>
  BY DEF Outt
<1>2. Typed' /\ Fds'
  BY <1>1
<1>3. Starting' /\ Reaping' /\ Stopping'
  BY <1>1 DEF Order
<1>4. HangOnlyByRace' /\ StalePings'
  BY <1>1
<1> QED BY <1>2, <1>3, <1>4

\* transfer_reader(), transfer_writer() and the epilogue.
LEMMA TransferPing ==
  ASSUME PingInv, NEW w \in Workers,
         \/ Decides(w) \/ Wakes(w) \/ Enters(w, "io", "blocked") \/ IoReturns(w)
         \/ (w = "writer" /\ Epilogue) \/ (w = "writer" /\ EpiReturns) \/ Closes(w)
  PROVE  PingInv'
<1> USE DEF PingInv, Typed, Fds, Held, Starting, Reaping, Stopping, HangOnlyByRace,
            StalePings, ArbiterPlaces, RelayPlaces, WorkerPlaces, Pinging, Blocking,
            Opening, Tasks, Workers, Kinds, Goto, At, Running, opts, ids, flags, hist
<1> USE DEF Moves, Enters, Holds, Other, Order
<1>1. CASE Decides(w)
  BY <1>1 DEF Decides
<1>2. CASE Wakes(w)
  BY <1>2 DEF Wakes
<1>3. CASE Enters(w, "io", "blocked")
  BY <1>3
<1>4. CASE IoReturns(w)
  BY <1>4 DEF IoReturns
<1>5. CASE w = "writer" /\ Epilogue
  BY <1>5 DEF Epilogue
<1>6. CASE w = "writer" /\ EpiReturns
  BY <1>6 DEF EpiReturns
<1>7. CASE Closes(w)
  BY <1>7 DEF Closes
<1> QED BY <1>1, <1>2, <1>3, <1>4, <1>5, <1>6, <1>7

\* A signal handled within a call: no descriptor comes or goes, and with the
\* order to stop given the task has left the call.
LEMMA EintrPing ==
  ASSUME PingInv, NEW t \in Tasks, NEW stop, done => stop, done => done',
         Interrupted(t, stop), ping' \in {ping, ping \ {t}},
         UNCHANGED <<opts, nfd, ids, passed, late, stale>>
  PROVE  PingInv'
<1> USE DEF PingInv, Typed, Fds, Held, Starting, Reaping, Stopping, HangOnlyByRace,
            StalePings, ArbiterPlaces, RelayPlaces, WorkerPlaces, Pinging, Blocking,
            Opening, Tasks, Workers, Kinds, Goto, At, Running, opts, ids, flags, hist
<1>1. pc' = [pc EXCEPT ![t] = AfterEintr(pc[t], stop)]
  BY DEF Interrupted
<1>2. kind' = kind /\ nfd' = nfd
  OBVIOUS
<1>3. Typed'
  BY <1>1 DEF AfterEintr
<1>4. Fds'
  <2> SUFFICES ASSUME NEW w \in Workers PROVE Held(w)' = Held(w)
    OBVIOUS
  <2>1. CASE w = t
    <3>1. \/ pc'[w] = pc[w]
          \/ pc[w] = "opening" /\ pc'[w] = "release"
          \/ pc[w] \in {"connect", "accept"} /\ pc'[w] = "shut"
          \/ pc[w] = "blocked" /\ pc'[w] \in {"io", "error"}
          \/ pc[w] = "epi_blocked" /\ pc'[w] \in {"epi", "close"}
      BY <1>1, <2>1 DEF AfterEintr
    <3> QED BY <1>2, <3>1
  <2>2. CASE w # t
    BY <1>1, <1>2, <2>2
  <2> QED BY <2>1, <2>2
<1>5. Starting'
  BY <1>1 DEF AfterEintr, Order
<1>6. Reaping' /\ Stopping' /\ StalePings'
  BY <1>1 DEF AfterEintr
<1>7. HangOnlyByRace'
  BY <1>1 DEF AfterEintr
<1> QED BY <1>3, <1>4, <1>5, <1>6, <1>7

\* Signals are sent, relayed and handled.
LEMMA SignalPing ==
  ASSUME PingInv,
         \/ Relayed \/ CtrlC
         \/ \E t \in Tasks : Pinged(t) \/ Terminated(t) \/ Kill(t)
  PROVE  PingInv'
<1>1. CASE Relayed
  <2> USE DEF PingInv, Typed, Fds, Held, Starting, Reaping, Stopping, HangOnlyByRace,
              StalePings, ArbiterPlaces, RelayPlaces, WorkerPlaces, Pinging, Blocking,
              Opening, Tasks, Workers, Kinds, Goto, At, Running, opts, ids, flags, hist
  <2> QED BY <1>1 DEF Relayed, Order
<1>2. CASE CtrlC \/ \E t \in Tasks : Kill(t)
  <2> USE DEF PingInv, Typed, Fds, Held, Starting, Reaping, Stopping, HangOnlyByRace,
              StalePings, ArbiterPlaces, RelayPlaces, WorkerPlaces, Pinging, Blocking,
              Opening, Tasks, Workers, Kinds, Goto, At, Running, opts, ids, flags, hist
  <2> QED BY <1>2 DEF CtrlC, Kill, Order
<1>3. ASSUME NEW t \in Tasks, Pinged(t) \/ Terminated(t)
      PROVE  PingInv'
  <2>1. CASE Pinged(t)
    BY <2>1, EintrPing DEF Pinged, flags, hist
  <2>2. CASE Terminated(t)
    BY <2>2, EintrPing DEF Terminated, hist
  <2> QED BY <1>3, <2>1, <2>2
<1> QED BY <1>1, <1>2, <1>3

\* Nothing moves once all is over.
LEMMA StutterPing ==
  ASSUME PingInv, UNCHANGED vars
  PROVE  PingInv'
BY DEF vars, opts, ids, flags, hist, PingInv, Typed, Fds, Held, Starting, Reaping,
       Stopping, HangOnlyByRace, StalePings, Order

\* No step of a worker, of its peer or of the handlers breaks the invariant.
LEMMA NextPing ==
  PingInv /\ [Next]_vars => PingInv'
<1> SUFFICES ASSUME PingInv, [Next]_vars PROVE PingInv'
  OBVIOUS
<1>1. ASSUME NEW w \in Workers, Works(w) \/ PeerActs(w)
      PROVE  PingInv'
  <2>1. w \in Tasks
    BY DEF Tasks
  <2>2. Outt(w, "outt") \/ Outt(w, "error") => PingInv'
    BY OuttPing
  <2> QED BY <1>1, <2>1, <2>2, OpeningPing, TransferPing, ReleasePing DEF Works, PeerActs
<1>2. CASE Release("arbiter") \/ Release("relay")
  BY <1>2, ReleasePing DEF Tasks
<1>3. CASE Arbiter
  BY <1>3, ArbiterPing
<1>4. CASE Relayed \/ CtrlC \/ \E t \in Tasks : Pinged(t) \/ Terminated(t) \/ Kill(t)
  BY <1>4, SignalPing
<1>5. CASE UNCHANGED vars
  BY <1>5, StutterPing
<1> QED BY <1>1, <1>2, <1>3, <1>4, <1>5 DEF Next, Over

-----------------------------------------------------------------------------
(* What follows.                                                           *)

\* Types, descriptors, the order of starting, stopping and waiting.
THEOREM PingInductive ==
  Spec => []PingInv
BY InitPing, NextPing, PTL DEF Spec

\* The hang that the comment at yancat.c:121-122 admits is the only one, for
\* whatever the workers open and however many tasks order the stop at once.
THEOREM OnlyTheRaceHangs ==
  Spec => []HangOnlyByRace
<1>1. PingInv => HangOnlyByRace
  BY DEF PingInv
<1> QED BY <1>1, PingInductive, PTL

\* fd_open() keeps exactly one descriptor if it succeeds and none if it does
\* not, for every kind of end and wherever a signal breaks it off.
THEOREM OpenIsExact ==
  Spec => []OpenLeavesOne
<1>1. PingInv => OpenLeavesOne
  BY DEF PingInv, Fds, Held, OpenLeavesOne, Pinging, Workers
<1> QED BY <1>1, PingInductive, PTL

\* Only the writer that could not open, and the relay, ever signal an id that
\* was waited for already.
THEOREM OnlyTheseAreStale ==
  Spec => []StalePings
<1>1. PingInv => StalePings
  BY DEF PingInv
<1> QED BY <1>1, PingInductive, PTL
=============================================================================
