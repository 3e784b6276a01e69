# yancat: a TLA+ development

yancat copies a byte stream from one descriptor, file or socket to another
through a ring buffer, in one of three modes: two threads (mt), two processes
(mp, the default) or a single process (sp). This directory holds TLA+ models of
its core, the TLC runs that check them and proofs for TLAPS. Source references
are to `src/`.

## 1. Inventory of the system

| component | source | state | operations | talks to |
|---|---|---|---|---|
| ring buffer | `buffer.c`, `buffer.h` | cursors `got`, `did`; stall flags `rstall`, `wstall`; limits `rmin`, `wmin`, `rsp`, `wsp`; ring and bounce area | `buf_can_r/w`, `buf_fetch_r/w`, `buf_commit_r/w`, `buf_commit_rf/wf`, `buf_setlinew` | called by the transfers, half of it under the lock, half outside |
| construction | `buffer.c`, `options.c`, `common.c` | sizes, mask, areas, resume points | `opt_parse` limits, `buf_ctor`, `buf_setextra`, `is_pow2` | memory from shared memory |
| transfer mt/mp | `yancat.c:159-172, 504-680, 731-776, 837-871` | mutex `vars`, semaphores `nospace`, `nodata`; hand-over `mwait`, `swait`, `xrsiz`, `xwsiz`; `done`, `abrt`, `errlog` | `transfer_reader`, `transfer_writer`, `transfer_writer_epi`, `release`, `task_sigrelay`, `sh_terminate`, `reaper` | reader and writer share everything above; semaphores are posted by both and by the relay |
| transfer sp | `yancat.c:682-723` | the same, without lock and semaphores | `transfer_1cpu`, epilogue | interrupted by `sh_terminate` |
| life cycle, signals | `yancat.c:205-342, 378-502, 778-910` | objects made, process table, handlers and masks, results | `main`, `setup_*`, `forkself`, `release`, `cleanup_*`, `reaper` | `fork`, `pthread_create`, signals, every destructor |
| pings | `yancat.c:84-149, 205-217, 504-522, 731-748` | recorded pids or thread ids, pending signals | `notify_tasks`, `sh_terminate`, `task_sigrelay` | interrupts the blocking calls of the tasks |
| descriptors | `fdpack.c` | type, descriptor, path | `fd_ctor*`, `fd_open`, `fd_close`, `fd_dtor`, `fd_read/write` | one pair, copied to each process |
| checksums | `crc.c`, `crc.h` | table, running values | `crc_init`, `crc_calc`, `crc_cksum`, `crc_end` | updated by the commits |
| options | `options.c`, `parse.c` | `g_opts` | `opt_parse`, `opt_subparse`, `sp_addr_parse` | read by all |
| shared memory, semaphores, mutexes | `shmw_*`, `semw_*`, `mtxw_*` | mappings, names | constructors, `*_dt` (a child's), `*_dtor` (final) | life cycle |
| win32, affinity, reports, attic | | | | not part of the behaviour modelled |

What is hard here, and what makes each component correct:

- *Two workers, a lock that covers only the decisions.* Sizes are decided under
  the mutex and used after it is dropped; a sleeper is given a size by the other
  worker. Correct: a size stays valid until it is used, the ring never becomes
  full (`got == did` means empty), no wake-up is lost, the stream comes out in
  order and complete.
- *Ending.* End of file, an error on either side, a failed `open()` and a signal
  race. The epilogue runs without the lock. Correct: it runs only when the
  reader has left its loop at the end of the data; everybody comes to an end;
  the verdict is "clean" only for a complete transfer.
- *Resume points.* Both sides may be suspended at once. Correct: never both for
  good; nothing is read (written) before the level has dropped (risen).
- *The life cycle.* Every step of `setup_env()` may fail; tasks live in threads
  or in processes; the loop repeats it all with the same ends; signals come at
  any time. Correct: what exists is undone once, in an order that never takes
  anything from a running worker; the ends can be opened again; exit status 0
  only if every iteration was complete.
- *Blocking calls.* A worker may wait for its peer in `accept()`, `connect()`,
  `open()`, `read()` or `write()` when the other one gives up. Correct: the ping
  reaches it there, except for the race the code admits; each way out of the
  series of calls closes what it opened.
- *What was asked for.* Options come in any order, the ends are tried in a fixed
  one. Correct: only the last `-i` or `-o` counts, and a socket gets each option
  once.
- *Numbers.* Rounding to pages, powers of two, blocks against size, resume
  points against blocks; checksum width and block independence.

`PROJECT.json` lists every hazard with its line and the properties aimed at it.

## 2. Modules and how they correspond to the code

| module | stands for |
|---|---|
| `Buffer` | pure operators: the fill level (`Hav`, `Emp`), the decisions (`GrantR`, `GrantW`: the result of `buf_can_r/w`; `StallsR`, `StallsW`: the flag they leave), direct and bounced accesses to the ring (`Store`, `Load`, `BounceIn`, `BounceOut`), strict padding |
| `Pipe` | abstract specification: bytes 1, 2, 3... go in and come out in order, at most `Capacity` are held, "clean" only when nothing is missing |
| `Transfer` | the two workers of mt and mp around one ring, with the relay or handler and the verdict |
| `TransferInv` | its inductive invariants: `IInv`, of the control, and `DInv`, of the bytes |
| `TransferCrash` | `Transfer` with worker processes that may be killed |
| `Transfer1cpu` | the single-process transfer |
| `BufSetup` | from the option values to a usable buffer, or a refusal |
| `Shmw` | the memory of an iteration: `shmw_ctor()` step by step for POSIX, SysV and malloc, `shmw_dt()`, `shmw_dtor()` |
| `Environ` | `Shmw` together with the mutex and the semaphores, in the order of `setup_env()`, its labels, `cleanup_child()` and `cleanup_arbiter()`, with the forks and the loop |
| `Fdpack` | one end of the pipe: open or closed, with or without a path |
| `Options` | from the command line to the two ends: `opt_parse()`, `sp_addr_parse()`, `setup_fds()` |
| `Ping` | the tasks of mt and mp around their blocking calls: `fd_open()`, `release()` with `notify_tasks()`, the handler, the relay, ctrl-c |
| `Session` | abstract specification: transfers one after another, each judged; the exit status is the last verdict |
| `Yancat` | `main()`: set-up, workers, reaping, clean-up, the loop, signals; it uses `Fdpack` and implements `Session` |
| `Crc` | the table-driven checksum beside a long division over GF(2) |
| `BufferProofs`, `TransferProofs`, `Transfer1cpuProofs`, `SetupProofs`, `PingProofs`, `YancatProofs`, `EnvironProofs`, `CrcProofs` | theorems about the modules they are named after (`SetupProofs`: `BufSetup` and `Options`), and the inductive invariants of all but the first two |
| `MCTransfer`, `MCTransferCrash`, `MCTransfer1cpu`, `MCBufSetup`, `MCCrc`, `MCPing`, `MCOptions` | instances for TLC |

`Transfer` and `Transfer1cpu` EXTEND `Buffer` and INSTANCE `Pipe`; `BufSetup`
INSTANCEs `Buffer` with the size it has constructed; `Environ` EXTENDS `Shmw`, and
`Yancat` INSTANCEs `Session`. A name that is a variable,
a field or a label in the C source keeps its name (`got`, `did`, `rstall`,
`mwait`, `xrsiz`, `outt`...).

**Atomic steps of Transfer.** One action is the code between two points where
another task can intervene: an operation on the mutex or a semaphore, a system
call, and a store to `done` made outside the lock. `RLoop` is the top of the
reader's loop under the lock, with its three ways out; `RWait` is `Pb(nospace)`;
`RRead` is `buf_fetch_r()` with `read_i()`, which yields 1 to `siz` bytes, end of
file or an error; `RCommit` is the copy out of the bounce area, outside the
lock; `RAdvance` is `buf_commit_rf()` with the wake-up of the writer; `Fail` and
`Finish` are the label `outt`, where the flags are stored one after the other.
The writer has the same steps and its epilogue, `WCheck`, `WEpilogue`,
`WEpiWrite`. `Release` is `release()`, in three steps. A task that is pinged out
of a blocking call shows as that call failing. Byte number *i* of the input is
the number *i*, so a lost, repeated or overwritten byte is visible in `out`; a
chunk on its way through the bounce area is a function, so a torn or misplaced
copy is visible too. A direct `write()` looks at the ring when it happens, not
when the pointer was taken.

**Yancat** treats a transfer as one step that ends well, badly or on demand (its
inside is the subject of `Transfer` and `Transfer1cpu`); the address spaces of mp
are separate (`fds`, `mapped` are per process), in mt threads share main()'s.
A destructor is one step, so that signals and crashes fall between them.
`clean`, `complete`, `heard` and `struck` are history variables. Its state maps to
`Session`'s by `Phase`: a transfer is in progress from the `memset` that clears
`errlog` to the return of `reaper()`. A signal that comes before or after that is
the subject of the runs `early_signal` and `lost_interrupt`.

**Ping** keeps of the transfer only whether a worker runs, sleeps or is in a call
that waits for its peer. A signal is first pending and then handled; when it is
handled inside a blocking call the call fails, and `AfterEintr` says what the
task does: `read_i()` and `write_i()` try again unless `done` is set, the calls of
`fd_open()` give up. `notify_tasks()` is one step per task it looks at, so ids that
are recorded or reaped meanwhile matter. The peers are free: `PeerActs` may happen
at any time and has no fairness.

**Options** represents a specification by what the parser looks for in it: the
letter and colon in front, a word, a port, a list of socket options with lists of
values. Specifications of one character are read as the code does (it compares one
character and then skips two): what lies behind them is any text. `Vals` is a
set of bits, because the code ors the values.

**Environ** has, from `Shmw`, an address space of a few places per process, of which
others hold any subset in main()'s. Every system call of `shmw_ctor()` is a step of
its own that may fail; the kernel puts a mapping at any free place whatever the
hint. A second mapping that is not adjacent is made and taken away in one step. The
three `shm_s` sit where the code has them: `g_chunk` in each process, `buf.buf` and
`buf.scr` in the chunk, hence common to all, as are the `mtx_s` and the two `sem_s`
that `Environ` adds; what a process has open of a named semaphore is its own. The
build (which memory, which semaphores, a mutex or a semaphore as lock) is chosen
in `Init`. A child may be killed at any step of its clean-up. With malloc mp becomes
sp and mt stays mt, as `yancat.c:292` has it; README:54 says that malloc forces sp.

**Crc** represents a word as the set of its one bits: `^` is symmetric
difference, shifts drop bits at the width. Beside the running value it carries `rest`, what a long
division of the bytes committed so far leaves; `Value` and `Number` read a length back from its bytes.

## 3. The runs

All runs that must pass end within about a minute with two TLC workers.

| run | bounds | shows |
|---|---|---|
| `transfer` | ring of 8 bytes, input up to 12, 1 signal, five configurations (blocks 2 and 3 either way round, resume points none / one / both, single and double mapping, strict, `-L`, short writes, mt and mp) | type correctness, `IInv`, `ClaimsFit`, `NeverBothAsleep`, `EpilogueAlone`, `OutputFaithful`, `CleanMeansComplete`, `ReadResumes`, `WriteResumes`, refinement of `Pipe`; under fairness, `Terminates` |
| `sp` | input up to 20, counts 1, 2, 3, 8, seven configurations | the same questions for sp, `FlushesWhatItRead`, termination |
| `lifecycle` | 2 signals, all modes, loop or not, all kinds of ends | `UndoesWhatItMade`, `NothingPulledAway`, `CleanExit`, `ReadyToReopen`, `LeavesNothing`, refinement of `Session`; deadlock freedom |
| `buf_setup` | sizes to 17, blocks to 8, resume points in eighths, pages of 1 and 4 bytes, no huge pages or huge pages of 3 and 8, a `size_t` of 5 bits | `AcceptsValid`, `SharpIsEnough`, `BouncesApart`, `RejectsCleanly` |
| `environment` | five places, any of them taken by others; three kinds of memory and of semaphores, two of locks, three modes; no bound on iterations | `SemaphoresThere`, `RingIsContiguous`, `CleansUp`, `OthersUntouched` |
| `ping` | four pairs of ends with files, descriptors, TCP and UDP on either side, one `write()` in the epilogue; no bound on signals | `HangOnlyByRace`, `OpenLeavesOne`, `StalePings`, `EndsOnCtrlC` |
| `options` | two options of any kind, 52 texts for a specification | `FromLastSpecOrStandard`, `SocketAsAsked` |
| `crc` | three inputs of 260 bytes in blocks of 1, 3 and 8 | `CrcIsRemainder`, `CksumIsRemainder`; an ASSUME of `MCCrc` ties the reference division to the published check value of cksum |
| `byte_reader`, `killed_process`, `early_signal`, `lost_interrupt` | the smallest instance that shows it | one disagreement each, section 6 |

*Why these bounds.* Inputs are longer than the ring, so both cursors wrap, both
bounce paths are taken at several offsets, both workers sleep, stall and resume,
and a partial last block remains. Blocks of 2 and 3 in a ring of 8 satisfy
`size > 2 * max(rblk, wblk)` and do not divide it. The ring need not be a power
of two for any argument except `x & mask = x % size`, which `AcceptsValid`
establishes. One signal in a transfer reaches every position of the relay;
`lifecycle` takes two, because the handler of one may run beside the next. In
`buf_setup` all relations between sizes that the checks compare occur on both
sides of their boundary; the ring is rounded up to the page of `get_page()` or to the
larger one of `-H`, the bounce chunks always to the former; 3 bytes for a huge page is
refused, or taken where a page is 1. 5 bits hold every size there, rounded up to a page,
as the `size_t` of the program holds what `opt_parse()` accepts (sizes up to SIZE_MAX/2,
huge pages up to `DEF_MAXHPAGE`). In `environment` the three areas need four places, so with
five the ring finds room above, below or on no side, at either end of the space, and
mapping may fail at any area. In `ping` nothing counts but the writer's last calls:
every worker can go round its loop without end, and a second call of the epilogue
repeats the first. In `options` two options are enough for one to be followed by
another of the same or another direction; the C types have 8, 6 and 4 bits
instead of 64, 32 and 16, and the suffixes k and m shift by 2 and 4 instead of 10
and 20, so the texts include a port that fits, that is cut off, that wraps in `int`
to 0 and that cannot be converted. The cksum length of 260 takes two bytes.

*Deadlock* is checked except where the modelled thing ends by itself
(`buf_setup`, `crc`) and where a killed process makes the other one hang
(`killed_process`). Elsewhere a finished program stutters explicitly.

*Fairness* (`transfer`, `sp`): each task keeps being scheduled, and `open()`,
`read()` and `write()` return. The second is an assumption about the peer and
about the ping of `notify_tasks()`: a peer that neither sends nor closes keeps
the program waiting, as it should. Mutex acquisition needs
only weak fairness, for a task gives the lock up in its next step and
cannot take it again without a system call in between. The signal that starts
the relay is never forced. `ping` drops the assumption about the peer: there the
tasks run, pending signals are delivered, and the user presses ctrl-c again as
long as the program holds the terminal; no blocking call needs to return.

## 4. The properties

`OutputFaithful` and `CleanMeansComplete` say what the user is promised;
`ImplementsPipe` says both and that the capacity is respected, step by step.
`ClaimsFit` is the reason: the room the reader is about to fill and the data the
writer is about to take, decided or handed over earlier, are still there.
`EpilogueAlone` is what the comment at `yancat.c:668-672` requires.
`NeverBothAsleep` is the absence of lost wake-ups, which with suspended sides is
not obvious: it rests on `SharpIsEnough`, the "TODO verify this" of
`buffer.c:140`. `ReadResumes` and `WriteResumes` are the README's resume points
as action properties.

`FlushesWhatItRead` records a difference in contract: in sp a read error or a
signal still flushes the ring, the two-worker modes drop it.

In `lifecycle`, `NothingPulledAway` excludes the case that `setup_proc()` itself
gave up (`GaveUp`): then the program does clean up beside a running worker; what
follows is in the model as the action `Faults`.

`ImplementsSession` joins the verdict to the loop: what is judged clean was complete
and not interrupted, another transfer starts only then, and nothing changes the
verdict on the way to the exit status.

In `ping`, `HangOnlyByRace` makes the comment at `yancat.c:121-122` precise: a worker
that `notify_tasks()` has dealt with and that still blocks without a signal on its way
entered its call after `done` was set. It holds because `release()` stores `done`
before it signals, and it says nothing of a worker whose id `setup_proc()` had not
stored yet. `EndsOnCtrlC` is the rest of that comment. It also covers a writer
whose `write()` fails while the reader waits for input: nothing pings the reader then
(`yancat.c:660-666` only posts), so it goes on to block until its peer or the user does
something. After `setup_proc()` gave up, a process left alone is out of the terminal's
reach, and the property leaves it out. `StalePings` bounds who may signal an id
that was already waited for: the writer that cannot open its end, when the reader is
gone, and the relay. For processes such an id may belong to a stranger.

In `options`, `FromLastSpecOrStandard` rests on `unset_in()` and `unset_out()`
(`options.c:40-52`): without them `setup_fds()`, which tries descriptor, file, socket and
the standard descriptor in turn, would find what an earlier option had left. That it
goes on to the standard descriptor when the one asked for cannot be used is what the
code does, although the help text says so only for options not given.

In `environment`, `SemaphoresThere` and `CleansUp` depend on the comments in
`semw_dt()` (`semw_posix.c:39-43`) and `shmw_dt()` (`shmw_posix.c:43-47`); the former
leaves out a reader whose writer could not be forked. `RingIsContiguous` is what `Buffer` takes for granted when `iscir` is set,
in each process. Killing the arbiter itself is not covered: its named objects and SysV
segments then stay behind, for nothing in the code could remove them.

## 5. Proofs

`tlapm` checks 50 listed theorems, in eight modules; every invariant and action property of the runs
that pass is among them, as are the refinements. Each holds for every value of
the constants under the assumptions named in the modules (`SizeAssumption`,
`OptionsAssumption`, `BoundsAssumption`, `SetupAssumption`, `EndsAssumption`,
`LeftAssumption`, `SignalsAssumption`, `PlaceAssumption`, `InputsAssumption`, `TextsAssumption`,
`WidthAssumption`, `TableAssumption`, `ArgsAssumption`), which the runs evaluate, and some of the theorems about transfers under
the hypothesis named below. Every inductive invariant was checked by TLC before it
was proved; one lemma per action shows that it is preserved.

| module | inductive invariant | properties proved from it |
|---|---|---|
| `TransferProofs` | `IInv`, `DInv` | from the first `TypeOK`, `ClaimsFit`, `NeverBothAsleep`, `EpilogueAlone`, `ReadResumes`, `WriteResumes`; from the second `OutputFaithful`, `CleanMeansComplete`, `ImplementsPipe` |
| `TransferProofs`, of `TransferCrash` | `CrashInv` | `OutputFaithful`, `CleanDespiteReader` |
| `Transfer1cpuProofs` | `Kept`, `Content` | `TypeOK`, `OutputFaithful`, `CleanMeansComplete`, `FlushesWhatItRead`, `ImplementsPipe` |
| `SetupProofs` | `SetupInv`, `OptionsInv` | from the first `AcceptsValid`, `SharpIsEnough`, `BouncesApart`, `RejectsCleanly`; from the second `FromLastSpecOrStandard`, `SocketAsAsked` |
| `PingProofs` | `PingInv` | `HangOnlyByRace`, `OpenLeavesOne`, `StalePings` |
| `YancatProofs` | `LifeInv` | `TypeOK`, `UndoesWhatItMade`, `NothingPulledAway`, `CleanExit`, `ReadyToReopen`, `LeavesNothing`, `ImplementsSession` |
| `EnvironProofs` | `EnvInv` | `SemaphoresThere`, `RingIsContiguous`, `CleansUp`, `OthersUntouched` |
| `CrcProofs` | `CrcInv` | `CrcIsRemainder`, `CksumIsRemainder` |
| `BufferProofs` | none | `SharpSizesSuffice`; lemmas about the ring's operators for the modules above |

*Hypothesis.* `BlockReaders` (`RMin(o) = o.rblk` for every configuration: no `-l` on
the reader's side, or reader's blocks of one byte, where `-l` changes nothing). It is
needed: the run `byte_reader` shows what happens without it. In sp only the theorems
about the bytes have it.

**The two workers, control (`IInv`).** `ClaimsFit` speaks of sizes in the reader's and
the writer's hands; what keeps them valid is that the other cursor only moves away
from them, and, for a size handed to a sleeper, that the handing-over happened exactly
once. So `IInv` says, besides types and places:

- `Mutex`: the lock is held exactly at the top of a loop;
- `Handshake`: until the end, a semaphore is 1 exactly when its sleeper has been
  handed something and has not taken it, and a flag is up only while its owner
  sleeps;
- `Claims`: what is held or handed over fits (`Room`, `Data`);
- `NotStalled`: a side that works, or was handed something, is not stalled;
- `Sleepers`: a sleeper that nobody has served is refused by the current level,
  and if both are stalled the writer may resume;
- `Shutdown`: the order of `abrt` and `done`, and `done` without `abrt` only
  after the end of the data, which is what protects the epilogue;
- `Limits`: the writer's limits are the configured ones before the epilogue.

`NeverBothAsleep` then follows from `Sleepers` with `SharpSizesSuffice`, the
theorem of `BufferProofs` that at no fill level both sides are refused (it
answers the TODO of `buffer.c:140`).

**The two workers, data (`DInv`).** Between the `read()` that took a byte and the
`write()` that delivers it the byte is in one of five places: in a bounce area of the
reader, in the ring ahead of `got`, between the cursors, in a bounce area of the writer,
or behind `did` but not yet counted. `Content` says which byte is where, by the counts
`InFlight`, `Landed`, `Passed` and `Ahead`; a copy made outside the lock is sound
because `IInv` keeps the two halves of the ring apart. `Verdict` follows the reasons for
a failure to `errlog`, `WholeBlocks` the strict mode. The refinement then needs one
lemma per action that shows outside: `read()` is `Take` or `See`, `write()` is `Send`,
the epilogue's is `Send` or `SendPadded`, `reaper()` is `Close`, all else stutters.

**Killed processes (`CrashInv`).** Until `reap_procs()` has returned, every step of a living
worker is one of `Transfer`, so `IInv` and `DInv` survive any death as they are: the dead
are never scheduled again, and no conjunct needs them to be. After it `ret` is set while a dead worker
is not at its end, so `Verdict` is replaced by what it says of a writer that has ended without an
error: the input is over and nothing of it is left in the ring (`Drained`). A death between two stores of
one critical section, which is one step here, is not covered, except for those at the label `outt`.

So the survivor delivers nothing wrong (`OutputFaithful`), and of the promise that run `killed_process`
shows broken this remains: a verdict can be wrong only if the *writer* was killed
(`CleanDespiteReader`). It rests on the order of the stores at the label `outt`
(`yancat.c:575-581`) and in `release()`: were `done` stored before `abrt` and `errlog`, a reader killed
in between would leave the writer to finish cleanly on half of the input, although the same
order does no harm when nobody dies. The configuration `crash.cfg` of `MCTransferCrash` (ring of 8
bytes, input up to 10, one signal, two sets of options) lets TLC check both on a small
instance; with what the theorems say of all instances it is not one of the runs.

**The single task (`Kept`, `Content`).** The same for sp, where nothing is in flight
between steps but a signal may set `done` and `errlog` anywhere. `Kept` (types, limits,
granted blocks, why the loop was left) needs no hypothesis about the reader: even with
`-l` no access leaves the ring. Here the pipe's input ends where the task leaves its
loop, so a failed `open()` or `write()` and a loop that sees `done` are `See`.

**Construction (`SetupInv`).** After each step of `buf_ctor()` the areas that are mapped
and the checks that were passed. The arithmetic lemmas say that rounding to pages
covers, and that a number below 2^width with one bit set is a power of two (`OnlyBit`, for every
width: the halves of the number are 0 above that bit, and below it each is twice the next), so
`x & mask` is a remainder.
`AcceptsValid` discharges `OptionsAssumption` of the transfers.

**Command line (`OptionsInv`).** `Meant`: whatever `g_opts` holds for a direction is what
its last specification means, as long as that has more than one character; `Ends`:
`setup_fds()` settles the input before the output, each with what is set or with the
standard descriptor. `FromLastSpecOrStandard` is that at the end. For the sockets, `Fill` and `Put` say
what `sp_addsobyint()` does to a table in which no option is twice, `Asked` what the table
is after the first *k* options of an address, by induction over *k*; the defaults are
filled in after. The port is what was written when `IntSize` is a multiple of `ShortSize` and
`UlongSize` one of `IntSize`.

**Checksum (`CrcInv`).** The running value of `crc_calc()` is always 32 shifts ahead of the
remainder of the division (`Push32`). The shift of the one and the bringing down of the
other are linear (`PushLinear`), and a byte brought in from below reaches the top after 24
shifts, unchanged (`RoundIsFeed`); there it selects the table entry, which is
its next eight shifts (`TableEntry`). So a byte does the same to both, by induction a chunk does,
and the four zero bytes behind the data make up the distance. A division may be
interrupted anywhere (`DivideParts`), hence the cut into chunks does not
matter: `CrcOfWhole` states it of all bytes committed. `LengthIs` is a course-of-values
induction over the length: its bytes stand for it and the last is not zero. A length has no
bound there; the `uint64_t` of the program holds those that occur.

*Induction over data.* The library's induction theorems take an operator as a parameter, which the
installed provers cannot instantiate. `CrcProofs` and `SetupProofs` therefore start from
`NatLessThanWellFounded` and `WFMin`, which take a set: `SetInduction` says that a set with 0
and the successor of each of its members contains the naturals, and `RecursionExists`
builds with it a function for a recursive definition whose value at *x* is got from one earlier
value. Both open the module.

**Pings (`PingInv`).** Who may be where, descriptors by place, the order of starting and
reaping, and that no signal precedes `done`; with that `HangOnlyByRace` and `StalePings`
are inductive.

**Life cycle (`LifeInv`).** `Env` ties the objects made to the place in `setup_env()` and
to the stack of destructors (`Depth`, `Down`), `Ends` and `Children` say who holds which
end open, `Awaited` that main() waits while a worker is at work, and `Outcome` how a
failure reaches the exit status. The refinement of `Session` needs all of them.

**Environment (`EnvInv`).** `Whole` and `Ready` name the objects that must exist at each
place, `Mapping` ties main()'s address space to its `shm_s`, `Copied` and `Inherited`
say what a child keeps of it although the `shm_s` and `sem_s` it detaches are shared with
main(). It is proved for address spaces of any size, with anything mapped in them.

*Definitions stated otherwise for the proofs*, with the values they had: `Ping!AfterEintr` and
`Environ!Made` were CASEs whose arms overlapped, and are now disjoint. `Crc!Update` and
`Crc!Bring` are functions of words, so that one step of a recursive function can be named.
`Options!AddItems` is a recursive function instead of a fold with a LAMBDA. `BufSetup!Bits` takes
its powers from `Pow2` and the width from the constant `SizeBits`, and its behaviour has a name of its own
(`SetupSpec`), so that one module can speak of it and of `Options`.

**Only model-checked.** `Terminates` and `EndsOnCtrlC`: liveness under fairness is
beyond the prover. The disagreements of section 6 are counterexamples of TLC.

## 6. Disagreements the runs show

1. `byte_reader`: with `-l`, `emp > rmin` with `rmin = 1` grants the whole of the
   free space; a full read makes the ring look empty and its content is lost,
   with exit status 0. The comment at `buffer.c:31-33` forbids exactly this.
2. `killed_process`: `waitpid(.., NULL, 0)` and a verdict from `errlog` alone: a
   killed writer counts as a clean one (README: 0 "if it's assured").
3. `early_signal`: the comment at `yancat.c:262` says the signals are blocked at
   first; line 267 unblocks them before `g_shm` is mapped.
4. `lost_interrupt`: a signal recorded after `reaper()` looked at `errlog` does
   not end the loop (README: "until error, or user's interruption").

## 7. Not modelled, and why

- win32 branches: a subset of sp over another C library.
- Affinity, reports, help and error texts: no effect on the transfer.
- Strings as characters: specifications are their parts (section 2), names of shared
  objects are present, freed or absent; that random names differ is assumed.
- The search for a huge page mount (`get_hmnt()`, which finds one or fails) and the
  fixed addresses of ia64.
- The name lookup of `fd_ctor_s()`: it finds the host or not.
- `get_double()`, `get_page()`, `get_pathmax()`: their results are inputs.
- Lost pings of ids that were never stored, beyond what `Ping` has: reuse of ids is
  the kernel's.
- `write()` returning 0 for a positive count: does not happen on the descriptors
  in use; the code would spin.
- `attic/`: not compiled.
- Memory order: the stores of `release()` and of the label `outt` are taken in
  program order.  They are plain stores to `sig_atomic_t` fields without a barrier
  between `abrt` and `done`, in order on the machines the program was written
  for; the readers of `done` see it behind a semaphore or the mutex.

## 8. Plan for what is left

A `close()` or `fsync()` that fails: `FdClose` with a result, which the tasks ignore; and a death
between the stores of one critical section.
