# A TLA+ model of the kernel

The system is xv6 for x86 with three additions: signals, the FRR, FCFS and PRS
schedulers beside the default one, and per-process time statistics. The modules
here model the parts of it where processes, CPUs, interrupts, failures and
crashes interleave, and two programs above it, the shell and the user-level
allocator. Source references are to `src/`.

## Inventory

| Part | Source | Modules |
|---|---|---|
| write-ahead log | `log.c` | `AtomicDisk`, `Log`, `MCLog`, `LogProofs`, `LogDiskProofs` |
| spin locks, interrupts | `spinlock.c`, `trapasm.S` | `Spinlock`, `MCSpinlock`, `SpinlockProofs` |
| run queue, lottery | `proc.c` | `RRQueue`, `Lottery` |
| process table, scheduler | `proc.c` | `Proc` (on `RRQueue`), `MCProc`, `ProcProofs` |
| signals | `proc.c`, `trap.c`, `trapasm.S`, `sysproc.c` | `Signals`, `MCSignals`, `MCPrograms`, `SignalsProofs` |
| clock, statistics, sleep | `trap.c`, `proc.c`, `sysproc.c` | `Clock`, `ClockProofs` |
| pipes | `pipe.c` | `ByteStream`, `Pipe`, `MCPipe`, `PipeProofs` |
| buffer cache, disk driver | `bio.c`, `ide.c` | `SectorStore`, `Bcache`, `BcacheProofs` |
| console input | `console.c` | `LineInput`, `Console` |
| inode cache, directories, path names, file table, file system calls | `fs.c`, `file.c`, `sysfile.c` | `Files`, `MCFiles` |
| file contents, disk blocks | `fs.c`, `file.c`, `mkfs.c` | `FileBytes`, `Blocks` |
| memory, `exec` | `kalloc.c`, `vm.c`, `exec.c`, `proc.c` | `Memory` |
| user-level allocator | `umalloc.c` | `Umalloc` |
| shell | `sh.c` | `Shell` |
| boot, controllers, other user programs | | not modelled |

A file system call (`Files`) works on inodes whose contents are blocks
(`Blocks`), which it reads and writes through buffers (`Bcache`) inside a
transaction (`Log`). Everything that waits does so through `sleep` and `wakeup`
of the process table (`Proc`), which spin locks (`Spinlock`) protect. The timer
(`Clock`) drives the statistics, `sys_sleep` and preemption. `Proc` uses the
operators of `RRQueue` for its run queue; the other components model their use
of `sleep` and `wakeup` directly.

`MCWakeups` (pipe, buffer cache, console), `MCResources` (spin locks, blocks,
memory, heap, lottery) and `MCPrograms` (signals, shell) put modules that share
no state into one run: `part` is chosen in `Init`, and each module is explored
from its own initial states, the others standing still.
`MCLog` does the same with two instances of `Log`.

## The modules

**Log.** `begin_op`, `end_op` and the locked part of `log_write` are one step
each (they hold `log.lock`). The check at the head of `log_write` reads
`log.lh.n` and `log.outstanding` without the lock, so it is a step of its own.
`commit` holds no lock: each of its disk writes is a step, and `Crash` may
happen between any two, in recovery too. Buffers are cached values that
`Recycle` may drop unless they are pinned (`B_DIRTY`). The log on disk has `NLOG`
sectors, one of them the header, and `LOGSIZE = NLOG` as in `mkfs.c:17`;
an operation logs up to `OPBLOCKS` blocks. The history variable `modest` is true
as long as every operation of the transaction has logged fewer than the
`MAXOPBLOCKS` blocks it reserved. `AtomicDisk` is the promise: operations take
effect in groups, all or nothing.

**Spinlock.** `acquire` and `release` are split at the atomic exchange, because
`holding` reads `lk->cpu`, which is written outside of it. CPUs nest locks and
take interrupts whose handlers take locks too.

**RRQueue, Lottery.** The doubly linked FIFO threaded through
`struct proc`, and the tickets given out over it, as operators from queue to
queue. `Lottery` drives them by wakeups, sleeps, scheduling passes, changes of
priority and `sigsend`, which makes a sleeper RUNNABLE without queueing it
(`proc.c:725`): `signalled` is the set of those it woke.

**Proc.** A step is one critical section of `ptable.lock` or a step between two.
The lock is a variable, because `swtch` hands it from process to scheduler and
back. The failure path of `fork` frees its slot without the lock.

**Signals.** The updates of `pending` are a read and a write; `sigsend` holds
`ptable.lock` in between, `handleSignals` holds nothing. The trap frame is the
place to resume and `eax`. `handler`, `interrupted` and `owed` are history
variables. `sigreturn` may be called at any time, not only through the
trampoline, and a slot that is used again may start inside a handler, as the
child of a `fork` there does. A call that is refused is an instance of `Call`. The page that
`handleSignals` takes for `backuptf` is assumed to be there (it is not checked,
`trap.c:116`).

**Clock.** `advanceprocstats` is modelled one test of `p->state` at a time,
since it does not hold `ptable.lock`. `fork` sets `ctime` under `tickslock`
(`ForkTime`) and makes the child RUNNABLE under `ptable.lock` alone (`ForkRun`),
so a pass of the timer may begin in between; `timed` says which embryos have
their `ctime`. A tick takes `tickslock` and `ptable.lock`
in one step; that the two can be taken in opposite orders is the subject of
`SpinlockOrder`.

**Pipe.** Between the test of `proc->killed` and the change of state in `sleep`
the pipe's lock is held but `kill` may step in: this is the step "doze". The
counters wrap at `Wrap`. `ByteStream` is the promise: one bounded stream.

**Bcache.** `bget`, `brelse`, `iderw` and `ideintr` are critical sections and
one step each, split where they sleep. A process sleeps in `bget` for a busy
buffer and in `iderw` for the drive, on the same channel, so each wakeup reaches
both. `log_write` leaves a buffer dirty, which pins it. `Refs` are the pointers
to buffers: `bmap` and `itrunc` keep the indirect block while `balloc` and `bfree`
read the bitmap, and `write_log` and `install_trans` copy from one buffer to
another, so that a process (`Owner`) has two. `Nests` says over which sector which
other one is read. `SectorStore` is the promise: `bread` gives a sector to one
pointer at a time, with its last content.

**Console.** Typing, the editing keys and `consoleread` on the ring with the
indices `r`, `w`, `e`, which wrap at `Word` (2^32 in the code). As in `Pipe`,
`kill` may come between a test and a sleep. `LineInput` is the promise: an
editable line in front of a queue of characters.

**Files.** A call is a sequence of steps that break where it may have to wait for
an inode's lock, and at each `iput`, which drops `icache.lock` while it frees an
inode. `k[p]` says where process `p` is: `namex` step by step, then the body of
the call. `puts` are the references it still has to give back. The cache, the
file table and the descriptors are finite and run out. A path is a sequence of
names; contents of files are left to `Blocks`, transactions to `Log`.

**Blocks.** Bitmap, inode addresses and block contents under `bmap`, `itrunc`,
`readi`, `writei`; `filewrite` is one step per transaction and keeps its place in
`todo`, so that two writers of one `struct file` interleave between chunks.
`fs.log` collects the blocks that a transaction logs, and `log_write` stops the
machine at `LOGSIZE - 1` of them, as `bfree` does at a free block. The last
blocks of the disk are the log's; `mkfs` does not mark them and `balloc` gives
them out when no other is left. A behaviour ends there (`Strayed`), since the
log overwrites the file from then on. `FileBytes` is the promise: an array of
bytes with an offset.

**Memory.** Page tables as a directory, a kernel table, user tables and pages.
`fork`, `exec` and `growproc` take one page at a time from the free list, a page
and the page table for it in two steps, and interleave with each other; each may
fail at each page. `exec` loops over the program headers of a file: their
addresses come in any order, with gaps, not page aligned (where `loaduvm` stops the
kernel) or too large. `short` records that
`mappages` or `setupkvm` was refused a page, after which the code loses pages (see
below). `cr3` is the directory a process runs on.

**Umalloc.** `malloc`, `morecore` and `free` on the circular list; addresses
count in headers. The program also calls `sbrk` itself, so `morecore`'s blocks
need not be adjacent, and `sbrk` fails at `LIMIT`.

**Shell.** The parser as operators from a line of tokens to a command, checked
against a second definition that splits the line at its separators; `runcmd` as
processes with descriptors, `fork`, `exec`, `open` and `pipe` each of which may
fail. A program reads its input to the end and exits.

## Runs that pass

| Run | Shows |
|---|---|
| `Log` | two processes: the log implements `AtomicDisk` with a crash at any point, between operations the disk is what was committed, a commit runs alone; three processes: the space reserved by `begin_op` suffices as long as no operation uses all of it, and who sleeps is woken |
| `ProcTable` | two CPUs, three slots, DEFAULT: one CPU per process, nobody RUNNABLE starves, init reaps orphans |
| `ProcQueue` | two CPUs, four slots, FRR: the run queue holds RUNNABLE processes in one chain, no missed exit or kill in `wait`, parents alive |
| `PipeStream` | two writers, a reader that may be killed: one byte stream, the page is freed when unused |
| `Wakeups` | pipe: a write returns, end of file is delivered. Buffers: one buffer per sector, a sound disk queue, no sleeper on a free buffer, enough buffers if `NBUF` covers the pinned ones and two per process, a sleeper in `bget` is woken; `Bcache` implements `SectorStore`. Console: implements `LineInput`, and a full buffer is read |
| `Files` | two processes: `ref` of inodes and files counts the descriptors, current directories and half-done calls; an inode with a name or a user is not freed and `nlink` agrees with the entries; no two processes wait for each other's inodes; of the panics only the known ones happen |
| `Resources` | locks: mutual exclusion without a panic; interrupts off exactly in critical sections and restored after. Blocks: each is free, the system's, or one file's, once, and one of the log's is a file's only on a full disk; a chunk of `filewrite` fits a log that it has to itself; `Blocks` implements `FileBytes` up to the step that gives away a block of the log. Memory: a page has one use and none is lost unless `mappages` was refused; no process has holes, and the kernel stops for no program file but one with an unaligned segment. Heap: every unit is free once or in use. PRS: every RUNNABLE process that `sigsend` did not wake holds a ticket that can be drawn |
| `Programs` | signals: a process that signals itself loses no signal, handles each, and resumes where it was interrupted. Shell: the parser yields what the line means, each program runs with the descriptors the line gives it and no other, the prompt returns |
| `Clock` | no tick is counted twice for a process, the quantum is bounded, `sleep` is not cut short by a wrap of `ticks` |

## Disagreements between the code and what is said of it

Three runs end in a violation: each checks what a comment says and finds a
behaviour of the code that differs.

| Run | Behaviour |
|---|---|
| `LogFull` (`AdmittedFits`) | three operations that each use the block they reserved, in a log of `LOGSIZE = MAXOPBLOCKS * 3` sectors as `param.h` and `mkfs.c` make it: the third meets the panic of `log_write`, whose limit is `log.size - 1` (`log.c:215`) |
| `SpinlockOrder` (`NoCircularWait`) | `tickslock` and `ptable.lock` are taken in both orders |
| `SignalsLost` (`PendingExact`) | `pending` is updated by two CPUs without a common lock |

TLC finds the following properties of the modules violated too, under the
constants named. Each was checked alone and is not among the runs:

| Property | Behaviour |
|---|---|
| `Blocks!LogApart`, the constants of `Resources` | on a full disk `balloc` gives a sector of the log to a file: it looks for blocks up to `sb.size` (`fs.c:61`) and `mkfs` marks only the first ones (`fs.h` says that data blocks and log blocks are apart) |
| `Lottery!PickFailsOnlyWhenEmpty`, FRR | `pickProcess` returns 0 with a FIFO that is not empty (`proc.c:94` says only if it is) |
| `Proc!RunnableQueued`, FRR, one CPU | `sigsend` makes a sleeper RUNNABLE without queueing it (not with DEFAULT, the Makefile's choice) |
| `Proc!BornAlive`, one CPU | `kill` marks an unused slot, whose next process is born killed |
| `Pipe!KilledAwake`, reader killable | `kill` between the test of `killed` and the sleep |
| `Signals!FrameRestored`, two processes | the result of the interrupted call becomes 0 |
| `Signals!InsignalExact`, two processes | `insignal` survives its process |
| `Signals!HandledCanBeSent` | signal 31 can be handled but not sent |
| `Signals!TrampolineKept`, two processes | a handler that uses the first words of its frame overwrites the trampoline; one without locals, like that of `test.c`, need not |
| `Clock!StatsAreTime`, `Wrap = 100`, `MaxTicks = 3`, `MaxCalls = 2` | a program that calls `advanceprocstats` adds to everyone's times; with `MaxCalls = 0` the property holds |

The models have further behaviours that the properties allow for:

- `Files`: `..` of a removed directory can name an inode that has been freed
  ("ilock: no type", `fs.c:295`); the inode cache and the inodes on disk running
  out are panics (`fs.c:243`, `fs.c:197`), and a file created in a removed
  directory keeps its link count.
- `Log`: an operation that logs more than `MAXOPBLOCKS` blocks is possible
  (`OPBLOCKS` may exceed it, and a chunk of `filewrite` does). A transaction
  whose operations use their reservations up can leave the log, since the check of
  `log_write` is not under `log.lock`; `AtomicSpec` excepts the steps taken in that
  state (`Overfull`).
- `Blocks`: `balloc` stops the kernel when the disk is full. The chunk of
  `filewrite` fits in a log that has no other operation in it, which is what its
  comment says, but is more than the `MAXOPBLOCKS` that `begin_op` reserves.
- `Bcache`: `bget` stops the kernel when every buffer is busy or pinned. With
  `NBUF = 30` and up to `LOGSIZE - 1 = 29` pinned buffers, the bound of
  `BufferInv` is not met when the log is full.
- `Memory`: `allocuvm` ignores the result of `mappages` (`vm.c:240`) and leaves a hole;
  `setupkvm` loses its directory and `copyuvm` a page when `mappages` fails;
  `growproc` to size 0 reports failure with the pages gone.
- `Shell`: of two redirections of one descriptor the first on the line
  decides, since the last one typed is the outermost.

All of these are behaviours of the models; none was reproduced on a running
kernel.

## Bounds

Small sets suffice where the code treats processes alike: two or three
processes per role give every pair of steps. `MaxPid`, `MaxSends`, `MaxBirths`,
`MaxTicks` and `MaxCalls` bound counters that only grow, so a run says nothing
about behaviours that need more of them.

- `ProcQueue` has four slots because init's own wakeup in `exit` matters only
  when the parent that exits is not a child of init; the liveness of `ProcTable`
  is checked with three slots, where that case does not arise. In `ProcQueue`
  processes sleep only in `wait` (`Chans = {}`) and have one priority; sleeping
  elsewhere is in `ProcTable`, priorities are in `Resources` (`Lottery`).
- In `PipeStream`, `PIPESIZE` 2 and `Wrap` 4 make the pipe full, empty and
  wrapped within a few bytes; in `Wakeups`, where liveness is checked, they are 1
  and 2. There the pipe has one writer, since two can starve each other;
  in `PipeStream` writers are not killed: a killed writer that filled the pipe
  does not wake the reader, which a second writer's wakeup may hide.
- In `Log`, `LOGSIZE = NLOG = 2 * MAXOPBLOCKS`, the smallest log that admits two
  operations at once (the code's ratio is 3), and operations may use up their
  reservation of two blocks. `LogFull` has the code's ratio with `MAXOPBLOCKS = 1`.
- `Bcache` has two buffers for three sectors and one pinned buffer, and a process
  with one pointer beside one with two, so that recycling, waiting for a process
  that itself waits, and the panic of `bget` all happen. The ring of the console
  has three characters and its indices wrap at 6.
- `Files` makes three calls with a path on four small trees, with four inodes on the disk, four
  in the cache, two `struct file` and two descriptors per process: each of them
  runs out. `close`, `fork` and `exit` are not counted.
- `Blocks` has seven blocks of two words, one direct and two indirect words per
  file. As on the disk that `mkfs` makes (1024 blocks, 4096 bits in a block) one
  block holds the bitmap. One block is the log's, which is enough to tell it apart.
  `LOGSIZE` is 6: a chunk is one block, and an unaligned one into the indirect
  part logs the five blocks that `log_write` takes. `Memory` has 13 pages for
  three processes of up to four pages and four program files; addresses do not
  wrap around in it. `Umalloc` has ten units. `Shell` parses every line of up to five
  tokens and runs six longer ones.
- `Signals` has one process, since a second sender makes `SignalsLost`. `Clock`
  allows one call of `kill` or of `sys_advanceprocstats`, not both.

A killed process may go on making calls in `Proc` and `Clock`, where the kernel
ends it at its next return to user mode: the models allow more than the code.

## Fairness

Weak fairness for a CPU that can go on, for the drive and for its interrupt.
Strong fairness for taking a lock that others release again and again: the spin
locks do not guarantee it, the hardware's arbitration is assumed to. In `Proc`,
init calls `wait` for ever (`init.c`), and the timer preempts. In `Log`, a call
reaches its `end_op`. In `MCWakeups`, readers of a pipe and of the console read
again, and whoever holds a buffer gives it back (every `bread` in the code is
followed by a `brelse`). Nothing is assumed about who gets a buffer next: `bget`
queues nobody, a sleeper that is woken may find the buffer taken again, and
`CallReturns` says of it only that it is woken. In `Signals`, a program makes
system calls and a handler that can return does. In `MCPrograms`, some process of
the shell runs while one can, and a program ends at the end of its input.

## Proofs

The theorems hold for all values of the constants that the named assumption of
the component's module allows; TLC evaluates the assumptions in the runs. Each
proof has the same shape: an inductive invariant (`IInv` of the component, or the
part of it that a theorem needs), one lemma per action, and a short last step. TLC
checked the invariants on the small instances before they were proved.

Some of the state is kept as sets of processes (`killed` of `Proc`, `Pipe` and
`Clock`, `open` of `Pipe`, `insignal`, `trampoline` and `handler` of `Signals`)
where the code has a flag per process: it is the same state, and the provers reason
about membership better than about functions to Booleans.

**`LogProofs`**, from `LogAssumption`:

- `TypeCorrect`: the type invariant.
- `CommitRunsAlone`: while a commit is under way no operation runs. The
  strengthening `CountInv` says that `outstanding` counts the processes inside
  operations, `PhaseInv` that one process at most is in `commit`.
- `NoLostWakeup`: who sleeps in `begin_op` has an operation or a commit that
  will wake it.
- `LogSpace`: `ReservationSuffices`, that is, with `NLOG = LOGSIZE` too
  `log_write` does not panic in a transaction whose operations leave one of their
  reserved blocks unused, by `SpaceInv`, which bounds the entries by what the
  operations have not used. That it does otherwise is the run `LogFull`.

**`LogDiskProofs`**, from `LogAssumption` too, whatever the operations write:

- `QuietDurable`: `QuietIsDurable`.
- `LogImplementsAtomicDisk`: `AtomicSpec`, that is, `Log` implements
  `AtomicDisk`, except for steps taken while a transaction has more blocks than the
  log has sectors.

Both rest on `DiskInv`. `HeadInv` says that the header on disk is empty except
while a transaction is being installed, when it equals the one in memory, and that
no block is in it twice; `PinInv` that the pinned buffers are the logged
blocks that are not yet home; `CacheInv` that a buffer that is neither pinned nor
being written equals its home block, so that recycling it loses nothing; `CopyInv`
how far `write_log` and `install_trans` have come. With these the disk as recovery
would leave it changes in one step only, the write of the header in `commit`: every
other disk write, `Crash` included, leaves it alone.

**`SpinlockProofs`**, for any CPUs, any finite set of locks and any nesting order:

- `LocksExclude`: `MutualExclusion`, with no panic reached.
- `InterruptsKept`: `InterruptsExact`.

Neither is inductive. The invariant `IInv` adds what the code relies on between
the exchange and the write of `lk->cpu`: `CpuInv` ties `ncli`, `intena` and the
interrupt flag of a CPU to the locks it holds and the place it is at (`ncli`
counts the locks, plus the one being waited for or just released); `LockInv` says
that no two CPUs have the same lock and a lock that one has is marked taken; and
`OwnerInv` that `lk->cpu` is a CPU exactly while that CPU has the lock and is at
neither end of its critical section. `UntouchedInv` carries it over for the CPUs
that do not move.

**`SignalsProofs`**, for any processes, signals and handlers:

- `SelfSignalsExact`: `SelfSendsExact`. A process that others signal too is not
  covered, and cannot be: see `SignalsLost`. Other processes may signal each
  other meanwhile.
- `ResumesInterrupted`: `ResumesWhereInterrupted`, whoever sends signals. By
  `FrameInv`, `insignal` is set while a handler runs and `backuptf` is then the
  frame that was interrupted.

**`BcacheProofs`**, for any finite set of pointers and any owners of them, any
sectors, nesting and contents and any `NBUF` and `MAXPINNED`:

- `BuffersSound`: `BufferInv`.
- `CacheImplementsStore`: `StoreSpec`, that is, `Bcache` implements
  `SectorStore`.

The inductive invariant `IInv` says where the flags of a buffer come from:
`OneHolder`, `HoldInv` and `BusyHeld` that a busy buffer has exactly one holder
and is the buffer of the sector the holder asked for; `PcInv` which flags it has
at each place of its holder (so that `iderw` never panics); `QueueInv` that the
queue is the set of the buffers waited for in `iderw`; `DriveInv` that the drive
works on the head of the queue as it was when `idestart` ran, and that after a
write the disk has its data; `CacheInv` that a clean valid buffer equals its
sector; `LruInv` that the list has every buffer once, without which the first
scan of `bget` could miss a cached sector. `PinInv` counts the buffers the log
pins; when `bget` finds none to recycle, the busy buffers inject into the other
pointers, so `NBUF` is less than the pointers and the pinned ones together.
`StopInv` says that the machine stops only then.
The refinement shows that `bget` is `Take`, `bwrite` and `log_write` are `Store`, `brelse` is
`Drop`, and every other step leaves the contents and the holders alone.

**`PipeProofs`**, for any sets of writers and readers, any `PIPESIZE` and any
larger multiple `Wrap` of it at which `nread` and `nwrite` wrap (2^32 in the
code):

- `PipeFreedUnused`: `FreedUnused`. `EndInv` says that an end is marked open as
  long as somebody has a descriptor of it, `CallInv` that who is inside a call has
  one.
- `PipeIsStream`: `StreamSpec`, that is, `Pipe` implements `ByteStream`. Its
  first half is arithmetic: the distance between the counters modulo `Wrap` is the
  number of bytes in the ring, and since `PIPESIZE` divides `Wrap` the place
  of the next byte does not jump when a counter wraps.

**`ProcProofs`**, for any numbers of processes and CPUs:

- `OneCpuEach`: `RunsOnOneCpu`; `ParentsLive`: `ParentAlive`; `WaitSeesAll`:
  `WaitMissesNothing`. They are proved together. `LockInv` says that the CPU of a
  process between the scan of `wait` and its sleep has `ptable.lock`; `ForkInv`
  that a slot that `fork` is filling is its own and nobody else's; `FreeInv` that
  a free slot has no parent and init never ends.

They have the hypothesis `[]PicksRunnable`: what the lottery of FRR, FCFS or PRS
picks is RUNNABLE. That is a conjunct of `QueueHoldsRunnable`, which TLC checks
(run `ProcQueue`); the lottery follows the links of the queue one by one, and
what such a recursion yields for a queue of any length cannot be proved here. With
the DEFAULT policy there is no lottery, and `DefaultScheduler` states the three
without the hypothesis.

**`ClockProofs`**, for any `NPROC`, `QUANTA` and `Wrap`:

- `ClockCountedOnce`: `CountedOnce`. `CountInv` adds the two scans that may be
  under way, the timer's and a program's: a process that a scan has not passed
  yet has been counted one time less. The embryos of
  `timed`, whose `ctime` is set, are included, because a pass may begin before they
  are RUNNABLE.
- `ClockQuantumBounded`: `QuantumBounded`. `QuantumInv` relates the interrupts
  a process has run for to `runQuanta` modulo `QUANTA`, which is what survives
  that `trap` sets it from `rutime`.
- `ClockSleepsLongEnough`: `SleepsLongEnough`, an action property. `SleepInv`
  says that `ticks0` is the time of the call modulo `Wrap`.

Only model-checked:

- every liveness property (`SleeperWakes`, `RunnableRuns`, `OrphanReaped`,
  `CallReturns`, `EofDelivered`, `FullDrains`, `PendingHandled`,
  `PromptReturns`): fairness is outside of the prover's reach;
- `QueueHoldsRunnable` and `EveryoneCanWin`: induction over the links of the queue;
- `FitsLog`, `BlocksExact`, `HeapExact`, `RunsAsWritten` and the refinement
  `FileSpec`: recursion over blocks, free list, tokens or processes;
- `Files`, `Memory` and `Console` with `LinesSpec`: nothing is proved about
  them yet.

`AdmittedFits`, `NoCircularWait` and `PendingExact` fail, so nothing is proved
about them.

## Not modelled

- Boot, interrupt controllers, segment and kernel mappings: run once, hardware.
- The fetching of system call arguments (`syscall.c`), `sys_exec`'s copying of
  `argv`, the error paths of `pipealloc` and `sys_pipe`, the characters of a path
  in `skipelem`: sequential code on addresses and strings.
- Output to the screen and the serial line, the decoding of key codes.
- The shell's characters (its lexer, `nulterminate`), and `cd`.
- The other user programs and tests. `init` appears as fairness of `Proc`,
  `test.c`'s sends to itself as those of `Signals`.
- `mkfs.c` beyond the layout and the blocks it marks; `memide.c`, which replaces
  the disk driver in another build.
- Read errors of the drive: `ideintr` marks the buffer valid whatever the
  drive's status (`ide.c:106`); the drive of `Bcache` does not fail.
