----------------------------- MODULE MCResources -----------------------------
(***************************************************************************)
(* What is given out and must come back: spinlocks, disk blocks, pages,    *)
(* units of a program's heap, tickets of the lottery.  The five modules    *)
(* share no state, so one run explores them one after the other: part says *)
(* which, the others stay as they begin.                                   *)
(***************************************************************************)
EXTENDS Spinlock, Sequences, TLC

CONSTANTS tickslock, ptable, log, rrqueue, q1, q2

VARIABLES part,
  fs, size, off, todo, got, calls,        \* Blocks (calls: and Memory)
  free, proc, cr3, job, short, panic,     \* Memory
  heap, inUse, own,                       \* Umalloc
  q, state, priority, signalled           \* Lottery

\* How the kernel nests these locks, but for allocproc and exit: the timer and
\* sys_sleep; begin_op and end_op; pushProcToRRqueue.
Ordered == {<<tickslock, ptable>>, <<log, ptable>>, <<ptable, rrqueue>>,
            <<tickslock, rrqueue>>, <<log, rrqueue>>}
Symm == Permutations(Cpus)

B == INSTANCE Blocks WITH Inodes <- {1, 2}, Procs <- {q1, q2}, NMETA <- 1, SIZE <- 7,
       NLOG <- 1, BSIZE <- 2, NDIRECT <- 1, BPB <- 8, LOGSIZE <- 6, Bytes <- {1, 2},
       Counts <- {1, 4}, MaxCalls <- 4

\* Program files: the usual one, one with its segments in descending order and a gap
\* below them, one that is not aligned, and one too large for the address space.
Seg(va, end) == [va |-> va, aligned |-> TRUE, fileEnd |-> end, end |-> end]
Files == {<<Seg(0, 1)>>, <<Seg(1, 2), Seg(0, 1)>>, <<[Seg(0, 1) EXCEPT !.aligned = FALSE]>>,
          <<Seg(0, 1), Seg(1, 3)>>}
M == INSTANCE Memory WITH Slots <- 1..3, Pages <- 1..13,
       NPTENTRIES <- 2, VMAX <- 5, Programs <- Files, MaxCalls <- 6

U == INSTANCE Umalloc WITH LIMIT <- 10, MORECORE <- 3, Requests <- {1, 2, 4}

L == INSTANCE Lottery WITH NPROC <- 3, POLICY <- "PRS", EXE_TICKETS <- 2,
       FIFO_DIFFERECE <- 2, Priorities <- {0, 1, 2}

blocksOnly == <<fs, size, off, todo, got>>
memoryOnly == <<free, proc, cr3, job, short, panic>>
heapOnly == <<heap, inUse, own>>
lotteryOnly == <<q, state, priority, signalled>>
allvars == <<part, calls, blocksOnly, memoryOnly, heapOnly, lotteryOnly, vars>>

NoBlocks == fs = <<>> /\ size = <<>> /\ off = <<>> /\ todo = <<>> /\ got = <<>>
NoMemory == /\ free = {} /\ proc = <<>> /\ cr3 = <<>> /\ job = <<>> /\ short = FALSE
            /\ panic = FALSE
NoHeap == heap = <<>> /\ inUse = {} /\ own = {}
NoLottery == q = <<>> /\ state = <<>> /\ priority = <<>> /\ signalled = {}

MCInit ==
  /\ Init
  /\ \/ part = "blocks" /\ B!Init /\ NoMemory /\ NoHeap /\ NoLottery
     \/ part = "memory" /\ M!Init /\ NoBlocks /\ NoHeap /\ NoLottery
     \/ part = "heap" /\ U!Init /\ NoBlocks /\ NoMemory /\ NoLottery /\ calls = 0
     \/ part = "lottery" /\ L!Init /\ NoBlocks /\ NoMemory /\ NoHeap /\ calls = 0
     \/ part = "locks" /\ NoBlocks /\ NoMemory /\ NoHeap /\ NoLottery /\ calls = 0

OnBlocks == part = "blocks" /\ B!Next /\ UNCHANGED <<memoryOnly, heapOnly, lotteryOnly, vars>>
OnMemory == part = "memory" /\ M!Next /\ UNCHANGED <<blocksOnly, heapOnly, lotteryOnly, vars>>
OnHeap ==
  part = "heap" /\ U!Next /\ UNCHANGED <<calls, blocksOnly, memoryOnly, lotteryOnly, vars>>
OnLottery ==
  part = "lottery" /\ L!Next /\ UNCHANGED <<calls, blocksOnly, memoryOnly, heapOnly, vars>>
OnLocks ==
  part = "locks" /\ Next /\ UNCHANGED <<calls, blocksOnly, memoryOnly, heapOnly, lotteryOnly>>

\* All but the locks may stop, at their bounds or with a panic.
Stop == part # "locks" /\ UNCHANGED <<allvars>>

MCNext ==
  /\ OnBlocks \/ OnMemory \/ OnHeap \/ OnLottery \/ OnLocks \/ Stop
  /\ UNCHANGED part

MCSpec == MCInit /\ [][MCNext]_allvars
------------------------------------------------------------------------------
In(x, F) == part = x /\ F

\* A disk block is free, or the file system's own, or part of one file, once; one of
\* the log's is part of a file only if no other is free.
BlocksExact == part = "blocks" => B!BlocksExact

\* "write a few blocks at a time to avoid exceeding the maximum log transaction
\* size": one turn of filewrite has room in a log that it has to itself.
FitsLog == part = "blocks" => B!FitsLog

Bytes == INSTANCE FileBytes WITH Files <- {1, 2}, Bytes <- {1, 2}, MAXSIZE <- 6,
  MAXCHUNK <- B!max,
  content <- IF part = "blocks" THEN [i \in {1, 2} |-> B!Content(i)] ELSE << <<>>, <<>> >>,
  off <- IF part = "blocks" THEN off ELSE <<0, 0>>

\* Through bmap, readi and writei a file is an array of bytes with an offset: a read
\* returns what was written there last, whatever blocks were freed and given out
\* again, and of two writes on one struct file each chunk has its own place.  It
\* holds until balloc gives a sector of the log to a file.
FileSpec == Bytes!Init /\ [][Bytes!Next \/ In("blocks", B!Strayed')]_(Bytes!vars)

\* A page has one use, and none is lost before mappages is refused a page.
PagesExact == part = "memory" => M!PagesExact

\* A process has all the pages below its size, and none above it.
SpaceWhole == part = "memory" => M!SpaceWhole

\* malloc and free account for every unit of the heap.
HeapExact == part = "heap" => U!HeapExact

\* No RUNNABLE process but those that sigsend woke is shut out of the lottery.
EveryoneCanWin == part = "lottery" => L!EveryoneCanWin
==============================================================================
