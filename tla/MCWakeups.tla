------------------------------ MODULE MCWakeups ------------------------------
(***************************************************************************)
(* The parts of the kernel that put a process to sleep until a driver or   *)
(* another process wakes it: the buffer cache on the disk driver, a pipe,  *)
(* and the console.  They share no state, so one run explores them one     *)
(* after the other: part says which, the others stay as they begin.        *)
(***************************************************************************)
EXTENDS Bcache, TLC

CONSTANTS w1, r1, r2, p1, p2, p3, s1, s2, s3, c1, c2, Eof, Nothing

VARIABLES part,
  nread, nwrite, readopen, writeopen, ring, lock, freed, open,   \* Pipe
  at, todo, count, got, slain,
  r, w, e, typed, where, n, target, gone                         \* Console

Contents == s1 :> {0, 1} @@ s2 :> {0} @@ s3 :> {0}
\* One process with one buffer at a time, and one with two: it keeps s1, an indirect
\* block, while it reads another block.
OwnerOf == p1 :> 1 @@ p2 :> 2 @@ p3 :> 2
Order == {<<s1, s2>>, <<s1, s3>>}

P == INSTANCE Pipe WITH Writers <- {w1}, Readers <- {r1, r2}, Killable <- {w1},
       PIPESIZE <- 1, Wrap <- 2, Bytes <- {0}, MaxCount <- 3,
       data <- ring, pc <- at, want <- count, killed <- slain

C == INSTANCE Console WITH Readers <- {c1, c2}, Killable <- {c2}, INPUT_BUF <- 3,
       Word <- 6, Letters <- {"a"}, MaxRead <- 2,
       buf <- typed, pc <- where, killed <- gone

pipe == <<nread, nwrite, readopen, writeopen, ring, lock, freed, open,
          at, todo, count, got, slain>>
console == <<r, w, e, typed, where, n, target, gone>>
allvars == <<part, vars, pipe, console>>

MCInit == part \in {"disk", "pipe", "console"} /\ Init /\ P!Init /\ C!Init

OnDisk(A) == part = "disk" /\ A /\ UNCHANGED <<part, pipe, console>>
OnPipe(A) == part = "pipe" /\ A /\ UNCHANGED <<part, vars, console>>
OnCons(A) == part = "console" /\ A /\ UNCHANGED <<part, vars, pipe>>

MCNext == OnDisk(Next) \/ OnPipe(P!Next) \/ OnCons(C!Next)

(***************************************************************************)
(* Fairness.  A process in the kernel runs on, the drive and its interrupt *)
(* come, readers read again and again: weak fairness.  Whoever spins on a  *)
(* lock gets it, and whoever holds a buffer gives it back: strong fairness.*)
(* One part runs and the actions of a process exclude each other, so that  *)
(* fairness of the disjunctions below is fairness of each disjunct.        *)
(***************************************************************************)
PipeRuns(p) == P!Sleep(p) \/ IF p = w1 THEN P!Write(p) ELSE P!Read(p) \/ P!ReadCall(p)
DiskRuns(p) == iderw(p) \/ IderwWoken(p) \/ Bget(p)
ConsRuns(p) == C!Sleep(p) \/ C!ReadCall(p)

Fairness ==
  /\ WF_allvars(OnPipe(PipeRuns(w1)) \/ OnDisk(DiskRuns(p1)) \/ OnCons(ConsRuns(c1)))
  /\ WF_allvars(OnPipe(PipeRuns(r1)) \/ OnDisk(DiskRuns(p2) \/ DiskRuns(p3)) \/ OnCons(ConsRuns(c2)))
  /\ WF_allvars(OnPipe(PipeRuns(r2)) \/ OnDisk(DriveDone \/ ideintr))
  /\ SF_allvars(OnPipe(P!Acquire(w1)) \/ OnDisk(brelse(p1)) \/ OnCons(C!Copy(c1)))
  /\ SF_allvars(OnPipe(P!Acquire(r1)) \/ OnDisk(brelse(p2)) \/ OnCons(C!Copy(c2)))
  /\ SF_allvars(OnPipe(P!Acquire(r2)) \/ OnDisk(brelse(p3)))

MCSpec == MCInit /\ [][MCNext]_allvars /\ Fairness
------------------------------------------------------------------------------
In(x, F) == part = x /\ F

\* Who sleeps is woken.  A write on a pipe with one writer returns: the bytes find
\* room, or the read end is closed.  (Two writers can starve each other: wakeup
\* favours nobody.)  A process that sleeps in bget has its buffer released under it,
\* unless the machine stops for want of buffers.  (bget queues nobody: it may find
\* the buffer taken again, and with a third process the holder may sleep in bget too.)
CallReturns ==
  In("pipe", at[w1] = "call") \/ In("disk", pc[p1] = "asleep") ~>
  In("pipe", at[w1] = "idle") \/ In("disk", pc[p1] # "asleep" \/ panicked)

\* Once the write end of a pipe is closed, a read ends, with the bytes that
\* are left or with end of file: pipeclose wakes all the readers.
EofDelivered == In("pipe", ~writeopen /\ at[r1] # "idle") ~> In("pipe", at[r1] = "idle")

Lines == INSTANCE LineInput WITH INPUT_BUF <- 3, Chars <- C!Chars,
  entered <- C!Slice(r, w), line <- C!Slice(w, e)

\* consoleintr and consoleread are an editable line in front of a queue of
\* characters: none is lost, overwritten or read twice when the ring and its
\* indices wrap around, the editing keys cannot reach what has been entered,
\* and "caller gets a 0-byte result" for each end of file.
LinesSpec == Lines!Spec

\* A full console buffer is read in the end, with or without a newline in it.
FullDrains == In("console", C!Minus(e, r) = 3) ~> In("console", C!Minus(e, r) < 3)
==============================================================================
