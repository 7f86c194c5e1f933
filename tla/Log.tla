--------------------------------- MODULE Log ---------------------------------
(***************************************************************************)
(* The write-ahead log of log.c: group commit of concurrent file-system    *)
(* operations, the unlocked space check of log_write, absorption, the      *)
(* buffers pinned in the cache by B_DIRTY, and recovery after a crash at   *)
(* any point (of recovery too).                                            *)
(*                                                                         *)
(* Steps.  begin_op, end_op and the locked part of log_write run under     *)
(* log.lock and are one step each.  commit() runs without a lock, so each  *)
(* of its disk writes is a step: a crash may separate any two of them.     *)
(* A single sector write is atomic (external: the IDE disk).               *)
(***************************************************************************)
EXTENDS Naturals, Sequences, FiniteSets, Functions

CONSTANTS
  Procs,        \* processes that make file-system calls
  Boot,         \* the first process; its forkret calls initlog
  Blocks,       \* home blocks of the file system
  Vals,         \* block contents
  NotCached,    \* a block with no buffer in the cache
  NoBlock,      \* log_write holds no buffer
  OPBLOCKS,     \* bound: different blocks that one operation writes
  MAXOPBLOCKS,  \* blocks that begin_op reserves for an operation
  LOGSIZE,      \* entries of the header, and the blocks begin_op gives out
  NLOG          \* log.size: sectors of the log on disk, its header included

ASSUME LogAssumption ==
  /\ IsFiniteSet(Procs) /\ Boot \in Procs
  /\ Vals # {} /\ NotCached \notin Vals
  /\ NoBlock \notin Blocks
  /\ OPBLOCKS \in Nat /\ MAXOPBLOCKS \in Nat \ {0}
  /\ LOGSIZE \in Nat /\ 2 * MAXOPBLOCKS <= LOGSIZE   \* param.h: 3 * MAXOPBLOCKS
  /\ NLOG \in Nat /\ LOGSIZE <= NLOG                 \* mkfs.c: LOGSIZE

VARIABLES
  home,         \* disk: the home blocks
  slot,         \* disk: sectors log.start+1, ..., log.start+NLOG-1
  head,         \* disk: the log header, the sequence sector[0..n-1]
  cache,        \* buffer cache: a block's buffer, or NotCached
  dirty,        \* buffer cache: blocks whose buffer has B_DIRTY
  lh,           \* log.lh: the in-memory header
  outstanding,  \* log.outstanding
  committing,   \* log.committing
  up,           \* initlog has returned: other processes may run
  halted,       \* a panic stopped the machine
  pc,           \* where each process is
  tail,         \* the loop counter of write_log and install_trans
  buf,          \* the B_BUSY buffer a process passes to log_write
  wrote,        \* blocks the current operation of a process has written
  modest        \* history: since the log was last empty every operation has
                \* written fewer than MAXOPBLOCKS different blocks

disk == <<home, slot, head>>
mem  == <<cache, dirty, lh, outstanding, committing, up, halted>>
proc == <<pc, tail, buf, wrote, modest>>
vars == <<disk, mem, proc>>

InOp == {p \in Procs : pc[p] \in {"op", "log_write"}}
Committer == {p \in Procs : pc[p] \in {"write_log", "install_trans", "done"}}

\* bread: the cached buffer, or the sector read from disk.
Content(b) == IF cache[b] = NotCached THEN home[b] ELSE cache[b]

\* wakeup(&log): every process asleep in begin_op goes back to its loop.
Woken == [q \in Procs |-> IF pc[q] = "asleep" THEN "begin_op" ELSE pc[q]]

------------------------------------------------------------------------------
Init ==
  /\ home \in [Blocks -> Vals]
  /\ slot \in [1..NLOG - 1 -> {CHOOSE v \in Vals : TRUE}]
  /\ head = <<>>
  /\ cache = [b \in Blocks |-> NotCached]
  /\ dirty = {}
  /\ lh = <<>>
  /\ outstanding = 0
  /\ committing = FALSE
  /\ up = FALSE
  /\ halted = FALSE
  /\ pc = [p \in Procs |-> IF p = Boot THEN "read_head" ELSE "user"]
  /\ tail = [p \in Procs |-> 0]
  /\ buf = [p \in Procs |-> NoBlock]
  /\ wrote = [p \in Procs |-> {}]
  /\ modest = TRUE

\* Mutant: the operation that asks is not counted.
NoRoomForgetsCaller == Len(lh) + outstanding * MAXOPBLOCKS > LOGSIZE

NoRoom == Len(lh) + (outstanding + 1) * MAXOPBLOCKS > LOGSIZE

\* begin_op, the iterations that sleep on &log.
BeginOpSleep(p) ==
  /\ up /\ pc[p] \in {"user", "begin_op"}
  /\ committing \/ NoRoom
  /\ pc' = [pc EXCEPT ![p] = "asleep"]
  /\ UNCHANGED <<disk, mem, tail, buf, wrote, modest>>

\* Mutant: begin_op does not wait for a commit to end.
BeginOpInCommit(p) ==
  /\ up /\ pc[p] \in {"user", "begin_op"}
  /\ ~NoRoom
  /\ outstanding' = outstanding + 1
  /\ pc' = [pc EXCEPT ![p] = "op"]
  /\ UNCHANGED <<disk, cache, dirty, lh, committing, up, halted, tail, buf, wrote, modest>>

\* begin_op, the iteration that enters.
BeginOp(p) ==
  /\ up /\ pc[p] \in {"user", "begin_op"}
  /\ ~committing /\ ~NoRoom
  /\ outstanding' = outstanding + 1
  /\ pc' = [pc EXCEPT ![p] = "op"]
  /\ UNCHANGED <<disk, cache, dirty, lh, committing, up, halted, tail, buf, wrote, modest>>

TooBig == Len(lh) >= LOGSIZE \/ Len(lh) >= NLOG - 1

\* The operation changes a block it has locked (bread, B_BUSY) and calls
\* log_write, whose checks read log.lh.n and log.outstanding without log.lock.
\* An operation may write a block several times.
LogWriteCheck(p) ==
  /\ pc[p] = "op"
  /\ \E b \in Blocks, v \in Vals :
       /\ b \notin Range(buf)
       /\ Cardinality(wrote[p] \cup {b}) <= OPBLOCKS
       /\ cache' = [cache EXCEPT ![b] = v]
       /\ buf' = [buf EXCEPT ![p] = b]
       /\ modest' = (modest /\ Cardinality(wrote[p] \cup {b}) < MAXOPBLOCKS)
  /\ halted' = (TooBig \/ outstanding < 1)
  /\ pc' = [pc EXCEPT ![p] = "log_write"]
  /\ UNCHANGED <<disk, dirty, lh, outstanding, committing, up, tail, wrote>>

\* Mutant: the buffer is not pinned with B_DIRTY.
LogWriteUnpinned(p) ==
  /\ pc[p] = "log_write"
  /\ lh' = IF buf[p] \in Range(lh) THEN lh ELSE Append(lh, buf[p])
  /\ wrote' = [wrote EXCEPT ![p] = @ \cup {buf[p]}]
  /\ buf' = [buf EXCEPT ![p] = NoBlock]
  /\ pc' = [pc EXCEPT ![p] = "op"]
  /\ UNCHANGED <<disk, cache, dirty, outstanding, committing, up, halted, tail, modest>>

\* The locked part of log_write, and the brelse that follows it.  The check may
\* be out of date by now.  An entry past the header's array overwrites what the
\* compiler has put behind it: what the machine does then is not followed.
LogWrite(p) ==
  /\ pc[p] = "log_write"
  /\ lh' = IF buf[p] \in Range(lh) THEN lh ELSE Append(lh, buf[p])
  /\ halted' = (Len(lh') > LOGSIZE)
  /\ dirty' = dirty \cup {buf[p]}
  /\ wrote' = [wrote EXCEPT ![p] = @ \cup {buf[p]}]
  /\ buf' = [buf EXCEPT ![p] = NoBlock]
  /\ pc' = [pc EXCEPT ![p] = "op"]
  /\ UNCHANGED <<disk, cache, outstanding, committing, up, tail, modest>>

\* end_op up to the release of log.lock; the last operation goes on to
\* commit(), which does nothing when the log is empty.
EndOp(p) ==
  /\ pc[p] = "op"
  /\ outstanding' = outstanding - 1
  /\ halted' = committing
  /\ committing' = (outstanding' = 0)
  /\ pc' = IF outstanding' # 0 THEN [Woken EXCEPT ![p] = "user"]
           ELSE [pc EXCEPT ![p] = IF lh = <<>> THEN "done" ELSE "write_log"]
  /\ tail' = [tail EXCEPT ![p] = 0]
  /\ wrote' = [wrote EXCEPT ![p] = {}]
  /\ UNCHANGED <<disk, cache, dirty, lh, up, buf, modest>>

\* One iteration of write_log.  The log ends the disk (log.start is sb.size -
\* sb.nlog): a write past its end is lost, and what a read finds there is unknown.
WriteLog(p) ==
  /\ pc[p] = "write_log" /\ tail[p] < Len(lh)
  /\ slot' = [i \in 1..NLOG - 1 |->
                IF i = tail[p] + 1 THEN Content(lh[i]) ELSE slot[i]]
  /\ tail' = [tail EXCEPT ![p] = @ + 1]
  /\ UNCHANGED <<home, head, mem, pc, buf, wrote, modest>>

\* write_head: the commit point.
WriteHead(p) ==
  /\ pc[p] = "write_log" /\ tail[p] = Len(lh)
  /\ head' = lh
  /\ pc' = [pc EXCEPT ![p] = "install_trans"]
  /\ tail' = [tail EXCEPT ![p] = 0]
  /\ UNCHANGED <<home, slot, mem, buf, wrote, modest>>

\* One iteration of install_trans, of a commit or of recovery; bwrite
\* clears B_DIRTY.
InstallTrans(p) ==
  /\ pc[p] = "install_trans" /\ tail[p] < Len(lh)
  /\ LET b == lh[tail[p] + 1] IN
     \E v \in Vals :
       /\ tail[p] + 1 < NLOG => v = slot[tail[p] + 1]
       /\ home' = [home EXCEPT ![b] = v]
       /\ cache' = [cache EXCEPT ![b] = v]
       /\ dirty' = dirty \ {b}
  /\ tail' = [tail EXCEPT ![p] = @ + 1]
  /\ UNCHANGED <<slot, head, lh, outstanding, committing, up, halted, pc, buf, wrote, modest>>

\* Mutant: the log is cleared when one block is still to be installed.
ClearLogEarly(p) ==
  /\ pc[p] = "install_trans" /\ tail[p] + 1 >= Len(lh)
  /\ lh' = <<>>
  /\ head' = <<>>
  /\ modest' = TRUE
  /\ up' = TRUE
  /\ pc' = [pc EXCEPT ![p] = IF up THEN "done" ELSE "user"]
  /\ tail' = [tail EXCEPT ![p] = 0]
  /\ UNCHANGED <<home, slot, cache, dirty, outstanding, committing, halted, buf, wrote>>

\* log.lh.n = 0 and the write_head that erases the transaction.
ClearLog(p) ==
  /\ pc[p] = "install_trans" /\ tail[p] = Len(lh)
  /\ lh' = <<>>
  /\ head' = <<>>
  /\ modest' = TRUE
  /\ up' = TRUE
  /\ pc' = [pc EXCEPT ![p] = IF up THEN "done" ELSE "user"]
  /\ tail' = [tail EXCEPT ![p] = 0]
  /\ UNCHANGED <<home, slot, cache, dirty, outstanding, committing, halted, buf, wrote>>

\* Mutant: no wakeup(&log) after the commit.
EndOpDoneNoWakeup(p) ==
  /\ pc[p] = "done"
  /\ committing' = FALSE
  /\ pc' = [pc EXCEPT ![p] = "user"]
  /\ UNCHANGED <<disk, cache, dirty, lh, outstanding, up, halted, tail, buf, wrote, modest>>

\* end_op after commit().
EndOpDone(p) ==
  /\ pc[p] = "done"
  /\ committing' = FALSE
  /\ pc' = [Woken EXCEPT ![p] = "user"]
  /\ UNCHANGED <<disk, cache, dirty, lh, outstanding, up, halted, tail, buf, wrote, modest>>

\* recover_from_log up to install_trans.
ReadHead(p) ==
  /\ pc[p] = "read_head"
  /\ lh' = head
  /\ pc' = [pc EXCEPT ![p] = "install_trans"]
  /\ UNCHANGED <<disk, cache, dirty, outstanding, committing, up, halted, tail, buf, wrote, modest>>

\* bget recycles a buffer that is neither busy nor dirty.
Recycle(b) ==
  /\ cache[b] # NotCached
  /\ b \notin dirty /\ b \notin Range(buf)
  /\ cache' = [cache EXCEPT ![b] = NotCached]
  /\ UNCHANGED <<disk, dirty, lh, outstanding, committing, up, halted, proc>>

\* The machine stops, and boots: memory is lost, the disk is not.
Crash ==
  /\ cache' = [b \in Blocks |-> NotCached]
  /\ dirty' = {}
  /\ lh' = <<>>
  /\ outstanding' = 0
  /\ committing' = FALSE
  /\ up' = FALSE
  /\ halted' = FALSE
  /\ pc' = [p \in Procs |-> IF p = Boot THEN "read_head" ELSE "user"]
  /\ tail' = [p \in Procs |-> 0]
  /\ buf' = [p \in Procs |-> NoBlock]
  /\ wrote' = [p \in Procs |-> {}]
  /\ modest' = (head = <<>> \/ modest)
  /\ UNCHANGED disk

\* Steps of a system call, or of initlog, that has begun.
Step(p) ==
  /\ ~halted
  /\ \/ LogWrite(p) \/ EndOp(p) \/ EndOpDone(p) \/ ReadHead(p)
     \/ WriteLog(p) \/ WriteHead(p) \/ InstallTrans(p) \/ ClearLog(p)

Next ==
  \/ \E p \in Procs : Step(p)
  \/ ~halted /\ \E p \in Procs : BeginOpSleep(p) \/ BeginOp(p) \/ LogWriteCheck(p)
  \/ ~halted /\ \E b \in Blocks : Recycle(b)
  \/ Crash

Spec == Init /\ [][Next]_vars

------------------------------------------------------------------------------
TypeOK ==
  /\ home \in [Blocks -> Vals] /\ slot \in [1..NLOG - 1 -> Vals] /\ head \in Seq(Blocks)
  /\ cache \in [Blocks -> Vals \cup {NotCached}] /\ dirty \subseteq Blocks
  /\ lh \in Seq(Blocks) /\ outstanding \in Nat
  /\ committing \in BOOLEAN /\ up \in BOOLEAN /\ halted \in BOOLEAN
  /\ pc \in [Procs -> {"user", "begin_op", "asleep", "op", "log_write", "write_log",
                       "install_trans", "done", "read_head"}]
  /\ tail \in [Procs -> Nat] /\ buf \in [Procs -> Blocks \cup {NoBlock}]
  /\ wrote \in [Procs -> SUBSET Blocks] /\ modest \in BOOLEAN

\* begin_op lets an operation in only when the log has room for MAXOPBLOCKS more
\* blocks.  With the sizes of param.h and mkfs.c that suffices as long as no operation
\* uses all of them: log_write does not panic, although its check is unlocked and
\* counts a block that is in the log already, and no commit leaves the log.
ReservationSuffices == modest => ~halted /\ Len(lh) < NLOG

\* "this op might exhaust log space; wait for commit": an operation that begin_op
\* has let in, and that writes no more than "max # of blocks any FS op writes",
\* finds room in the log.
AdmittedFits == ~halted

\* What a reboot would read from each block once recovery is over: the logged
\* copy of a block that the header on disk names, the home block otherwise.
Recovered ==
  [b \in Blocks |-> IF \E i \in DOMAIN head : head[i] = b /\ i < NLOG
                    THEN slot[CHOOSE i \in DOMAIN head : head[i] = b] ELSE home[b]]

\* When the last operation has left end_op nothing is pending: every block
\* written is home on disk, the log is empty and no buffer is pinned.
QuietIsDurable ==
  up /\ outstanding = 0 /\ ~committing =>
    /\ head = <<>> /\ lh = <<>> /\ dirty = {}
    /\ \A b \in Blocks : Content(b) = home[b]

\* commit() runs alone although it holds no lock: one process commits, no
\* operation is outstanding, and log.committing keeps others out.
CommitAlone ==
  \A p \in Committer : up => Committer = {p} /\ InOp = {} /\ committing

\* A process sleeps on &log only while someone will call wakeup(&log).
SleeperHasWaker == (\E p \in Procs : pc[p] = "asleep") => outstanding > 0 \/ committing

\* A transaction has more blocks than the log has sectors.
Overfull == Len(lh) >= NLOG

\* The log implements an atomic disk: a crash at any point preserves whole
\* groups of finished operations, except while a transaction has left the log.
Atomic == INSTANCE AtomicDisk WITH
  durable <- Recovered,
  volatile <- IF up THEN [b \in Blocks |-> Content(b)] ELSE Recovered,
  active <- InOp
AtomicSpec == Atomic!Init /\ [][Atomic!Next \/ Overfull]_(Atomic!vars)
------------------------------------------------------------------------------
(* The inductive invariant behind these properties. *)

\* log.outstanding counts the operations, which lock one buffer at a time and
\* whose blocks stay in log.lh.
CountInv ==
  /\ outstanding = Cardinality(InOp)
  /\ \A p \in Procs : pc[p] = "log_write" <=> buf[p] # NoBlock
  /\ \A p, q \in Procs : p # q /\ buf[p] = buf[q] => buf[p] = NoBlock
  /\ \A p \in Procs : IsFiniteSet(wrote[p]) /\ (p \notin InOp => wrote[p] = {})
  /\ \A p \in Procs : wrote[p] \subseteq Range(lh)
  /\ modest => \A p \in Procs :
       /\ Cardinality(wrote[p]) < MAXOPBLOCKS
       /\ pc[p] = "log_write" => Cardinality(wrote[p] \cup {buf[p]}) < MAXOPBLOCKS

\* One process at a time commits or recovers, while no operation runs.
PhaseInv ==
  /\ committing <=> up /\ Committer # {}
  /\ \A p, q \in Committer : p = q
  /\ Committer # {} => InOp = {}
  /\ \A p \in Procs : pc[p] = "read_head" => ~up
  /\ ~up => /\ pc[Boot] \in {"read_head", "install_trans"}
            /\ \A p \in Procs \ {Boot} : pc[p] = "user"

\* Blocks that begin_op has reserved and that the operations have not written.
UnusedOf(ops, w) == {t \in ops \X (1..MAXOPBLOCKS) : t[2] > Cardinality(w[t[1]])}
Unused == UnusedOf(InOp, wrote)

\* The log holds what is written and what is reserved.  An operation leaves one
\* block at least unused, and it is alone only if it found the log empty or
\* another has ended: the last entry of the header is never needed.
Spare == IF InOp = {} THEN 2 ELSE IF \E p \in Procs : InOp = {p} THEN 1 ELSE 0
SpaceInv ==
  modest => /\ Len(lh) + Cardinality(Unused) + Spare <= LOGSIZE
            /\ Len(head) + 2 <= LOGSIZE

\* The log is empty once the last operation has committed.
QuietInv ==
  /\ up /\ InOp = {} /\ ~committing => lh = <<>>
  /\ \A p \in Procs : pc[p] = "done" => lh = <<>>
  /\ SleeperHasWaker

Distinct(s) == \A i, j \in DOMAIN s : s[i] = s[j] => i = j
Installing == \E p \in Procs : pc[p] = "install_trans"

\* The header on disk is the one in memory from the commit point until it is
\* erased, and empty otherwise, except before recovery has read it.
HeadInv ==
  /\ Distinct(lh) /\ Distinct(head)
  /\ Installing => head = lh
  /\ up /\ ~Installing => head = <<>>
  /\ \A p \in Procs : pc[p] = "read_head" => tail[p] = 0 /\ lh = <<>>
  /\ \A p \in Procs : pc[p] \in {"write_log", "install_trans"} => tail[p] <= Len(lh)

\* The pinned buffers are those of the blocks that are still to be installed.
PinInv ==
  /\ up /\ ~Installing => dirty = Range(lh)
  /\ ~up => dirty = {}
  /\ \A p \in Procs : up /\ pc[p] = "install_trans" =>
       dirty = {lh[i] : i \in (tail[p] + 1)..Len(lh)}

\* A buffer that is pinned or locked stays in the cache; any other holds what is
\* at home.
CacheInv ==
  \A b \in Blocks : IF b \in dirty \cup Range(buf) THEN cache[b] # NotCached
                                               ELSE cache[b] \in {NotCached, home[b]}

\* write_log and install_trans have copied the blocks before tail; a commit
\* installs what is in the buffers.
CopyInv ==
  /\ \A p \in Procs : pc[p] = "write_log" =>
       \A i \in 1..tail[p] : i < NLOG => slot[i] = cache[lh[i]]
  /\ \A p \in Procs : pc[p] = "install_trans" =>
       \A i \in 1..tail[p] : i < NLOG => home[lh[i]] = slot[i]
  /\ \A p \in Procs : up /\ pc[p] = "install_trans" =>
       \A i \in (tail[p] + 1)..Len(lh) : i < NLOG => cache[lh[i]] = slot[i]

\* Where the current contents of a block are: in the log on disk once the
\* header is written, in a pinned buffer until it is installed, else at home.
DiskInv == HeadInv /\ PinInv /\ CacheInv /\ CopyInv

IInv == TypeOK /\ CountInv /\ PhaseInv /\ SpaceInv /\ QuietInv /\ ReservationSuffices /\ DiskInv
==============================================================================
