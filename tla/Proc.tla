-------------------------------- MODULE Proc --------------------------------
(***************************************************************************)
(* The process table of proc.c: fork, exit, wait, sleep, wakeup, kill,     *)
(* sigsend, yield and the per-CPU scheduler.  An action is one critical    *)
(* section of ptable.lock, or a step between two of them.  The lock is a   *)
(* variable because swtch hands it over: a process that calls sched leaves *)
(* it to its CPU's scheduler, which goes on with its scan of the table     *)
(* while it holds it, and a process resumed in wait gets it back.          *)
(***************************************************************************)
EXTENDS RRQueue

CONSTANTS
  Cpus,
  Chans,    \* what processes sleep on, other than a process in wait
  NoCpu,
  MaxPid    \* bound: no fork once nextpid is beyond it

Initproc == 1
Idle == 0   \* scan[c] of a scheduler that has not started a pass

ASSUME ProcAssumption ==
  /\ Cpus # {} /\ NoCpu \notin Cpus /\ MaxPid \in Nat
  /\ Chans \cap (Slots \cup {Nil}) = {}

VARIABLES
  state, pid, parent, chan,   \* ptable.proc[s]
  killed,     \* the slots with killed set
  nextpid,
  pc,         \* where the process is in the kernel: "user", "fork" or "wait"
  child,      \* np of a process in fork
  cur,        \* the CPU's proc
  lock,       \* the CPU that holds ptable.lock
  scan,       \* the scheduler's p, while it holds the lock or runs a process
  q,          \* rrqueue, with the policies that use it
  panicked

table == <<state, pid, parent, chan, killed>>
sched == <<cur, lock, scan>>
vars == <<table, nextpid, pc, child, sched, q, panicked>>

Lowest(S) == CHOOSE s \in S : \A t \in S : s <= t
Ready(rrq, s) == IF POLICY = "DEFAULT" THEN rrq ELSE pushProcToRRqueue(rrq, s)

Init ==
  /\ state = [s \in Slots |-> IF s = Initproc THEN "RUNNABLE" ELSE "UNUSED"]
  /\ pid = [s \in Slots |-> IF s = Initproc THEN 1 ELSE 0]
  /\ parent = [s \in Slots |-> Nil]
  /\ chan = [s \in Slots |-> Nil]
  /\ killed = {}
  /\ nextpid = 2
  /\ pc = [s \in Slots |-> "user"]
  /\ child = [s \in Slots |-> Nil]
  /\ cur = [c \in Cpus |-> Nil]
  /\ lock = NoCpu
  /\ scan = [c \in Cpus |-> Idle]
  /\ q = Ready(EmptyQueue, Initproc)
  /\ panicked = FALSE

------------------------------------------------------------------------------
(* scheduler *)

SchedAcquire(c) ==
  /\ cur[c] = Nil /\ lock = NoCpu
  /\ lock' = c
  /\ scan' = [scan EXCEPT ![c] = 1]
  /\ UNCHANGED <<table, nextpid, pc, child, cur, q, panicked>>

\* The process resumes in forkret, yield or sleep, which release the lock, or
\* in wait, which goes on with it.
Dispatch(c, s, next) ==
  /\ cur' = [cur EXCEPT ![c] = s]
  /\ state' = [state EXCEPT ![s] = "RUNNING"]
  /\ chan' = [chan EXCEPT ![s] = Nil]
  /\ scan' = [scan EXCEPT ![c] = next]
  /\ lock' = IF pc[s] = "wait" THEN c ELSE NoCpu
  /\ UNCHANGED <<pid, parent, killed, nextpid, pc, child, panicked>>

\* Mutant: a RUNNING process is taken too.
FoundRunning(c) == {s \in Slots : s >= scan[c] /\ state[s] \in {"RUNNABLE", "RUNNING"}}

Found(c) == {s \in Slots : s >= scan[c] /\ state[s] = "RUNNABLE"}

\* Mutant: the pass starts again at the head of the table.
SchedRunRestarts(c) ==
  /\ POLICY = "DEFAULT"
  /\ cur[c] = Nil /\ lock = c /\ Found(c) # {}
  /\ Dispatch(c, Lowest(Found(c)), 1)
  /\ UNCHANGED q

SchedRun(c) ==
  /\ POLICY = "DEFAULT"
  /\ cur[c] = Nil /\ lock = c /\ Found(c) # {}
  /\ LET s == Lowest(Found(c)) IN Dispatch(c, s, s + 1)
  /\ UNCHANGED q

\* Mutant: the winner stays in the queue.
SchedDrawKeeps(c) ==
  /\ POLICY # "DEFAULT"
  /\ cur[c] = Nil /\ lock = c /\ scan[c] = 1
  /\ LET d == deliverTicketsToFIFOProcs(q, state, [s \in Slots |-> 0]) IN
     \E ticket \in Rolls(d) :
       LET s == pickProcess(d, ticket) IN
       /\ s # Nil
       /\ q' = d.q
       /\ Dispatch(c, s, NPROC + 1)

SchedDraw(c) ==
  /\ POLICY # "DEFAULT"
  /\ cur[c] = Nil /\ lock = c /\ scan[c] = 1
  /\ LET d == deliverTicketsToFIFOProcs(q, state, [s \in Slots |-> 0]) IN
     \E ticket \in Rolls(d) :
       LET s == pickProcess(d, ticket) IN
       /\ s # Nil
       /\ q' = removeProcFromRRqueue(d.q, s)
       /\ Dispatch(c, s, NPROC + 1)

\* The end of a pass; roll 0 is a roll that pickProcess finds no holder for.
SchedRelease(c) ==
  /\ cur[c] = Nil /\ lock = c
  /\ POLICY = "DEFAULT" => Found(c) = {}
  /\ lock' = NoCpu
  /\ scan' = [scan EXCEPT ![c] = Idle]
  /\ q' = IF POLICY = "DEFAULT" \/ scan[c] # 1 THEN q
          ELSE deliverTicketsToFIFOProcs(q, state, [s \in Slots |-> 0]).q
  /\ UNCHANGED <<table, nextpid, pc, child, cur, panicked>>

\* sched: the lock goes to the scheduler of the CPU.
Sched(c) == lock' = c /\ cur' = [cur EXCEPT ![c] = Nil] /\ UNCHANGED scan

------------------------------------------------------------------------------
(* The running process, outside the lock. *)
Running(c, where) == cur[c] # Nil /\ lock = NoCpu /\ pc[cur[c]] = where

\* allocproc, called by fork.
AllocProc(c) ==
  LET p == cur[c]
      free == {s \in Slots : state[s] = "UNUSED"}
  IN /\ Running(c, "user") /\ free # {} /\ nextpid <= MaxPid
     /\ LET np == Lowest(free) IN
        /\ state' = [state EXCEPT ![np] = "EMBRYO"]
        /\ pid' = [pid EXCEPT ![np] = nextpid]
        /\ child' = [child EXCEPT ![p] = np]
     /\ nextpid' = nextpid + 1
     /\ pc' = [pc EXCEPT ![p] = "fork"]
     /\ UNCHANGED <<parent, chan, killed, sched, q, panicked>>

\* kalloc or copyuvm failed: the slot is given back without the lock.
ForkFail(c) ==
  LET p == cur[c] IN
  /\ p # Nil /\ pc[p] = "fork"
  /\ state' = [state EXCEPT ![child[p]] = "UNUSED"]
  /\ pc' = [pc EXCEPT ![p] = "user"]
  /\ child' = [child EXCEPT ![p] = Nil]
  /\ UNCHANGED <<pid, parent, chan, killed, nextpid, sched, q, panicked>>

Fork(c) ==
  LET p == cur[c]
      np == child[p]
  IN /\ Running(c, "fork")
     /\ parent' = [parent EXCEPT ![np] = p]
     /\ state' = [state EXCEPT ![np] = "RUNNABLE"]
     /\ q' = Ready(q, np)
     /\ pc' = [pc EXCEPT ![p] = "user", ![np] = "user"]
     /\ child' = [child EXCEPT ![p] = Nil]
     /\ UNCHANGED <<pid, chan, killed, nextpid, sched, panicked>>

\* wakeup1, as the processes it wakes and the queue it leaves.
Woken(ch) == {s \in Slots : state[s] = "SLEEPING" /\ chan[s] = ch}

ReadyAll(rrq, S) ==
  LET upto[i \in 0..NPROC] == IF i = 0 THEN rrq
                              ELSE IF i \in S THEN Ready(upto[i - 1], i) ELSE upto[i - 1]
  IN upto[NPROC]

\* Mutant: abandoned children keep their parent.
ExitAbandons(c) ==
  LET p == cur[c]
      woken == Woken(parent[p])
  IN /\ Running(c, "user")
     /\ IF p = Initproc
        THEN panicked' = TRUE /\ UNCHANGED <<table, sched, q>>
        ELSE /\ state' = [s \in Slots |-> IF s = p THEN "ZOMBIE"
                                          ELSE IF s \in woken THEN "RUNNABLE" ELSE state[s]]
             /\ q' = ReadyAll(q, woken)
             /\ Sched(c)
             /\ UNCHANGED <<pid, parent, chan, killed, panicked>>
     /\ UNCHANGED <<nextpid, pc, child>>

\* Mutant: init is not woken for the zombies it inherits.
ExitQuiet(c) ==
  LET p == cur[c]
      woken == Woken(parent[p])
  IN /\ Running(c, "user")
     /\ IF p = Initproc
        THEN panicked' = TRUE /\ UNCHANGED <<table, sched, q>>
        ELSE /\ state' = [s \in Slots |-> IF s = p THEN "ZOMBIE"
                                          ELSE IF s \in woken THEN "RUNNABLE" ELSE state[s]]
             /\ parent' = [s \in Slots |-> IF parent[s] = p THEN Initproc ELSE parent[s]]
             /\ q' = ReadyAll(q, woken)
             /\ Sched(c)
             /\ UNCHANGED <<pid, chan, killed, panicked>>
     /\ UNCHANGED <<nextpid, pc, child>>

\* Mutant: the parent is not woken.
ExitUnnoticed(c) ==
  LET p == cur[c]
      kids == {s \in Slots : parent[s] = p}
      inits == IF \E s \in kids : state[s] = "ZOMBIE" THEN Woken(Initproc) ELSE {}
  IN /\ Running(c, "user")
     /\ IF p = Initproc
        THEN panicked' = TRUE /\ UNCHANGED <<table, sched, q>>
        ELSE /\ state' = [s \in Slots |-> IF s = p THEN "ZOMBIE"
                                          ELSE IF s \in inits THEN "RUNNABLE" ELSE state[s]]
             /\ parent' = [s \in Slots |-> IF s \in kids THEN Initproc ELSE parent[s]]
             /\ q' = ReadyAll(q, inits)
             /\ Sched(c)
             /\ UNCHANGED <<pid, chan, killed, panicked>>
     /\ UNCHANGED <<nextpid, pc, child>>

\* exit, from the panic of init on; closing files is in other modules.
Exit(c) ==
  LET p == cur[c]
      kids == {s \in Slots : parent[s] = p}
      waker == Woken(parent[p])
      inits == IF \E s \in kids : state[s] = "ZOMBIE" THEN Woken(Initproc) \ waker ELSE {}
  IN /\ Running(c, "user")
     /\ IF p = Initproc
        THEN panicked' = TRUE /\ UNCHANGED <<table, sched, q>>
        ELSE /\ state' = [s \in Slots |-> IF s = p THEN "ZOMBIE"
                                          ELSE IF s \in waker \cup inits THEN "RUNNABLE"
                                          ELSE state[s]]
             /\ parent' = [s \in Slots |-> IF s \in kids THEN Initproc ELSE parent[s]]
             /\ q' = ReadyAll(ReadyAll(q, waker), inits)
             /\ Sched(c)
             /\ UNCHANGED <<pid, chan, killed, panicked>>
     /\ UNCHANGED <<nextpid, pc, child>>

GoToSleep(c, ch) ==
  /\ chan' = [chan EXCEPT ![cur[c]] = ch]
  /\ state' = [state EXCEPT ![cur[c]] = "SLEEPING"]
  /\ Sched(c)
  /\ UNCHANGED <<pid, parent, killed, q>>

\* The children wait may reap.
Reap(p) == {s \in Slots : parent[s] = p /\ state[s] = "ZOMBIE"}

\* wait: a call, or the next round of its loop after sleep returns.
Wait(c) ==
  LET p == cur[c]
      kids == {s \in Slots : parent[s] = p}
  IN /\ Running(c, "user") \/ (p # Nil /\ lock = c)
     /\ \/ /\ Reap(p) # {}
           /\ LET z == Lowest(Reap(p)) IN
              /\ state' = [state EXCEPT ![z] = "UNUSED"]
              /\ pid' = [pid EXCEPT ![z] = 0]
              /\ parent' = [parent EXCEPT ![z] = Nil]
              /\ killed' = killed \ {z}
           /\ lock' = NoCpu
           /\ pc' = [pc EXCEPT ![p] = "user"]
           /\ UNCHANGED <<chan, cur, scan, q>>
        \/ /\ Reap(p) = {} /\ (kids = {} \/ p \in killed)
           /\ lock' = NoCpu
           /\ pc' = [pc EXCEPT ![p] = "user"]
           /\ UNCHANGED <<table, cur, scan, q>>
        \/ /\ Reap(p) = {} /\ kids # {} /\ p \notin killed
           /\ GoToSleep(c, p)
           /\ pc' = [pc EXCEPT ![p] = "wait"]
     /\ UNCHANGED <<nextpid, child, panicked>>

\* sleep, called with a lock other than ptable.lock.
Sleep(c, ch) ==
  /\ Running(c, "user")
  /\ GoToSleep(c, ch)
  /\ UNCHANGED <<nextpid, pc, child, panicked>>

\* yield, called by trap on a timer tick in user or kernel mode.
Yield(c) ==
  /\ POLICY # "FCFS"
  /\ cur[c] # Nil /\ lock = NoCpu
  /\ state' = [state EXCEPT ![cur[c]] = "RUNNABLE"]
  /\ q' = Ready(q, cur[c])
  /\ Sched(c)
  /\ UNCHANGED <<pid, parent, chan, killed, nextpid, pc, child, panicked>>

\* wakeup, by a process or by an interrupt of any CPU.
Wakeup(ch) ==
  /\ lock = NoCpu /\ Woken(ch) # {}
  /\ state' = [s \in Slots |-> IF s \in Woken(ch) THEN "RUNNABLE" ELSE state[s]]
  /\ q' = ReadyAll(q, Woken(ch))
  /\ UNCHANGED <<pid, parent, chan, killed, nextpid, pc, child, sched, panicked>>

\* The slot kill and sigsend take a pid for.
Target(n) == Lowest({s \in Slots : pid[s] = n})

Kill(c, n) ==
  LET t == Target(n) IN
  /\ Running(c, "user") /\ \E s \in Slots : pid[s] = n
  /\ killed' = killed \cup {t}
  /\ IF state[t] = "SLEEPING"
     THEN state' = [state EXCEPT ![t] = "RUNNABLE"] /\ q' = Ready(q, t)
     ELSE UNCHANGED <<state, q>>
  /\ UNCHANGED <<pid, parent, chan, nextpid, pc, child, sched, panicked>>

\* sigsend, as far as the process table goes: a sleeper is made RUNNABLE.
Sigsend(c, n) ==
  /\ Running(c, "user") /\ \E s \in Slots : pid[s] = n
  /\ state[Target(n)] = "SLEEPING"
  /\ state' = [state EXCEPT ![Target(n)] = "RUNNABLE"]
  /\ UNCHANGED <<pid, parent, chan, killed, nextpid, pc, child, sched, q, panicked>>

Step(c) ==
  \/ SchedAcquire(c) \/ SchedRun(c) \/ SchedDraw(c) \/ SchedRelease(c)
  \/ AllocProc(c) \/ ForkFail(c) \/ Fork(c) \/ Exit(c) \/ Wait(c) \/ Yield(c)
  \/ \E ch \in Chans : Sleep(c, ch)
  \/ \E n \in 0..MaxPid : Kill(c, n) \/ Sigsend(c, n)

\* panic stops the machine.
Panic == panicked /\ UNCHANGED vars

Next ==
  \/ ~panicked /\ (\/ \E c \in Cpus : Step(c)
                   \/ \E ch \in Chans : Wakeup(ch))
  \/ Panic

Spec == Init /\ [][Next]_vars
------------------------------------------------------------------------------
States == {"UNUSED", "EMBRYO", "SLEEPING", "RUNNABLE", "RUNNING", "ZOMBIE"}

TypeOK ==
  /\ state \in [Slots -> States]
  /\ pid \in [Slots -> 0..MaxPid + 1]
  /\ parent \in [Slots -> Slots \cup {Nil}]
  /\ chan \in [Slots -> Chans \cup Slots \cup {Nil}]
  /\ killed \subseteq Slots
  /\ nextpid \in 2..MaxPid + 2
  /\ pc \in [Slots -> {"user", "fork", "wait"}]
  /\ child \in [Slots -> Slots \cup {Nil}]
  /\ cur \in [Cpus -> Slots \cup {Nil}]
  /\ lock \in Cpus \cup {NoCpu}
  /\ scan \in [Cpus -> 0..NPROC + 1]
  /\ panicked \in BOOLEAN

\* A RUNNING process is the proc of exactly one CPU, and only a RUNNING
\* process is: no kernel stack is ever used by two CPUs.
RunsOnOneCpu ==
  /\ TypeOK
  /\ \A c \in Cpus : cur[c] # Nil => state[cur[c]] = "RUNNING"
  /\ \A s \in Slots : state[s] = "RUNNING" => \E c \in Cpus : cur[c] = s
  /\ \A c, d \in Cpus : cur[c] # Nil /\ cur[c] = cur[d] => c = d

\* A process asleep in wait has a child to wait for, has no ZOMBIE child and
\* is not killed: no exit and no kill slips in between its scan and its sleep.
WaitMissesNothing ==
  \A s \in Slots : state[s] = "SLEEPING" /\ pc[s] = "wait" =>
    /\ \E k \in Slots : parent[k] = s
    /\ Reap(s) = {}
    /\ s \notin killed

\* Every process but init has a parent that has not exited: exit hands the
\* children over, so that someone can reap each of them.
ParentAlive ==
  \A s \in Slots \ {Initproc} : state[s] \notin {"UNUSED", "EMBRYO"} =>
    parent[s] # Nil /\ state[parent[s]] \notin {"UNUSED", "EMBRYO", "ZOMBIE"}

\* Whatever ticket is rolled, its holder is a RUNNABLE process.
PicksRunnable ==
  POLICY # "DEFAULT" =>
    LET d == deliverTicketsToFIFOProcs(q, state, [s \in Slots |-> 0]) IN
    \A ticket \in Rolls(d) : LET s == pickProcess(d, ticket) IN
      s # Nil => s \in Slots /\ state[s] = "RUNNABLE"

\* rrqueue holds RUNNABLE processes only, in one well-formed chain, under every
\* interleaving of the CPUs that push and pick, and the lottery picks one of them.
QueueHoldsRunnable ==
  /\ WellLinked(q)
  /\ \A s \in Members(q) : state[s] = "RUNNABLE"
  /\ PicksRunnable

\* "Wake process from sleep if necessary.": with a run queue, a process that is
\* RUNNABLE is in the queue, where the scheduler finds it.
RunnableQueued ==
  POLICY # "DEFAULT" => \A s \in Slots : state[s] = "RUNNABLE" => s \in Members(q)

\* "Kill the process with the given pid.": a new process has not been killed.
BornAlive ==
  [][\A s \in Slots : state[s] = "UNUSED" /\ state'[s] = "EMBRYO" => s \notin killed']_vars
------------------------------------------------------------------------------
(* What the theorems of ProcProofs need besides the three invariants. *)

\* A process at "fork" can run and owns an EMBRYO that no other process owns;
\* one at "wait" is asleep, ready or running.
ForkInv ==
  /\ \A s \in Slots : pc[s] = "fork" =>
       /\ state[s] \in {"RUNNABLE", "RUNNING"}
       /\ child[s] \in Slots /\ state[child[s]] = "EMBRYO"
  /\ \A s, t \in Slots : pc[s] = "fork" /\ pc[t] = "fork" /\ child[s] = child[t] => s = t
  /\ \A s \in Slots : pc[s] = "wait" => state[s] \in {"SLEEPING", "RUNNABLE", "RUNNING"}

\* A running process has ptable.lock exactly when it is in wait, where it sleeps
\* on its own struct proc.
LockInv ==
  /\ \A c \in Cpus : cur[c] # Nil => (lock = c <=> pc[cur[c]] = "wait")
  /\ \A s \in Slots : state[s] = "SLEEPING" /\ pc[s] = "wait" => chan[s] = s

\* A slot that is not in use has no parent, and no process is its own; init has
\* none and never exits.
FreeInv ==
  /\ \A s \in Slots : parent[s] # s
  /\ \A s \in Slots : state[s] \in {"UNUSED", "EMBRYO"} => parent[s] = Nil
  /\ parent[Initproc] = Nil /\ state[Initproc] \in {"SLEEPING", "RUNNABLE", "RUNNING"}

IInv == RunsOnOneCpu /\ ParentAlive /\ WaitMissesNothing /\ ForkInv /\ LockInv /\ FreeInv
------------------------------------------------------------------------------
(* Fairness: a CPU keeps running its scheduler or its process; the timer    *)
(* preempts; a fork, and a wait that was woken, go on; init calls wait      *)
(* again and again, and sleeps elsewhere only on the disk, which answers.   *)
Fairness ==
  /\ \A c \in Cpus :
       /\ WF_vars(~panicked /\ (SchedAcquire(c) \/ SchedRun(c) \/ SchedRelease(c)))
       /\ WF_vars(~panicked /\ Yield(c))
       /\ WF_vars(~panicked /\ lock = c /\ Wait(c))
       /\ SF_vars(~panicked /\ (Fork(c) \/ ForkFail(c)))
       /\ SF_vars(~panicked /\ cur[c] = Initproc /\ Wait(c))
  /\ \A ch \in Chans : SF_vars(~panicked /\ chan[Initproc] = ch /\ Wakeup(ch))

LiveSpec == Spec /\ Fairness

\* The scan of the DEFAULT scheduler starves nobody: it goes on behind the
\* process that it ran.
RunnableRuns ==
  \A s \in Slots : state[s] = "RUNNABLE" ~> (state[s] = "RUNNING" \/ panicked)

\* A ZOMBIE that init has inherited is reaped.
OrphanReaped ==
  \A s \in Slots :
    (state[s] = "ZOMBIE" /\ parent[s] = Initproc) ~> (state[s] # "ZOMBIE" \/ panicked)
==============================================================================
