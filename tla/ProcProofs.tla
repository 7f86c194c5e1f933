----------------------------- MODULE ProcProofs -----------------------------
(***************************************************************************)
(* Theorems about Proc, for any number of processes and CPUs: a process    *)
(* runs on one CPU, has a parent that can reap it, and misses no exit and  *)
(* no kill while it sleeps in wait.  They hold for the DEFAULT policy, and *)
(* for the others when their lottery picks RUNNABLE processes, which TLC   *)
(* checks: the queue is followed link by link, and what such a recursion   *)
(* returns is beyond the provers.                                          *)
(***************************************************************************)
EXTENDS Proc, WellFoundedInduction, TLAPS

\* What the proofs use of the constants.
LEMMA Consts ==
  /\ NPROC \in Nat /\ Slots \subseteq Nat /\ Nil \notin Slots /\ Initproc \in Slots
  /\ NoCpu \notin Cpus /\ MaxPid \in Nat /\ Chans \cap Slots = {}
BY RRQueueAssumption, ProcAssumption DEF Slots, Nil, Initproc

\* A set of slots has a lowest one.
LEMMA LowestIn ==
  ASSUME NEW S \in SUBSET Slots, S # {}
  PROVE  Lowest(S) \in S
<1>1. S \subseteq Nat  BY Zenon, Consts
<1>2. PICK x \in S : \A y \in S : ~(<<y, x>> \in OpToRel(<, Nat))
  BY Zenon, <1>1, WFMin, NatLessThanWellFounded
<1>3. \A y \in S : ~(y < x)
  <2>. SUFFICES ASSUME NEW y \in S, y < x  PROVE FALSE
    BY Zenon
  <2>1. x \in Nat /\ y \in Nat  BY Zenon, <1>1
  <2>2. <<y, x>> \in OpToRel(<, Nat)  BY Zenon, <2>1 DEF OpToRel
  <2>. QED  BY Zenon, <1>2, <2>2
<1>4. \A y \in S : x <= y  BY <1>1, <1>3
<1>. QED  BY Zenon, <1>4 DEF Lowest

------------------------------------------------------------------------------
(* The invariant. *)

\* RunsOnOneCpu, without the types.
OneCpu ==
  /\ \A c \in Cpus : cur[c] # Nil => state[cur[c]] = "RUNNING"
  /\ \A s \in Slots : state[s] = "RUNNING" => \E c \in Cpus : cur[c] = s
  /\ \A c, d \in Cpus : cur[c] # Nil /\ cur[c] = cur[d] => c = d

Rest == ParentAlive /\ WaitMissesNothing /\ ForkInv /\ LockInv /\ FreeInv

Parts == TypeOK /\ OneCpu /\ Rest

\* The invariant, divided as the proofs divide it.
LEMMA InvParts == IInv <=> Parts
BY Zenon DEF IInv, RunsOnOneCpu, OneCpu, Rest, Parts

\* The same after a step.
LEMMA PartsNext == Parts' => IInv'
BY InvParts, PTL

\* userinit leaves init alone in the table.
LEMMA ProcInit == Init => IInv
<1>. SUFFICES ASSUME Init  PROVE Parts
  BY Zenon, InvParts
<1>1. TypeOK
  <2>1. 0 \in 0..MaxPid + 1 /\ 1 \in 0..MaxPid + 1 /\ 2 \in 2..MaxPid + 2 /\ 0 \in 0..NPROC + 1
    BY Consts
  <2>. QED  BY Zenon, <2>1, Consts DEF Init, TypeOK, States, Idle
<1>2. OneCpu  BY Zenon, Consts DEF Init, OneCpu
<1>3. ParentAlive /\ WaitMissesNothing /\ ForkInv /\ LockInv /\ FreeInv
  BY Zenon, Consts DEF Init, ParentAlive, WaitMissesNothing, ForkInv, LockInv, FreeInv
<1>. QED  BY Zenon, <1>1, <1>2, <1>3 DEF Parts, Rest

\* A step that changes nothing but who has the lock and the scheduler's place.
LEMMA ProcSchedAcquire == ASSUME IInv, NEW c \in Cpus, SchedAcquire(c)  PROVE IInv'
<1>. USE InvParts DEF Parts, Rest
<1>1. /\ cur[c] = Nil /\ lock = NoCpu /\ lock' = c /\ scan' = [scan EXCEPT ![c] = 1]
      /\ UNCHANGED <<state, pid, parent, chan, killed, nextpid, pc, child, cur, panicked>>
  BY Zenon DEF SchedAcquire, table
<1>2. TypeOK'  BY <1>1, Consts DEF TypeOK
<1>3. OneCpu'  BY Zenon, <1>1 DEF OneCpu
<1>4. ParentAlive' /\ WaitMissesNothing' /\ ForkInv' /\ FreeInv'
  BY <1>1 DEF ParentAlive, WaitMissesNothing, Reap, ForkInv, FreeInv
<1>5. LockInv'  BY Zenon, <1>1, Consts DEF LockInv
<1>. QED  BY Zenon, <1>2, <1>3, <1>4, <1>5, PartsNext

\* The scheduler gives up ptable.lock at the end of its scan.
LEMMA ProcSchedRelease == ASSUME IInv, NEW c \in Cpus, SchedRelease(c)  PROVE IInv'
<1>. USE InvParts DEF Parts, Rest
<1>1. /\ cur[c] = Nil /\ lock = c /\ lock' = NoCpu /\ scan' = [scan EXCEPT ![c] = Idle]
      /\ UNCHANGED <<state, pid, parent, chan, killed, nextpid, pc, child, cur, panicked>>
  BY Zenon DEF SchedRelease, table
<1>2. TypeOK'  BY <1>1, Consts DEF TypeOK, Idle
<1>3. OneCpu'  BY Zenon, <1>1 DEF OneCpu
<1>4. ParentAlive' /\ WaitMissesNothing' /\ ForkInv' /\ FreeInv'
  BY <1>1 DEF ParentAlive, WaitMissesNothing, Reap, ForkInv, FreeInv
<1>5. LockInv'  BY Zenon, <1>1, Consts DEF LockInv
<1>. QED  BY Zenon, <1>2, <1>3, <1>4, <1>5, PartsNext

\* The scheduler switches to a RUNNABLE process.
LEMMA ProcDispatch ==
  ASSUME IInv, NEW c \in Cpus, NEW s \in Slots, NEW next \in 0..NPROC + 1,
         cur[c] = Nil, lock = c, state[s] = "RUNNABLE", Dispatch(c, s, next)
  PROVE  IInv'
<1>. USE InvParts DEF Parts, Rest
<1>1. /\ cur' = [cur EXCEPT ![c] = s] /\ state' = [state EXCEPT ![s] = "RUNNING"]
      /\ chan' = [chan EXCEPT ![s] = Nil] /\ scan' = [scan EXCEPT ![c] = next]
      /\ lock' = IF pc[s] = "wait" THEN c ELSE NoCpu
      /\ UNCHANGED <<pid, parent, killed, nextpid, pc, child, panicked>>
  BY Zenon DEF Dispatch
<1>2. TypeOK'  BY Zenon, <1>1, Consts DEF TypeOK, States
<1>3. /\ \A t \in Slots : state'[t] = IF t = s THEN "RUNNING" ELSE state[t]
      /\ \A t \in Slots : chan'[t] = IF t = s THEN Nil ELSE chan[t]
      /\ \A d \in Cpus : cur'[d] = IF d = c THEN s ELSE cur[d]
      /\ \A d \in Cpus : cur[d] \in Slots \cup {Nil}
      /\ \A t \in Slots : parent[t] \in Slots \cup {Nil}
  BY Zenon, <1>1 DEF TypeOK
<1>4. OneCpu'  BY <1>3, Consts DEF OneCpu
<1>5. ParentAlive'  BY <1>1, <1>3, Consts DEF ParentAlive
<1>6. WaitMissesNothing'  BY <1>1, <1>3 DEF WaitMissesNothing, Reap
<1>7. ForkInv'  BY <1>1, <1>3 DEF ForkInv
<1>8. LockInv'  BY <1>1, <1>3, Consts DEF LockInv, OneCpu
<1>9. FreeInv'  BY <1>1, <1>3, Consts DEF FreeInv
<1>. QED  BY Zenon, <1>2, <1>4, <1>5, <1>6, <1>7, <1>8, <1>9, PartsNext

\* The scheduler of the DEFAULT policy runs the next RUNNABLE process.
LEMMA ProcSchedRun == ASSUME IInv, NEW c \in Cpus, SchedRun(c)  PROVE IInv'
<1>1. Found(c) \in SUBSET Slots /\ Found(c) # {}  BY Zenon DEF SchedRun, Found
<1>2. PICK s \in Slots : s = Lowest(Found(c)) /\ s \in Found(c)  BY Zenon, <1>1, LowestIn
<1>3. s + 1 \in 0..NPROC + 1  BY Consts DEF Slots
<1>4. Dispatch(c, s, s + 1)  BY Zenon, <1>2 DEF SchedRun
<1>5. state[s] = "RUNNABLE"  BY Zenon, <1>2 DEF Found
<1>. QED  BY Zenon, <1>3, <1>4, <1>5, ProcDispatch DEF SchedRun

\* The scheduler of the other policies runs the process it has drawn.
LEMMA ProcSchedDraw ==
  ASSUME IInv, PicksRunnable, NEW c \in Cpus, SchedDraw(c)
  PROVE  IInv'
<1>. DEFINE d == deliverTicketsToFIFOProcs(q, state, [s \in Slots |-> 0])
<1>1. PICK ticket \in Rolls(d) :
        /\ pickProcess(d, ticket) # Nil
        /\ Dispatch(c, pickProcess(d, ticket), NPROC + 1)
  BY Zenon DEF SchedDraw
<1>2. POLICY # "DEFAULT" /\ cur[c] = Nil /\ lock = c  BY Zenon DEF SchedDraw
<1>3. pickProcess(d, ticket) \in Slots /\ state[pickProcess(d, ticket)] = "RUNNABLE"
  BY Zenon, <1>1, <1>2 DEF PicksRunnable
<1>4. PICK s \in Slots : s = pickProcess(d, ticket)  BY Zenon, <1>3
<1>5. NPROC + 1 \in 0..NPROC + 1  BY Consts
<1>. HIDE DEF d
<1>. QED  BY Zenon, <1>1, <1>2, <1>3, <1>4, <1>5, ProcDispatch

\* A process outside the lock has none of the states it must not change.
LEMMA Runs ==
  ASSUME IInv, NEW c \in Cpus, cur[c] # Nil
  PROVE  cur[c] \in Slots /\ state[cur[c]] = "RUNNING"
BY Zenon DEF IInv, RunsOnOneCpu, TypeOK

\* fork takes a free slot.
LEMMA ProcAllocProc == ASSUME IInv, NEW c \in Cpus, AllocProc(c)  PROVE IInv'
<1>. USE InvParts DEF Parts, Rest
<1>. DEFINE free == {s \in Slots : state[s] = "UNUSED"}
<1>1. PICK p \in Slots : p = cur[c] /\ state[p] = "RUNNING"
  BY Zenon, Runs DEF AllocProc, Running
<1>2. PICK n \in Slots : n = Lowest(free) /\ state[n] = "UNUSED"
  <2>1. free \in SUBSET Slots /\ free # {}  BY Zenon DEF AllocProc
  <2>. QED  BY Zenon, <2>1, LowestIn
<1>3. /\ state' = [state EXCEPT ![n] = "EMBRYO"] /\ pid' = [pid EXCEPT ![n] = nextpid]
      /\ child' = [child EXCEPT ![p] = n] /\ nextpid' = nextpid + 1 /\ nextpid <= MaxPid
      /\ pc[p] = "user" /\ pc' = [pc EXCEPT ![p] = "fork"] /\ lock = NoCpu
      /\ UNCHANGED <<parent, chan, killed, cur, lock, scan, panicked>>
  BY Zenon, <1>1, <1>2 DEF AllocProc, Running, sched
<1>4. TypeOK'
  <2>1. nextpid \in 0..MaxPid + 1 /\ nextpid + 1 \in 2..MaxPid + 2
    BY <1>3, Consts DEF TypeOK
  <2>. QED  BY Zenon, <1>3, <2>1 DEF TypeOK, States
<1>5. /\ \A t \in Slots : state'[t] = IF t = n THEN "EMBRYO" ELSE state[t]
      /\ \A t \in Slots : child'[t] = IF t = p THEN n ELSE child[t]
      /\ \A t \in Slots : pc'[t] = IF t = p THEN "fork" ELSE pc[t]
      /\ \A d \in Cpus : cur[d] \in Slots \cup {Nil}
      /\ \A t \in Slots : parent[t] \in Slots \cup {Nil}
  BY Zenon, <1>3 DEF TypeOK
<1>6. OneCpu'  BY <1>2, <1>3, <1>5 DEF OneCpu
<1>7. ParentAlive'  BY <1>2, <1>3, <1>5 DEF ParentAlive
<1>8. WaitMissesNothing'  BY <1>2, <1>3, <1>5 DEF WaitMissesNothing, Reap
<1>9. ForkInv'  BY <1>1, <1>2, <1>3, <1>5 DEF ForkInv
<1>10. LockInv'  BY <1>1, <1>2, <1>3, <1>5, Consts DEF LockInv
<1>11. FreeInv'  BY <1>2, <1>3, <1>5, Consts DEF FreeInv
<1>. QED  BY Zenon, <1>4, <1>6, <1>7, <1>8, <1>9, <1>10, <1>11, PartsNext

\* fork gives the slot back, without ptable.lock.
LEMMA ProcForkFail == ASSUME IInv, NEW c \in Cpus, ForkFail(c)  PROVE IInv'
<1>. USE InvParts DEF Parts, Rest
<1>1. PICK p \in Slots : p = cur[c] /\ state[p] = "RUNNING" /\ pc[p] = "fork"
  BY Zenon, Runs DEF ForkFail
<1>2. PICK n \in Slots : n = child[p] /\ state[n] = "EMBRYO"  BY Zenon, <1>1 DEF ForkInv
<1>3. /\ state' = [state EXCEPT ![n] = "UNUSED"]
      /\ child' = [child EXCEPT ![p] = Nil]
      /\ pc' = [pc EXCEPT ![p] = "user"]
      /\ UNCHANGED <<pid, parent, chan, killed, nextpid, cur, lock, scan, panicked>>
  BY Zenon, <1>1, <1>2 DEF ForkFail, sched
<1>4. TypeOK'  BY Zenon, <1>3 DEF TypeOK, States
<1>5. /\ \A t \in Slots : state'[t] = IF t = n THEN "UNUSED" ELSE state[t]
      /\ \A t \in Slots : child'[t] = IF t = p THEN Nil ELSE child[t]
      /\ \A t \in Slots : pc'[t] = IF t = p THEN "user" ELSE pc[t]
      /\ \A d \in Cpus : cur[d] \in Slots \cup {Nil}
      /\ \A t \in Slots : parent[t] \in Slots \cup {Nil}
  BY Zenon, <1>3 DEF TypeOK
<1>6. OneCpu'  BY <1>2, <1>3, <1>5 DEF OneCpu
<1>7. ParentAlive'  BY <1>2, <1>3, <1>5 DEF ParentAlive
<1>8. WaitMissesNothing'  BY <1>1, <1>2, <1>3, <1>5 DEF WaitMissesNothing, Reap
<1>9. ForkInv'  BY <1>1, <1>2, <1>3, <1>5 DEF ForkInv
<1>10. LockInv'  BY <1>1, <1>2, <1>3, <1>5, Consts DEF LockInv
<1>11. FreeInv'  BY <1>2, <1>3, <1>5, Consts DEF FreeInv
<1>. QED  BY Zenon, <1>4, <1>6, <1>7, <1>8, <1>9, <1>10, <1>11, PartsNext

\* fork makes the child RUNNABLE.
LEMMA ProcFork == ASSUME IInv, NEW c \in Cpus, Fork(c)  PROVE IInv'
<1>. USE InvParts DEF Parts, Rest
<1>1. PICK p \in Slots : p = cur[c] /\ state[p] = "RUNNING" /\ pc[p] = "fork" /\ lock = NoCpu
  BY Zenon, Runs DEF Fork, Running
<1>2. PICK n \in Slots : n = child[p] /\ state[n] = "EMBRYO"  BY Zenon, <1>1 DEF ForkInv
<1>3. /\ state' = [state EXCEPT ![n] = "RUNNABLE"]
      /\ parent' = [parent EXCEPT ![n] = p]
      /\ child' = [child EXCEPT ![p] = Nil]
      /\ pc' = [pc EXCEPT ![p] = "user", ![n] = "user"]
      /\ UNCHANGED <<pid, chan, killed, nextpid, cur, lock, scan, panicked>>
  BY Zenon, <1>1, <1>2 DEF Fork, sched
<1>4. TypeOK'  BY Zenon, <1>3 DEF TypeOK, States
<1>5. /\ \A t \in Slots : state'[t] = IF t = n THEN "RUNNABLE" ELSE state[t]
      /\ \A t \in Slots : child'[t] = IF t = p THEN Nil ELSE child[t]
      /\ \A t \in Slots : parent'[t] = IF t = n THEN p ELSE parent[t]
      /\ \A t \in Slots : pc'[t] = IF t = p \/ t = n THEN "user" ELSE pc[t]
      /\ \A d \in Cpus : cur[d] \in Slots \cup {Nil}
      /\ \A t \in Slots : parent[t] \in Slots \cup {Nil}
  BY Zenon, <1>3 DEF TypeOK
<1>6. OneCpu'  BY <1>2, <1>3, <1>5 DEF OneCpu
<1>7. ParentAlive'  BY <1>1, <1>2, <1>3, <1>5, Consts DEF ParentAlive
<1>8. WaitMissesNothing'
  BY <1>1, <1>2, <1>3, <1>5, Consts DEF WaitMissesNothing, Reap, FreeInv
<1>9. ForkInv'
  <2>0. \A t \in Slots : pc'[t] # "user" => pc'[t] = pc[t] /\ t # p /\ t # n /\ state'[t] = state[t] /\ child'[t] = child[t]
    BY Zenon, <1>5
  <2>1. \A t \in Slots : pc'[t] = "fork" => child[t] # n  BY <1>1, <1>2, <2>0 DEF ForkInv
  <2>2. \A t \in Slots : pc'[t] = "fork" => /\ state'[t] \in {"RUNNABLE", "RUNNING"}
                                            /\ child'[t] \in Slots /\ state'[child'[t]] = "EMBRYO"
    BY <1>5, <2>0, <2>1 DEF ForkInv
  <2>3. \A s, t \in Slots : pc'[s] = "fork" /\ pc'[t] = "fork" /\ child'[s] = child'[t] => s = t
    BY <2>0 DEF ForkInv
  <2>4. \A t \in Slots : pc'[t] = "wait" => state'[t] \in {"SLEEPING", "RUNNABLE", "RUNNING"}
    BY <2>0 DEF ForkInv
  <2>. QED  BY Zenon, <2>2, <2>3, <2>4 DEF ForkInv
<1>10. LockInv'
  <2>1. \A d \in Cpus : cur[d] # n  BY Zenon, <1>2, Consts DEF OneCpu
  <2>2. \A d \in Cpus : cur[d] # Nil => (lock = d <=> pc'[cur[d]] = "wait")
    BY Zenon, <1>1, <1>5, <2>1, Consts DEF LockInv
  <2>3. \A t \in Slots : state'[t] = "SLEEPING" /\ pc'[t] = "wait" => chan[t] = t
    BY Zenon, <1>5 DEF LockInv
  <2>. QED  BY Zenon, <1>3, <2>2, <2>3 DEF LockInv
<1>11. FreeInv'  BY <1>1, <1>2, <1>3, <1>5, Consts DEF FreeInv
<1>. QED  BY Zenon, <1>4, <1>6, <1>7, <1>8, <1>9, <1>10, <1>11, PartsNext

\* A process is made RUNNABLE by wakeup, kill or sigsend.
LEMMA ProcWakes ==
  ASSUME IInv, NEW S \in SUBSET Slots, \A s \in S : state[s] = "SLEEPING",
         state' = [s \in Slots |-> IF s \in S THEN "RUNNABLE" ELSE state[s]],
         killed' \in SUBSET Slots, \A s \in killed' \ killed : state'[s] # "SLEEPING",
         UNCHANGED <<pid, parent, chan, nextpid, pc, child, cur, lock, scan, panicked>>
  PROVE  IInv'
<1>. USE InvParts DEF Parts, Rest
<1>1. TypeOK'  BY Zenon DEF TypeOK, States
<1>2. /\ \A t \in Slots : state'[t] = IF t \in S THEN "RUNNABLE" ELSE state[t]
      /\ \A d \in Cpus : cur[d] \in Slots \cup {Nil}
      /\ \A t \in Slots : parent[t] \in Slots \cup {Nil}
  BY Zenon DEF TypeOK
<1>3. OneCpu'  BY Zenon, <1>2 DEF OneCpu
<1>4. ParentAlive'  BY Zenon, <1>2 DEF ParentAlive
<1>5. WaitMissesNothing'  BY Zenon, <1>2 DEF WaitMissesNothing, Reap
<1>6. ForkInv'  BY Zenon, <1>2 DEF ForkInv
<1>7. LockInv'  BY Zenon, <1>2 DEF LockInv
<1>8. FreeInv'  BY Zenon, <1>2, Consts DEF FreeInv
<1>. QED  BY Zenon, <1>1, <1>3, <1>4, <1>5, <1>6, <1>7, <1>8, PartsNext

\* wakeup of a channel that is not a process.
LEMMA ProcWakeup == ASSUME IInv, NEW ch \in Chans, Wakeup(ch)  PROVE IInv'
<1>1. Woken(ch) \in SUBSET Slots /\ \A s \in Woken(ch) : state[s] = "SLEEPING"  BY Zenon DEF Woken
<1>2. killed' \in SUBSET Slots /\ killed' = killed  BY Zenon DEF Wakeup, IInv, RunsOnOneCpu, TypeOK
<1>. QED  BY Zenon, <1>1, <1>2, ProcWakes DEF Wakeup, sched

\* The process that kill and sigsend find is in the table.
LEMMA TargetIn ==
  ASSUME NEW n, \E s \in Slots : pid[s] = n
  PROVE  Target(n) \in Slots
<1>1. {s \in Slots : pid[s] = n} \in SUBSET Slots /\ {s \in Slots : pid[s] = n} # {}
  BY Zenon
<1>. QED  BY Zenon, <1>1, LowestIn DEF Target

\* kill wakes its target.
LEMMA ProcKill == ASSUME IInv, NEW c \in Cpus, NEW n, Kill(c, n)  PROVE IInv'
<1>1. PICK t \in Slots : t = Target(n)  BY Zenon, TargetIn DEF Kill
<1>2. /\ killed' = killed \cup {t}
      /\ IF state[t] = "SLEEPING" THEN state' = [state EXCEPT ![t] = "RUNNABLE"] ELSE state' = state
      /\ UNCHANGED <<pid, parent, chan, nextpid, pc, child, cur, lock, scan, panicked>>
  BY Zenon, <1>1 DEF Kill, sched
<1>3. state \in [Slots -> States] /\ killed \subseteq Slots  BY Zenon DEF IInv, RunsOnOneCpu, TypeOK
<1>4. PICK S \in SUBSET Slots : S = IF state[t] = "SLEEPING" THEN {t} ELSE {}  BY Zenon
<1>5. state' = [s \in Slots |-> IF s \in S THEN "RUNNABLE" ELSE state[s]]
  BY Zenon, <1>2, <1>3, <1>4
<1>6. \A s \in S : state[s] = "SLEEPING"  BY Zenon, <1>4
<1>7. killed' \in SUBSET Slots /\ \A s \in killed' \ killed : state'[s] # "SLEEPING"
  BY Zenon, <1>2, <1>3
<1>. QED  BY Zenon, <1>2, <1>5, <1>6, <1>7, ProcWakes

\* sigsend wakes its target.
LEMMA ProcSigsend == ASSUME IInv, NEW c \in Cpus, NEW n, Sigsend(c, n)  PROVE IInv'
<1>1. PICK t \in Slots : t = Target(n)  BY Zenon, TargetIn DEF Sigsend
<1>2. /\ state[t] = "SLEEPING" /\ state' = [state EXCEPT ![t] = "RUNNABLE"]
      /\ UNCHANGED <<pid, parent, chan, killed, nextpid, pc, child, cur, lock, scan, panicked>>
  BY Zenon, <1>1 DEF Sigsend, sched
<1>3. state \in [Slots -> States] /\ killed \subseteq Slots  BY Zenon DEF IInv, RunsOnOneCpu, TypeOK
<1>4. state' = [s \in Slots |-> IF s \in {t} THEN "RUNNABLE" ELSE state[s]]
  BY Zenon, <1>2, <1>3
<1>5. {t} \in SUBSET Slots /\ \A s \in {t} : state[s] = "SLEEPING"  BY Zenon, <1>2
<1>6. killed' \in SUBSET Slots /\ killed' \ killed = {}  BY Zenon, <1>2, <1>3
<1>. QED  BY Zenon, <1>2, <1>4, <1>5, <1>6, ProcWakes

\* The process of a CPU calls sched, in sleep or yield.
LEMMA ProcLeaves ==
  ASSUME IInv, NEW c \in Cpus, NEW p \in Slots, p = cur[c],
         NEW new \in {"SLEEPING", "RUNNABLE"},
         NEW ch \in Chans \cup Slots \cup {Nil},
         NEW at \in {pc[p], "wait"},
         lock = NoCpu \/ lock = c,
         state' = [state EXCEPT ![p] = new], chan' = [chan EXCEPT ![p] = ch],
         pc' = [pc EXCEPT ![p] = at],
         at = "fork" => new = "RUNNABLE",
         at = "wait" => /\ new = "SLEEPING" /\ ch = p /\ p \notin killed
                        /\ Reap(p) = {} /\ \E k \in Slots : parent[k] = p
                        /\ pc[p] # "fork",
         Sched(c),
         UNCHANGED <<pid, parent, killed, nextpid, child, panicked>>
  PROVE  IInv'
<1>. USE InvParts DEF Parts, Rest
<1>1. state[p] = "RUNNING" /\ p # Nil  BY Zenon, Runs, Consts
<1>2. lock' = c /\ cur' = [cur EXCEPT ![c] = Nil] /\ scan' = scan  BY Zenon DEF Sched
<1>3. TypeOK'  BY Zenon, <1>2 DEF TypeOK, States
<1>4. /\ \A t \in Slots : state'[t] = IF t = p THEN new ELSE state[t]
      /\ \A t \in Slots : chan'[t] = IF t = p THEN ch ELSE chan[t]
      /\ \A t \in Slots : pc'[t] = IF t = p THEN at ELSE pc[t]
      /\ \A d \in Cpus : cur'[d] = IF d = c THEN Nil ELSE cur[d]
      /\ \A d \in Cpus : cur[d] \in Slots \cup {Nil}
      /\ \A t \in Slots : parent[t] \in Slots \cup {Nil}
  BY Zenon, <1>2 DEF TypeOK
<1>5. OneCpu'  BY <1>1, <1>4, Consts DEF OneCpu
<1>6. ParentAlive'  BY <1>1, <1>4 DEF ParentAlive
<1>7. WaitMissesNothing'  BY <1>1, <1>4 DEF WaitMissesNothing, Reap
<1>8. ForkInv'  BY <1>1, <1>4 DEF ForkInv
<1>9. LockInv'
  <2>1. \A d \in Cpus : cur'[d] # Nil => (lock' = d <=> pc'[cur'[d]] = "wait")
    BY <1>1, <1>2, <1>4, Consts DEF LockInv, OneCpu
  <2>2. \A t \in Slots : state'[t] = "SLEEPING" /\ pc'[t] = "wait" => chan'[t] = t
    BY <1>4 DEF LockInv
  <2>. QED  BY Zenon, <2>1, <2>2 DEF LockInv
<1>10. FreeInv'  BY <1>1, <1>4, Consts DEF FreeInv
<1>. QED  BY Zenon, <1>3, <1>5, <1>6, <1>7, <1>8, <1>9, <1>10, PartsNext

\* sleep on a channel that is not a process.
LEMMA ProcSleep == ASSUME IInv, NEW c \in Cpus, NEW ch \in Chans, Sleep(c, ch)  PROVE IInv'
<1>1. PICK p \in Slots : p = cur[c] /\ lock = NoCpu /\ pc[p] = "user"
  BY Zenon, Runs DEF Sleep, Running
<1>2. /\ state' = [state EXCEPT ![p] = "SLEEPING"] /\ chan' = [chan EXCEPT ![p] = ch]
      /\ Sched(c) /\ pc' = pc
      /\ UNCHANGED <<pid, parent, killed, nextpid, child, panicked>>
  BY Zenon, <1>1 DEF Sleep, GoToSleep
<1>3. pc' = [pc EXCEPT ![p] = "user"]  BY Zenon, <1>1, <1>2 DEF IInv, RunsOnOneCpu, TypeOK
<1>4. "SLEEPING" \in {"SLEEPING", "RUNNABLE"} /\ ch \in Chans \cup Slots \cup {Nil}
      /\ "user" \in {pc[p], "wait"}
  BY Zenon, <1>1
<1>. QED  BY Zenon, <1>1, <1>2, <1>3, <1>4, ProcLeaves

\* yield, at the end of a quantum.
LEMMA ProcYield == ASSUME IInv, NEW c \in Cpus, Yield(c)  PROVE IInv'
<1>1. PICK p \in Slots : p = cur[c] /\ lock = NoCpu
  BY Zenon, Runs DEF Yield
<1>2. /\ state' = [state EXCEPT ![p] = "RUNNABLE"]
      /\ Sched(c) /\ pc' = pc /\ chan' = chan
      /\ UNCHANGED <<pid, parent, killed, nextpid, child, panicked>>
  BY Zenon, <1>1 DEF Yield
<1>3. pc' = [pc EXCEPT ![p] = pc[p]] /\ chan' = [chan EXCEPT ![p] = chan[p]]
      /\ chan[p] \in Chans \cup Slots \cup {Nil}
  BY Zenon, <1>2 DEF IInv, RunsOnOneCpu, TypeOK
<1>4. pc[p] # "wait"  BY Zenon, <1>1, Consts DEF IInv, LockInv
<1>5. "RUNNABLE" \in {"SLEEPING", "RUNNABLE"} /\ pc[p] \in {pc[p], "wait"}  BY Zenon
<1>. QED  BY Zenon, <1>1, <1>2, <1>3, <1>4, <1>5, ProcLeaves

\* wait returns, with a child reaped or with -1.
LEMMA ProcWaitReap ==
  ASSUME IInv, NEW c \in Cpus, NEW p \in Slots, p = cur[c], pc[p] # "fork",
         lock = NoCpu \/ lock = c,
         NEW z \in Slots, parent[z] = p, state[z] = "ZOMBIE",
         state' = [state EXCEPT ![z] = "UNUSED"], pid' = [pid EXCEPT ![z] = 0],
         parent' = [parent EXCEPT ![z] = Nil], killed' = killed \ {z},
         lock' = NoCpu, pc' = [pc EXCEPT ![p] = "user"],
         UNCHANGED <<chan, cur, scan, nextpid, child, panicked>>
  PROVE  IInv'
<1>. USE InvParts DEF Parts, Rest
<1>1. state[p] = "RUNNING" /\ p # Nil  BY Zenon, Runs, Consts
<1>2. TypeOK'  BY Consts DEF TypeOK, States
<1>3. /\ \A t \in Slots : state'[t] = IF t = z THEN "UNUSED" ELSE state[t]
      /\ \A t \in Slots : parent'[t] = IF t = z THEN Nil ELSE parent[t]
      /\ \A t \in Slots : pc'[t] = IF t = p THEN "user" ELSE pc[t]
      /\ \A d \in Cpus : cur[d] \in Slots \cup {Nil}
      /\ \A t \in Slots : parent[t] \in Slots \cup {Nil}
  BY Zenon DEF TypeOK
<1>4. OneCpu'  BY <1>3 DEF OneCpu
<1>5. ParentAlive'  BY <1>3 DEF ParentAlive
<1>6. WaitMissesNothing'  BY <1>1, <1>3, Consts DEF WaitMissesNothing, Reap
<1>7. ForkInv'  BY <1>1, <1>3 DEF ForkInv
<1>8. LockInv'
  <2>1. \A d \in Cpus : cur[d] # Nil => (lock' = d <=> pc'[cur[d]] = "wait")
    BY <1>1, <1>3, Consts DEF LockInv, OneCpu
  <2>2. \A t \in Slots : state'[t] = "SLEEPING" /\ pc'[t] = "wait" => chan[t] = t
    BY <1>3 DEF LockInv
  <2>. QED  BY Zenon, <2>1, <2>2 DEF LockInv
<1>9. FreeInv'  BY <1>3, Consts DEF FreeInv
<1>. QED  BY Zenon, <1>2, <1>4, <1>5, <1>6, <1>7, <1>8, <1>9, PartsNext

\* wait returns without a child.
LEMMA ProcWaitReturn ==
  ASSUME IInv, NEW c \in Cpus, NEW p \in Slots, p = cur[c], pc[p] # "fork",
         lock = NoCpu \/ lock = c,
         lock' = NoCpu, pc' = [pc EXCEPT ![p] = "user"],
         UNCHANGED <<state, pid, parent, chan, killed, cur, scan, nextpid, child, panicked>>
  PROVE  IInv'
<1>. USE InvParts DEF Parts, Rest
<1>1. state[p] = "RUNNING" /\ p # Nil  BY Zenon, Runs, Consts
<1>2. TypeOK'  BY Zenon, Consts DEF TypeOK, States
<1>3. /\ \A t \in Slots : pc'[t] = IF t = p THEN "user" ELSE pc[t]
      /\ \A d \in Cpus : cur[d] \in Slots \cup {Nil}
  BY Zenon DEF TypeOK
<1>4. OneCpu' /\ ParentAlive' /\ FreeInv'  BY Zenon DEF OneCpu, ParentAlive, FreeInv
<1>5. WaitMissesNothing'  BY <1>1, <1>3 DEF WaitMissesNothing, Reap
<1>6. ForkInv'  BY <1>1, <1>3 DEF ForkInv
<1>7. LockInv'
  <2>1. \A d \in Cpus : cur[d] # Nil => (lock' = d <=> pc'[cur[d]] = "wait")
    BY <1>1, <1>3, Consts DEF LockInv, OneCpu
  <2>. QED  BY <1>3, <2>1 DEF LockInv
<1>. QED  BY Zenon, <1>2, <1>4, <1>5, <1>6, <1>7, PartsNext

\* wait reaps a child, fails, or sleeps with ptable.lock held since its scan.
LEMMA ProcWait == ASSUME IInv, NEW c \in Cpus, Wait(c)  PROVE IInv'
<1>1. PICK p \in Slots : p = cur[c] /\ pc[p] # "fork" /\ (lock = NoCpu \/ lock = c)
  <2>1. cur[c] # Nil /\ ((lock = NoCpu /\ pc[cur[c]] = "user") \/ lock = c)
    BY Zenon DEF Wait, Running
  <2>. QED  BY Zenon, <2>1, Runs DEF IInv, LockInv
<1>0. UNCHANGED <<nextpid, child, panicked>>  BY Zenon DEF Wait
<1>2. CASE /\ Reap(p) # {}
           /\ LET z == Lowest(Reap(p)) IN
              /\ state' = [state EXCEPT ![z] = "UNUSED"]
              /\ pid' = [pid EXCEPT ![z] = 0]
              /\ parent' = [parent EXCEPT ![z] = Nil]
              /\ killed' = killed \ {z}
           /\ lock' = NoCpu
           /\ pc' = [pc EXCEPT ![p] = "user"]
           /\ UNCHANGED <<chan, cur, scan, q>>
  <2>1. Reap(p) \in SUBSET Slots  BY Zenon DEF Reap
  <2>2. PICK z \in Slots : z = Lowest(Reap(p)) /\ z \in Reap(p)  BY Zenon, <1>2, <2>1, LowestIn
  <2>3. parent[z] = p /\ state[z] = "ZOMBIE"  BY Zenon, <2>2 DEF Reap
  <2>. QED  BY Zenon, <1>0, <1>1, <1>2, <2>2, <2>3, ProcWaitReap
<1>3. CASE /\ lock' = NoCpu
           /\ pc' = [pc EXCEPT ![p] = "user"]
           /\ UNCHANGED <<table, cur, scan, q>>
  BY Zenon, <1>0, <1>1, <1>3, ProcWaitReturn DEF table
<1>4. CASE /\ Reap(p) = {} /\ {s \in Slots : parent[s] = p} # {} /\ p \notin killed
           /\ GoToSleep(c, p)
           /\ pc' = [pc EXCEPT ![p] = "wait"]
  <2>1. /\ state' = [state EXCEPT ![p] = "SLEEPING"] /\ chan' = [chan EXCEPT ![p] = p]
        /\ Sched(c) /\ UNCHANGED <<pid, parent, killed>>
    BY Zenon, <1>1, <1>4 DEF GoToSleep
  <2>2. "SLEEPING" \in {"SLEEPING", "RUNNABLE"} /\ "wait" \in {pc[p], "wait"}
        /\ p \in Chans \cup Slots \cup {Nil} /\ \E k \in Slots : parent[k] = p
    BY Zenon, <1>4
  <2>. QED  BY Zenon, <1>0, <1>1, <1>4, <2>1, <2>2, ProcLeaves
<1>. QED  BY Zenon, <1>1, <1>2, <1>3, <1>4 DEF Wait

\* exit leaves a ZOMBIE to a parent that is woken, and hands the children over
\* to init, which is woken for those that are ZOMBIEs.
LEMMA ProcExit == ASSUME IInv, NEW c \in Cpus, Exit(c)  PROVE IInv'
<1>. USE InvParts DEF Parts, Rest
<1>1. PICK p \in Slots : p = cur[c] /\ state[p] = "RUNNING" /\ lock = NoCpu /\ pc[p] = "user"
  BY Zenon, Runs DEF Exit, Running
<1>2. CASE p = Initproc
  <2>1. UNCHANGED <<state, pid, parent, chan, killed, nextpid, pc, child, cur, lock, scan>>
        /\ panicked' = TRUE
    BY Zenon, <1>1, <1>2 DEF Exit, table, sched
  <2>2. TypeOK'  BY Zenon, <2>1 DEF TypeOK
  <2>3. OneCpu' /\ ParentAlive' /\ WaitMissesNothing' /\ ForkInv' /\ LockInv' /\ FreeInv'
    BY <2>1 DEF OneCpu, ParentAlive, WaitMissesNothing, Reap, ForkInv, LockInv, FreeInv
  <2>. QED  BY Zenon, <2>2, <2>3, PartsNext
<1>3. CASE p # Initproc
  <2>. DEFINE kids == {s \in Slots : parent[s] = p}
              waker == Woken(parent[p])
              inits == IF \E s \in kids : state[s] = "ZOMBIE" THEN Woken(Initproc) \ waker ELSE {}
  <2>1. PICK S \in SUBSET Slots : S = waker \cup inits  BY Zenon DEF Woken
  <2>2. /\ \A s \in S : state[s] = "SLEEPING"
        /\ \A s \in Slots : state[s] = "SLEEPING" /\ chan[s] = parent[p] => s \in S
        /\ \A z \in Slots : parent[z] = p /\ state[z] = "ZOMBIE" /\ state[Initproc] = "SLEEPING"
                            /\ chan[Initproc] = Initproc => Initproc \in S
    BY Zenon, <2>1, Consts DEF Woken
  <2>3. /\ state' = [s \in Slots |-> IF s = p THEN "ZOMBIE"
                                     ELSE IF s \in S THEN "RUNNABLE" ELSE state[s]]
        /\ parent' = [s \in Slots |-> IF parent[s] = p THEN Initproc ELSE parent[s]]
        /\ lock' = c /\ cur' = [cur EXCEPT ![c] = Nil]
        /\ UNCHANGED <<pid, chan, killed, nextpid, pc, child, scan, panicked>>
    BY Zenon, <1>1, <1>3, <2>1 DEF Exit, Sched
  <2>. HIDE DEF kids, waker, inits
  <2>4. TypeOK'  BY Zenon, <2>3, Consts DEF TypeOK, States
  <2>5. /\ \A t \in Slots : state'[t] = IF t = p THEN "ZOMBIE"
                                        ELSE IF t \in S THEN "RUNNABLE" ELSE state[t]
        /\ \A t \in Slots : parent'[t] = IF parent[t] = p THEN Initproc ELSE parent[t]
        /\ \A d \in Cpus : cur'[d] = IF d = c THEN Nil ELSE cur[d]
        /\ \A d \in Cpus : cur[d] \in Slots \cup {Nil}
        /\ \A t \in Slots : parent[t] \in Slots \cup {Nil}
    BY Zenon, <2>3 DEF TypeOK
  <2>6. OneCpu'
    <3>1. \A d \in Cpus : cur'[d] # Nil => /\ d # c /\ cur'[d] = cur[d] /\ cur[d] # p
                                           /\ cur[d] \in Slots /\ state'[cur[d]] = "RUNNING"
      BY <1>1, <2>2, <2>5 DEF OneCpu
    <3>2. \A s \in Slots : state'[s] = "RUNNING" => \E d \in Cpus : cur'[d] = s
      <4>. SUFFICES ASSUME NEW s \in Slots, state'[s] = "RUNNING"  PROVE \E d \in Cpus : cur'[d] = s
        BY Zenon
      <4>1. s # p /\ state[s] = "RUNNING"  BY Zenon, <2>5
      <4>2. PICK d \in Cpus : cur[d] = s  BY Zenon, <4>1 DEF OneCpu
      <4>3. d # c  BY Zenon, <1>1, <4>1, <4>2
      <4>. QED  BY Zenon, <2>5, <4>2, <4>3
    <3>. QED  BY <3>1, <3>2 DEF OneCpu
  <2>7. ParentAlive'
    <3>. SUFFICES ASSUME NEW s \in Slots \ {Initproc}, state'[s] \notin {"UNUSED", "EMBRYO"}
                  PROVE  parent'[s] # Nil /\ state'[parent'[s]] \notin {"UNUSED", "EMBRYO", "ZOMBIE"}
      BY Zenon DEF ParentAlive
    <3>1. state[s] \notin {"UNUSED", "EMBRYO"}  BY Zenon, <1>1, <2>2, <2>5
    <3>2. parent[s] \in Slots /\ state[parent[s]] \notin {"UNUSED", "EMBRYO", "ZOMBIE"}
      BY Zenon, <2>5, <3>1 DEF ParentAlive
    <3>3. CASE parent[s] = p
      <4>1. parent'[s] = Initproc  BY Zenon, <2>5, <3>3
      <4>2. state'[Initproc] \in {"SLEEPING", "RUNNABLE", "RUNNING"}
        BY Zenon, <1>3, <2>5, Consts DEF FreeInv
      <4>. QED  BY Zenon, <4>1, <4>2, Consts
    <3>4. CASE parent[s] # p
      <4>1. PICK t \in Slots : t = parent[s] /\ t # p  BY Zenon, <3>2, <3>4
      <4>2. parent'[s] = t  BY Zenon, <2>5, <4>1
      <4>3. state'[t] = "RUNNABLE" \/ state'[t] = state[t]  BY Zenon, <2>5, <4>1
      <4>. QED  BY Zenon, <3>2, <4>1, <4>2, <4>3, Consts
    <3>. QED  BY Zenon, <3>3, <3>4
  <2>8. WaitMissesNothing'
    <3>. SUFFICES ASSUME NEW s \in Slots, state'[s] = "SLEEPING", pc'[s] = "wait"
                  PROVE  /\ \E k \in Slots : parent'[k] = s
                         /\ Reap(s)' = {} /\ s \notin killed'
      BY Zenon DEF WaitMissesNothing
    <3>1. /\ s # p /\ s \notin S /\ state[s] = "SLEEPING" /\ pc[s] = "wait"
          /\ chan[s] = s /\ s # parent[p]
      BY Zenon, <2>2, <2>3, <2>5 DEF LockInv
    <3>2. (\E k \in Slots : parent[k] = s) /\ Reap(s) = {} /\ s \notin killed
      BY Zenon, <3>1 DEF WaitMissesNothing
    <3>3. \E k \in Slots : parent'[k] = s  BY Zenon, <2>5, <3>1, <3>2
    <3>4. ASSUME NEW z \in Slots, parent'[z] = s, state'[z] = "ZOMBIE"  PROVE FALSE
      <4>1. CASE parent[z] = p
        <5>1. s = Initproc  BY Zenon, <2>5, <3>4, <4>1
        <5>2. z # p
          BY Zenon, <4>1 DEF FreeInv
        <5>3. state[z] = "ZOMBIE"  BY Zenon, <2>5, <3>4, <5>2
        <5>. QED  BY Zenon, <2>2, <3>1, <4>1, <5>1, <5>3
      <4>2. CASE parent[z] # p
        <5>1. parent[z] = s /\ z # p  BY Zenon, <2>5, <3>1, <3>4, <4>2
        <5>2. state[z] = "ZOMBIE"  BY Zenon, <2>5, <3>4, <5>1
        <5>. QED  BY Zenon, <3>2, <5>1, <5>2 DEF Reap
      <4>. QED  BY Zenon, <4>1, <4>2
    <3>. QED  BY Zenon, <2>3, <3>2, <3>3, <3>4 DEF Reap
  <2>9. ForkInv'  BY <1>1, <2>2, <2>3, <2>5 DEF ForkInv
  <2>10. LockInv'
    <3>1. \A d \in Cpus : cur'[d] # Nil => (lock' = d <=> pc'[cur'[d]] = "wait")
      BY <1>1, <2>3, <2>5, Consts DEF LockInv, OneCpu
    <3>. QED  BY Zenon, <2>3, <2>5, <3>1 DEF LockInv
  <2>11. FreeInv'
    <3>1. parent[Initproc] = Nil /\ p # Nil /\ Initproc \in Slots  BY Zenon, Consts DEF FreeInv
    <3>2. parent'[Initproc] = Nil /\ state'[Initproc] \in {"SLEEPING", "RUNNABLE", "RUNNING"}
      BY Zenon, <1>3, <2>5, <3>1 DEF FreeInv
    <3>3. \A s \in Slots : state'[s] \in {"UNUSED", "EMBRYO"} => parent'[s] = Nil
      BY Zenon, <2>5, <3>1 DEF FreeInv
    <3>4. \A s \in Slots : parent'[s] # s  BY <2>5, <3>1 DEF FreeInv
    <3>. QED  BY Zenon, <3>2, <3>3, <3>4 DEF FreeInv
  <2>. QED  BY Zenon, <2>4, <2>6, <2>7, <2>8, <2>9, <2>10, <2>11, PartsNext
<1>. QED  BY Zenon, <1>2, <1>3

------------------------------------------------------------------------------

\* Every step of a CPU keeps the invariant.
LEMMA ProcStep == ASSUME IInv, PicksRunnable, NEW c \in Cpus, Step(c)  PROVE IInv'
<1>1. CASE SchedAcquire(c) \/ SchedRun(c) \/ SchedDraw(c) \/ SchedRelease(c)
  BY Zenon, <1>1, ProcSchedAcquire, ProcSchedRun, ProcSchedDraw, ProcSchedRelease
<1>2. CASE AllocProc(c) \/ ForkFail(c) \/ Fork(c)
  BY Zenon, <1>2, ProcAllocProc, ProcForkFail, ProcFork
<1>3. CASE Exit(c) \/ Wait(c) \/ Yield(c)  BY Zenon, <1>3, ProcExit, ProcWait, ProcYield
<1>4. CASE \E ch \in Chans : Sleep(c, ch)  BY Zenon, <1>4, ProcSleep
<1>5. CASE \E n \in 0..MaxPid : Kill(c, n) \/ Sigsend(c, n)  BY Zenon, <1>5, ProcKill, ProcSigsend
<1>. QED  BY Zenon, <1>1, <1>2, <1>3, <1>4, <1>5 DEF Step

\* Every step keeps the invariant.
LEMMA ProcNext == IInv /\ PicksRunnable /\ [Next]_vars => IInv'
<1>1. ASSUME IInv, UNCHANGED vars  PROVE IInv'
  BY <1>1 DEF vars, table, sched, IInv, RunsOnOneCpu, TypeOK, ParentAlive, WaitMissesNothing,
              Reap, ForkInv, LockInv, FreeInv
<1>2. ASSUME IInv, PicksRunnable, Next  PROVE IInv'
  BY Zenon, <1>1, <1>2, ProcStep, ProcWakeup DEF Next, Panic
<1>. QED  BY Zenon, <1>1, <1>2

\* The invariant holds in every reachable state.
LEMMA ProcInvariant == Spec /\ []PicksRunnable => []IInv
BY ProcInit, ProcNext, PTL DEF Spec

\* Without a run queue nothing is drawn.
LEMMA DefaultPicks == ASSUME POLICY = "DEFAULT" PROVE PicksRunnable
BY Zenon DEF PicksRunnable

\* Whatever fork, exit, wait, sleep, kill and the schedulers of the CPUs do, a
\* process runs on one CPU at most, and the proc of a CPU is RUNNING, if the
\* lottery only picks RUNNABLE processes.
THEOREM OneCpuEach == Spec /\ []PicksRunnable => []RunsOnOneCpu
<1>1. IInv => RunsOnOneCpu  BY Zenon DEF IInv
<1>. QED  BY <1>1, ProcInvariant, PTL

\* The parent of every process but init is alive: exit hands children over, and
\* wait gives back only slots that are nobody's parent.
THEOREM ParentsLive == Spec /\ []PicksRunnable => []ParentAlive
<1>1. IInv => ParentAlive  BY Zenon DEF IInv
<1>. QED  BY <1>1, ProcInvariant, PTL

\* No exit and no kill slips in between the scan of the table in wait and its
\* sleep, and none that comes later is missed.
THEOREM WaitSeesAll == Spec /\ []PicksRunnable => []WaitMissesNothing
<1>1. IInv => WaitMissesNothing  BY Zenon DEF IInv
<1>. QED  BY <1>1, ProcInvariant, PTL

\* The scheduler of the DEFAULT policy, without any assumption on a run queue.
THEOREM DefaultScheduler ==
  ASSUME POLICY = "DEFAULT"
  PROVE  Spec => [](RunsOnOneCpu /\ ParentAlive /\ WaitMissesNothing)
<1>1. PicksRunnable  BY DefaultPicks
<1>2. []PicksRunnable  BY <1>1, PTL
<1>3. IInv => RunsOnOneCpu /\ ParentAlive /\ WaitMissesNothing  BY Zenon DEF IInv
<1>. QED  BY <1>2, <1>3, ProcInvariant, PTL
=============================================================================
