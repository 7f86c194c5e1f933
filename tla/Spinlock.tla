------------------------------- MODULE Spinlock -------------------------------
(***************************************************************************)
(* The spinlocks of spinlock.c on several CPUs that take interrupts.       *)
(* acquire and release are split at the atomic exchange, so that the       *)
(* debugging field lk->cpu, which holding() trusts, is written outside of  *)
(* it.  Which locks the kernel takes while it holds which is the constant  *)
(* Order, read off the callers of acquire.                                 *)
(***************************************************************************)
EXTENDS Integers, FiniteSets

CONSTANTS
  Cpus,
  Locks,
  Order,    \* <<h, l>>: some kernel path acquires l while it holds h
  None      \* neither a CPU nor a lock

ASSUME SpinlockAssumption ==
  /\ None \notin Cpus /\ None \notin Locks
  /\ Order \subseteq Locks \X Locks
  /\ IsFiniteSet(Locks)

VARIABLES
  locked,   \* lk->locked
  owner,    \* lk->cpu
  ncli,     \* cpu->ncli
  intena,   \* cpu->intena
  intr,     \* FL_IF of eflags, 1: the CPU takes interrupts
  level,    \* the CPU runs an interrupt "handler", or "base" code
  pc,       \* where the CPU is in acquire or release
  want,     \* the lock it acquires or releases
  held,     \* the locks that the base code and the handler hold
  panicked

lockvars == <<locked, owner>>
cpuvars  == <<ncli, intena, intr>>
vars     == <<lockvars, cpuvars, level, pc, want, held, panicked>>

Levels == {"base", "handler"}
Holds(c) == held[c]["base"] \cup held[c]["handler"]
holding(c, l) == locked[l] /\ owner[l] = c

Init ==
  /\ locked = [l \in Locks |-> FALSE]
  /\ owner = [l \in Locks |-> None]
  /\ ncli = [c \in Cpus |-> 0]
  /\ intena = [c \in Cpus |-> 0]
  /\ intr = [c \in Cpus |-> 1]
  /\ level = [c \in Cpus |-> "base"]
  /\ pc = [c \in Cpus |-> "run"]
  /\ want = [c \in Cpus |-> None]
  /\ held = [c \in Cpus |-> [v \in Levels |-> {}]]
  /\ panicked = FALSE

\* Mutant: the interrupt state is saved at every level of nesting.
pushcliAlwaysSaves(c) ==
  /\ intr' = [intr EXCEPT ![c] = 0]
  /\ ncli' = [ncli EXCEPT ![c] = @ + 1]
  /\ intena' = [intena EXCEPT ![c] = intr[c]]

pushcli(c) ==
  /\ intr' = [intr EXCEPT ![c] = 0]
  /\ ncli' = [ncli EXCEPT ![c] = @ + 1]
  /\ intena' = IF ncli[c] = 0 THEN [intena EXCEPT ![c] = intr[c]] ELSE intena

\* acquire up to its loop.  Code that holds h acquires l only if Order says so,
\* and never a lock that it holds itself; a handler knows nothing of the locks
\* of the code it interrupted.
AcquireStart(c, l) ==
  /\ pc[c] = "run" /\ l \notin held[c][level[c]]
  /\ \A h \in held[c][level[c]] : <<h, l>> \in Order
  /\ pushcli(c)
  /\ panicked' = holding(c, l)
  /\ pc' = [pc EXCEPT ![c] = "spin"]
  /\ want' = [want EXCEPT ![c] = l]
  /\ UNCHANGED <<lockvars, level, held>>

\* Mutant: the exchange does not look at the old value.
xchgBlind(c) ==
  /\ pc[c] = "spin"
  /\ locked' = [locked EXCEPT ![want[c]] = TRUE]
  /\ held' = [held EXCEPT ![c][level[c]] = @ \cup {want[c]}]
  /\ pc' = [pc EXCEPT ![c] = "own"]
  /\ UNCHANGED <<owner, cpuvars, level, want, panicked>>

\* The exchange that finds the lock free; the others change nothing.
xchg(c) ==
  /\ pc[c] = "spin" /\ ~locked[want[c]]
  /\ locked' = [locked EXCEPT ![want[c]] = TRUE]
  /\ held' = [held EXCEPT ![c][level[c]] = @ \cup {want[c]}]
  /\ pc' = [pc EXCEPT ![c] = "own"]
  /\ UNCHANGED <<owner, cpuvars, level, want, panicked>>

\* lk->cpu = cpu, and acquire returns.
AcquireEnd(c) ==
  /\ pc[c] = "own"
  /\ owner' = [owner EXCEPT ![want[c]] = c]
  /\ pc' = [pc EXCEPT ![c] = "run"]
  /\ want' = [want EXCEPT ![c] = None]
  /\ UNCHANGED <<locked, cpuvars, level, held, panicked>>

\* release up to its exchange.
ReleaseStart(c, l) ==
  /\ pc[c] = "run" /\ l \in held[c][level[c]]
  /\ panicked' = ~holding(c, l)
  /\ owner' = [owner EXCEPT ![l] = None]
  /\ pc' = [pc EXCEPT ![c] = "unlock"]
  /\ want' = [want EXCEPT ![c] = l]
  /\ UNCHANGED <<locked, cpuvars, level, held>>

\* The exchange of release.
Unlock(c) ==
  /\ pc[c] = "unlock"
  /\ locked' = [locked EXCEPT ![want[c]] = FALSE]
  /\ held' = [held EXCEPT ![c][level[c]] = @ \ {want[c]}]
  /\ pc' = [pc EXCEPT ![c] = "popcli"]
  /\ UNCHANGED <<owner, cpuvars, level, want, panicked>>

popcli(c) ==
  /\ pc[c] = "popcli"
  /\ panicked' = (intr[c] = 1 \/ ncli[c] - 1 < 0)
  /\ ncli' = [ncli EXCEPT ![c] = @ - 1]
  /\ intr' = [intr EXCEPT ![c] = IF ncli'[c] = 0 /\ intena[c] # 0 THEN 1 ELSE @]
  /\ pc' = [pc EXCEPT ![c] = "run"]
  /\ want' = [want EXCEPT ![c] = None]
  /\ UNCHANGED <<lockvars, intena, level, held>>

\* An interrupt: the gate clears FL_IF and saves it in the trap frame.
Interrupt(c) ==
  /\ intr[c] = 1 /\ level[c] = "base" /\ pc[c] = "run"
  /\ intr' = [intr EXCEPT ![c] = 0]
  /\ level' = [level EXCEPT ![c] = "handler"]
  /\ UNCHANGED <<lockvars, ncli, intena, pc, want, held, panicked>>

\* The handler returns, iret restores FL_IF.
Iret(c) ==
  /\ level[c] = "handler" /\ pc[c] = "run" /\ held[c]["handler"] = {}
  /\ intr' = [intr EXCEPT ![c] = 1]
  /\ level' = [level EXCEPT ![c] = "base"]
  /\ UNCHANGED <<lockvars, ncli, intena, pc, want, held, panicked>>

Next ==
  /\ ~panicked
  /\ \E c \in Cpus :
       \/ \E l \in Locks : AcquireStart(c, l) \/ ReleaseStart(c, l)
       \/ xchg(c) \/ AcquireEnd(c) \/ Unlock(c) \/ popcli(c)
       \/ Interrupt(c) \/ Iret(c)

Spec == Init /\ [][Next]_vars
------------------------------------------------------------------------------
TypeOK ==
  /\ locked \in [Locks -> BOOLEAN] /\ owner \in [Locks -> Cpus \cup {None}]
  /\ ncli \in [Cpus -> Nat] /\ intena \in [Cpus -> 0..1] /\ intr \in [Cpus -> 0..1]
  /\ level \in [Cpus -> Levels] /\ panicked \in BOOLEAN
  /\ pc \in [Cpus -> {"run", "spin", "own", "unlock", "popcli"}]
  /\ want \in [Cpus -> Locks \cup {None}]
  /\ held \in [Cpus -> [Levels -> SUBSET Locks]]

\* acquire and release: no two CPUs are between them with the same lock; and
\* holding() is right although lk->cpu is written outside of the exchange, so that
\* none of the panics of acquire, release and popcli is reached.
MutualExclusion ==
  /\ \A c, d \in Cpus : c # d => Holds(c) \cap Holds(d) = {}
  /\ ~panicked

\* pushcli and popcli: a CPU that holds or waits for a lock takes no interrupt, so
\* a handler never meets a lock of the code it interrupted; and matched pairs give
\* back the state they found: on, in code that was not interrupted; off, in a
\* handler.
InterruptsExact ==
  \A c \in Cpus :
    /\ Holds(c) # {} \/ pc[c] # "run" => intr[c] = 0 /\ (level[c] = "handler" => held[c]["base"] = {})
    /\ Holds(c) = {} /\ pc[c] = "run" => (intr[c] = 1 <=> level[c] = "base")

\* Acquire "loops (spins) until the lock is acquired": no CPUs wait for locks
\* that only they themselves can release.
NoCircularWait ==
  \A S \in SUBSET Cpus \ {{}} :
    \E c \in S : ~(pc[c] = "spin" /\ \E d \in S : want[c] \in Holds(d))
==============================================================================
