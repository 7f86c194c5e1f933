---------------------------- MODULE SpinlockProofs ----------------------------
(***************************************************************************)
(* Theorems about Spinlock, for any set of CPUs, any finite set of locks   *)
(* and any order in which the kernel nests them: deadlocks among locks     *)
(* never cost mutual exclusion or the interrupt state.                     *)
(***************************************************************************)
EXTENDS Spinlock, FiniteSetTheorems, TLAPS

USE SpinlockAssumption

\* The locks of the code that runs: the code it interrupted holds none.
Mine(c) == held[c][level[c]]

\* What a CPU knows of itself: its depth of pushcli is the locks it holds and
\* the one it waits for or has just released.
CpuInv(c) ==
  /\ \A v \in Levels \ {level[c]} : held[c][v] = {}
  /\ pc[c] \in {"own", "unlock"} => want[c] \in Mine(c)
  /\ pc[c] = "spin" => want[c] \in Locks \ Mine(c)
  /\ ncli[c] = Cardinality(Mine(c)) + (IF pc[c] \in {"spin", "popcli"} THEN 1 ELSE 0)
  /\ ncli[c] > 0 => intr[c] = 0 /\ (intena[c] = 1 <=> level[c] = "base")
  /\ ncli[c] = 0 => (intr[c] = 1 <=> level[c] = "base")

\* lk->cpu is c exactly while c holds the lock and neither acquires nor
\* releases it: it lags behind the exchange of acquire and runs ahead of that
\* of release.
OwnerInv ==
  \A c \in Cpus, l \in Locks :
    owner[l] = c <=> l \in Mine(c) /\ ~(pc[c] \in {"own", "unlock"} /\ want[c] = l)

LockInv ==
  /\ \A c, d \in Cpus : c # d => Mine(c) \cap Mine(d) = {}
  /\ \A c \in Cpus : \A l \in Mine(c) : locked[l]
  /\ OwnerInv

IInv == TypeOK /\ ~panicked /\ LockInv /\ \A c \in Cpus : CpuInv(c)
------------------------------------------------------------------------------
\* Sets of locks are finite, so they can be counted.
LEMMA LocksCounted ==
  ASSUME NEW S \in SUBSET Locks
  PROVE  /\ Cardinality(S) \in Nat /\ (Cardinality(S) = 0 <=> S = {})
         /\ \A l : l \notin S => Cardinality(S \cup {l}) = Cardinality(S) + 1
         /\ \A l \in S : Cardinality(S \ {l}) = Cardinality(S) - 1
<1>1. IsFiniteSet(S)  BY Zenon, FS_Subset
<1>2. Cardinality(S) \in Nat /\ (Cardinality(S) = 0 <=> S = {})
  BY Zenon, <1>1, FS_CardinalityType, FS_EmptySet
<1>3. ASSUME NEW l, l \notin S PROVE Cardinality(S \cup {l}) = Cardinality(S) + 1
  BY Zenon, <1>1, <1>3, FS_AddElement
<1>4. ASSUME NEW l \in S PROVE Cardinality(S \ {l}) = Cardinality(S) - 1
  BY Zenon, <1>1, FS_RemoveElement
<1>. QED  BY Zenon, <1>2, <1>3, <1>4

\* The code that runs holds all the locks its CPU holds.
LEMMA HoldsMine ==
  ASSUME TypeOK, NEW c \in Cpus, CpuInv(c)
  PROVE  Holds(c) = Mine(c) /\ Mine(c) \in SUBSET Locks
BY DEF TypeOK, CpuInv, Holds, Mine, Levels

\* The state of CPU d is not touched.
Untouched(d) ==
  /\ ncli'[d] = ncli[d] /\ intena'[d] = intena[d] /\ intr'[d] = intr[d]
  /\ level'[d] = level[d] /\ pc'[d] = pc[d] /\ want'[d] = want[d] /\ held'[d] = held[d]

\* What is known of a CPU stays known while another one moves.
LEMMA UntouchedInv ==
  ASSUME NEW d \in Cpus, CpuInv(d), Untouched(d)
  PROVE  CpuInv(d)' /\ Mine(d)' = Mine(d)
BY Zenon DEF Untouched, CpuInv, Mine

\* No CPU holds a lock when the kernel starts.
LEMMA InitInv == Init => IInv
<1>. SUFFICES ASSUME Init PROVE IInv
  BY Zenon
<1>1. TypeOK
  <2>1. locked \in [Locks -> BOOLEAN] /\ panicked \in BOOLEAN  BY Zenon DEF Init
  <2>2. held \in [Cpus -> [Levels -> SUBSET Locks]]  BY Zenon DEF Init
  <2>. QED  BY <2>1, <2>2 DEF Init, TypeOK, Levels
<1>2. \A c \in Cpus : Mine(c) = {} /\ pc[c] = "run" /\ ncli[c] = 0 /\ intr[c] = 1 /\ level[c] = "base"
  BY Zenon DEF Init, Mine, Levels
<1>3. \A c \in Cpus : CpuInv(c)
  <2>. SUFFICES ASSUME NEW c \in Cpus PROVE CpuInv(c)
    BY Zenon
  <2>1. \A v \in Levels : held[c][v] = {}  BY Zenon DEF Init
  <2>. QED  BY <1>2, <2>1, LocksCounted DEF CpuInv
<1>4. LockInv
  <2>1. \A c \in Cpus, l \in Locks : owner[l] # c  BY Zenon DEF Init
  <2>. QED  BY Zenon, <1>2, <2>1 DEF LockInv, OwnerInv
<1>. QED  BY Zenon, <1>1, <1>3, <1>4 DEF IInv, Init

\* pushcli and the test of holding() at the head of acquire.
LEMMA AcquireStartInv ==
  ASSUME IInv, NEW c \in Cpus, NEW l \in Locks, AcquireStart(c, l)
  PROVE  IInv'
<1>. USE DEF AcquireStart, pushcli, lockvars
<1>1. TypeOK'
  <2>1. holding(c, l) \in BOOLEAN  BY Zenon DEF holding
  <2>. QED  BY <2>1 DEF IInv, TypeOK
<1>2. CpuInv(c)'
  <2>1. Mine(c)' = Mine(c) /\ Mine(c) \in SUBSET Locks  BY Zenon, HoldsMine DEF Mine, IInv
  <2>2. pc'[c] = "spin" /\ want'[c] = l /\ l \notin Mine(c) /\ pc[c] = "run"
    BY Zenon DEF IInv, TypeOK, Mine
  <2>3. ncli[c] = Cardinality(Mine(c)) /\ ncli[c] \in Nat /\ ncli'[c] = ncli[c] + 1
    BY SMTT(30), <2>1, <2>2, LocksCounted DEF IInv, TypeOK, CpuInv
  <2>4. intr'[c] = 0 /\ (intena'[c] = 1 <=> level'[c] = "base")
    BY <2>3 DEF IInv, TypeOK, CpuInv
  <2>. QED  BY <2>1, <2>2, <2>3, <2>4 DEF CpuInv, IInv
<1>3. \A d \in Cpus \ {c} : CpuInv(d)'
  BY Zenon, UntouchedInv DEF Untouched, IInv, TypeOK
<1>4. LockInv'
  <2>1. \A d \in Cpus : Mine(d)' = Mine(d)  BY Zenon DEF Mine
  <2>2. \A d \in Cpus : pc'[d] \in {"own", "unlock"} <=> pc[d] \in {"own", "unlock"}
    BY Zenon DEF IInv, TypeOK
  <2>3. \A d \in Cpus : pc[d] \in {"own", "unlock"} => want'[d] = want[d]
    BY Zenon DEF IInv, TypeOK
  <2>. QED  BY <2>1, <2>2, <2>3 DEF IInv, LockInv, OwnerInv
<1>5. ~panicked'
  BY Zenon DEF IInv, LockInv, OwnerInv, holding, Mine
<1>. QED  BY Zenon, <1>1, <1>2, <1>3, <1>4, <1>5 DEF IInv

\* The exchange that takes a free lock.
LEMMA xchgInv ==
  ASSUME IInv, NEW c \in Cpus, xchg(c)
  PROVE  IInv'
<1>. USE DEF xchg, cpuvars
<1>1. /\ want[c] \in Locks /\ want[c] \notin Mine(c) /\ pc[c] = "spin"
      /\ level[c] \in Levels /\ Mine(c) \in SUBSET Locks
  BY Zenon, HoldsMine DEF IInv, CpuInv, TypeOK
<1>2. TypeOK'  BY <1>1 DEF IInv, TypeOK, Levels
<1>3. Mine(c)' = Mine(c) \cup {want[c]}  BY Zenon, <1>1 DEF Mine, IInv, TypeOK
<1>4. CpuInv(c)'
  <2>1. \A v \in Levels \ {level'[c]} : held'[c][v] = {}  BY <1>1 DEF IInv, CpuInv, TypeOK
  <2>2. ncli[c] = Cardinality(Mine(c)) + 1 /\ Cardinality(Mine(c)) \in Nat
    BY Zenon, <1>1, LocksCounted DEF IInv, CpuInv
  <2>3. Cardinality(Mine(c)') = Cardinality(Mine(c)) + 1  BY Zenon, <1>1, <1>3, LocksCounted
  <2>4. pc'[c] = "own" /\ want'[c] \in Mine(c)'  BY Zenon, <1>1, <1>3 DEF IInv, TypeOK
  <2>. QED  BY <2>1, <2>2, <2>3, <2>4 DEF IInv, CpuInv
<1>5. \A d \in Cpus \ {c} : CpuInv(d)' /\ Mine(d)' = Mine(d)
  BY Zenon, UntouchedInv DEF Untouched, IInv, TypeOK
<1>6. LockInv'
  <2>1. \A d \in Cpus : want[c] \notin Mine(d)  BY Zenon, <1>1 DEF IInv, LockInv
  <2>2. \A d, e \in Cpus : d # e => Mine(d)' \cap Mine(e)' = {}
    BY <1>3, <1>5, <2>1 DEF IInv, LockInv
  <2>3. \A d \in Cpus : \A l \in Mine(d)' : locked'[l]
    BY SMTT(30), <1>1, <1>3, <1>5 DEF IInv, LockInv, TypeOK
  <2>4. OwnerInv'
    <3>. SUFFICES ASSUME NEW d \in Cpus, NEW l \in Locks
         PROVE  owner[l] = d <=> l \in Mine(d)' /\ ~(pc'[d] \in {"own", "unlock"} /\ want[d] = l)
      BY Zenon DEF OwnerInv
    <3>1. CASE d = c  BY <1>1, <1>3, <3>1 DEF IInv, LockInv, OwnerInv, TypeOK
    <3>2. CASE d # c  BY <1>5, <3>2 DEF IInv, LockInv, OwnerInv, TypeOK
    <3>. QED  BY Zenon, <3>1, <3>2
  <2>. QED  BY Zenon, <2>2, <2>3, <2>4 DEF LockInv
<1>. QED  BY Zenon, <1>2, <1>4, <1>5, <1>6 DEF IInv

\* The write of lk->cpu at the end of acquire.
LEMMA AcquireEndInv ==
  ASSUME IInv, NEW c \in Cpus, AcquireEnd(c)
  PROVE  IInv'
<1>. USE DEF AcquireEnd, cpuvars
<1>1. want[c] \in Mine(c) /\ want[c] \in Locks /\ pc[c] = "own"
  BY Zenon, HoldsMine DEF IInv, CpuInv
<1>2. TypeOK'  BY Zenon, <1>1 DEF IInv, TypeOK
<1>3. \A d \in Cpus : Mine(d)' = Mine(d)  BY Zenon DEF Mine
<1>4. CpuInv(c)'
  <2>1. pc'[c] = "run"  BY Zenon DEF IInv, TypeOK
  <2>. QED  BY Zenon, <1>1, <1>3, <2>1 DEF IInv, CpuInv
<1>5. \A d \in Cpus \ {c} : CpuInv(d)'
  BY Zenon, UntouchedInv DEF Untouched, IInv, TypeOK
<1>6. OwnerInv'
  <2>. SUFFICES ASSUME NEW d \in Cpus, NEW l \in Locks
       PROVE  owner'[l] = d <=> l \in Mine(d) /\ ~(pc'[d] \in {"own", "unlock"} /\ want'[d] = l)
    BY <1>3 DEF OwnerInv
  <2>1. CASE d = c
    <3>1. pc'[c] = "run"  BY Zenon DEF IInv, TypeOK
    <3>2. owner'[l] = c <=> l = want[c] \/ owner[l] = c  BY Zenon DEF IInv, TypeOK
    <3>3. owner[l] = c <=> l \in Mine(c) /\ want[c] # l
      BY Zenon, <1>1 DEF IInv, LockInv, OwnerInv
    <3>. QED  BY Zenon, <1>1, <2>1, <3>1, <3>2, <3>3
  <2>2. CASE d # c
    <3>1. pc'[d] = pc[d] /\ want'[d] = want[d]  BY Zenon, <2>2 DEF IInv, TypeOK
    <3>2. owner'[l] = d <=> l # want[c] /\ owner[l] = d  BY Zenon, <2>2 DEF IInv, TypeOK
    <3>3. want[c] \notin Mine(d)  BY Zenon, <1>1, <2>2 DEF IInv, LockInv
    <3>. QED  BY Zenon, <3>1, <3>2, <3>3 DEF IInv, LockInv, OwnerInv
  <2>. QED  BY Zenon, <2>1, <2>2
<1>7. LockInv'  BY Zenon, <1>3, <1>6 DEF IInv, LockInv
<1>. QED  BY Zenon, <1>2, <1>4, <1>5, <1>7 DEF IInv

\* The test of holding() and the write of lk->cpu in release.
LEMMA ReleaseStartInv ==
  ASSUME IInv, NEW c \in Cpus, NEW l \in Locks, ReleaseStart(c, l)
  PROVE  IInv'
<1>. USE DEF ReleaseStart, cpuvars
<1>1. l \in Mine(c) /\ pc[c] = "run"  BY Zenon DEF Mine
<1>2. \A d \in Cpus : Mine(d)' = Mine(d)  BY Zenon DEF Mine
<1>3. holding(c, l)  BY Zenon, <1>1 DEF IInv, LockInv, OwnerInv, holding
<1>4. TypeOK'  BY Zenon, <1>3 DEF IInv, TypeOK
<1>5. CpuInv(c)'
  <2>1. pc'[c] = "unlock" /\ want'[c] = l  BY Zenon DEF IInv, TypeOK
  <2>. QED  BY Zenon, <1>1, <1>2, <2>1 DEF IInv, CpuInv
<1>6. \A d \in Cpus \ {c} : CpuInv(d)'
  BY Zenon, UntouchedInv DEF Untouched, IInv, TypeOK
<1>7. OwnerInv'
  <2>. SUFFICES ASSUME NEW d \in Cpus, NEW k \in Locks
       PROVE  owner'[k] = d <=> k \in Mine(d) /\ ~(pc'[d] \in {"own", "unlock"} /\ want'[d] = k)
    BY <1>2 DEF OwnerInv
  <2>1. owner'[k] = d <=> k # l /\ owner[k] = d  BY Zenon DEF IInv, TypeOK
  <2>2. CASE d = c
    <3>1. pc'[c] = "unlock" /\ want'[c] = l  BY Zenon DEF IInv, TypeOK
    <3>2. owner[k] = c <=> k \in Mine(c)  BY Zenon, <1>1 DEF IInv, LockInv, OwnerInv
    <3>. QED  BY Zenon, <2>1, <2>2, <3>1, <3>2
  <2>3. CASE d # c
    <3>1. pc'[d] = pc[d] /\ want'[d] = want[d]  BY Zenon, <2>3 DEF IInv, TypeOK
    <3>2. l \notin Mine(d)  BY Zenon, <1>1, <2>3 DEF IInv, LockInv
    <3>. QED  BY <2>1, <3>1, <3>2 DEF IInv, LockInv, OwnerInv
  <2>. QED  BY Zenon, <2>2, <2>3
<1>8. LockInv'  BY Zenon, <1>2, <1>7 DEF IInv, LockInv
<1>. QED  BY Zenon, <1>3, <1>4, <1>5, <1>6, <1>8 DEF IInv

\* The exchange that gives a lock back.
LEMMA UnlockInv ==
  ASSUME IInv, NEW c \in Cpus, Unlock(c)
  PROVE  IInv'
<1>. USE DEF Unlock, cpuvars
<1>1. /\ want[c] \in Mine(c) /\ pc[c] = "unlock" /\ level[c] \in Levels
      /\ Mine(c) \in SUBSET Locks
  BY Zenon, HoldsMine DEF IInv, CpuInv, TypeOK
<1>2. TypeOK'  BY <1>1 DEF IInv, TypeOK, Levels
<1>3. Mine(c)' = Mine(c) \ {want[c]}  BY Zenon, <1>1 DEF Mine, IInv, TypeOK
<1>4. CpuInv(c)'
  <2>1. \A v \in Levels \ {level'[c]} : held'[c][v] = {}  BY <1>1 DEF IInv, CpuInv, TypeOK
  <2>2. ncli[c] = Cardinality(Mine(c)) /\ Cardinality(Mine(c)) \in Nat
    BY <1>1, LocksCounted DEF IInv, CpuInv
  <2>3. Cardinality(Mine(c)') = Cardinality(Mine(c)) - 1  BY <1>1, <1>3, LocksCounted
  <2>4. pc'[c] = "popcli"  BY Zenon DEF IInv, TypeOK
  <2>. QED  BY <2>1, <2>2, <2>3, <2>4 DEF IInv, CpuInv
<1>5. \A d \in Cpus \ {c} : CpuInv(d)' /\ Mine(d)' = Mine(d)
  BY Zenon, UntouchedInv DEF Untouched, IInv, TypeOK
<1>6. LockInv'
  <2>1. \A d, e \in Cpus : d # e => Mine(d)' \cap Mine(e)' = {}
    BY <1>3, <1>5 DEF IInv, LockInv
  <2>2. \A d \in Cpus \ {c} : want[c] \notin Mine(d)  BY Zenon, <1>1 DEF IInv, LockInv
  <2>3. \A d \in Cpus : \A l \in Mine(d)' : locked'[l]
    <3>. SUFFICES ASSUME NEW d \in Cpus, NEW l \in Mine(d)' PROVE locked'[l]
      BY Zenon
    <3>1. l \in Mine(d) /\ l # want[c]  BY Zenon, <1>3, <1>5, <2>2
    <3>2. l \in Locks /\ locked[l]  BY Zenon, <3>1, HoldsMine DEF IInv, LockInv
    <3>. QED  BY Zenon, <3>1, <3>2 DEF IInv, TypeOK
  <2>4. OwnerInv'
    <3>. SUFFICES ASSUME NEW d \in Cpus, NEW l \in Locks
         PROVE  owner[l] = d <=> l \in Mine(d)' /\ ~(pc'[d] \in {"own", "unlock"} /\ want[d] = l)
      BY Zenon DEF OwnerInv
    <3>1. CASE d = c  BY Zenon, <1>1, <1>3, <3>1 DEF IInv, LockInv, OwnerInv, TypeOK
    <3>2. CASE d # c  BY <1>5, <3>2 DEF IInv, LockInv, OwnerInv, TypeOK
    <3>. QED  BY Zenon, <3>1, <3>2
  <2>. QED  BY Zenon, <2>1, <2>3, <2>4 DEF LockInv
<1>. QED  BY Zenon, <1>2, <1>4, <1>5, <1>6 DEF IInv

\* popcli, which may enable interrupts.
LEMMA popcliInv ==
  ASSUME IInv, NEW c \in Cpus, popcli(c)
  PROVE  IInv'
<1>. USE DEF popcli, lockvars
<1>1. /\ Mine(c) \in SUBSET Locks /\ Cardinality(Mine(c)) \in Nat
      /\ ncli[c] = Cardinality(Mine(c)) + 1 /\ intr[c] = 0
      /\ (intena[c] = 1 <=> level[c] = "base")
  BY HoldsMine, LocksCounted DEF IInv, CpuInv
<1>2. ~panicked'
  <2>1. ~(intr[c] = 1 \/ ncli[c] - 1 < 0)  BY <1>1
  <2>. QED  BY <2>1, Zenon
<1>3. ncli'[c] = Cardinality(Mine(c)) /\ ncli'[c] \in Nat  BY <1>1 DEF IInv, TypeOK
<1>4. TypeOK'
  <2>1. ncli' \in [Cpus -> Nat]  BY Zenon, <1>3 DEF IInv, TypeOK
  <2>2. intr' \in [Cpus -> 0..1]  BY DEF IInv, TypeOK
  <2>. QED  BY Zenon, <1>2, <2>1, <2>2 DEF IInv, TypeOK
<1>5. \A d \in Cpus : Mine(d)' = Mine(d)  BY Zenon DEF Mine
<1>6. CpuInv(c)'
  <2>1. pc'[c] = "run"  BY Zenon DEF IInv, TypeOK
  <2>2. intr'[c] = (IF ncli'[c] = 0 /\ intena[c] # 0 THEN 1 ELSE 0)  BY Zenon, <1>1 DEF IInv, TypeOK
  <2>3. intena[c] \in 0..1  BY Zenon DEF IInv, TypeOK
  <2>. QED  BY <1>1, <1>3, <1>5, <2>1, <2>2, <2>3 DEF IInv, CpuInv
<1>7. \A d \in Cpus \ {c} : CpuInv(d)'
  BY Zenon, UntouchedInv DEF Untouched, IInv, TypeOK
<1>8. LockInv'
  <2>1. \A d \in Cpus : pc'[d] \in {"own", "unlock"} <=> pc[d] \in {"own", "unlock"}
    BY Zenon DEF IInv, TypeOK
  <2>2. \A d \in Cpus : pc[d] \in {"own", "unlock"} => want'[d] = want[d]
    BY Zenon DEF IInv, TypeOK
  <2>. QED  BY <1>5, <2>1, <2>2 DEF IInv, LockInv, OwnerInv
<1>. QED  BY Zenon, <1>2, <1>4, <1>6, <1>7, <1>8 DEF IInv

\* An interrupt, and the return from its handler.
LEMMA InterruptInv ==
  ASSUME IInv, NEW c \in Cpus, Interrupt(c) \/ Iret(c)
  PROVE  IInv'
<1>. USE DEF Interrupt, Iret, lockvars
<1>1. /\ pc[c] = "run" /\ level[c] \in Levels /\ level'[c] \in Levels
      /\ Mine(c) \in SUBSET Locks /\ Cardinality(Mine(c)) \in Nat
      /\ ncli[c] = Cardinality(Mine(c))
  BY SMTT(30), HoldsMine, LocksCounted DEF IInv, CpuInv, TypeOK, Levels
<1>2. ncli[c] = 0 /\ Mine(c) = {}
  <2>1. CASE Interrupt(c)
    <3>1. ncli[c] = 0  BY <1>1, <2>1 DEF IInv, CpuInv
    <3>. QED  BY Zenon, <1>1, <3>1, LocksCounted
  <2>2. CASE Iret(c)
    <3>1. Mine(c) = {}  BY Zenon, <2>2 DEF Mine
    <3>. QED  BY Zenon, <1>1, <3>1, LocksCounted
  <2>. QED  BY Zenon, <2>1, <2>2
<1>3. TypeOK'
  <2>1. level' \in [Cpus -> Levels]  BY Zenon DEF IInv, TypeOK, Levels
  <2>2. intr' \in [Cpus -> 0..1]  BY DEF IInv, TypeOK
  <2>. QED  BY Zenon, <2>1, <2>2 DEF IInv, TypeOK
<1>4. \A v \in Levels : held[c][v] = {}  BY Zenon, <1>2 DEF IInv, CpuInv, Mine
<1>5. Mine(c)' = {}  BY Zenon, <1>1, <1>4 DEF Mine
<1>6. CpuInv(c)'
  <2>1. intr'[c] = 1 <=> level'[c] = "base"  BY DEF IInv, TypeOK
  <2>2. ncli'[c] = 0 /\ pc'[c] = "run" /\ held'[c] = held[c]  BY Zenon, <1>1, <1>2
  <2>3. Cardinality(Mine(c)') = 0  BY Zenon, <1>1, <1>2, <1>5
  <2>. QED  BY <1>4, <2>1, <2>2, <2>3 DEF CpuInv
<1>7. \A d \in Cpus \ {c} : CpuInv(d)' /\ Mine(d)' = Mine(d)
  BY Zenon, UntouchedInv DEF Untouched, IInv, TypeOK
<1>8. \A d \in Cpus : Mine(d)' = Mine(d)  BY Zenon, <1>2, <1>5, <1>7
<1>9. LockInv'  BY <1>8 DEF IInv, LockInv, OwnerInv
<1>. QED  BY <1>3, <1>6, <1>7, <1>9 DEF IInv

\* Every step keeps the invariant.
LEMMA NextInv == IInv /\ [Next]_vars => IInv'
<1>. SUFFICES ASSUME IInv, [Next]_vars PROVE IInv'
  BY Zenon
<1>1. CASE UNCHANGED vars
  BY <1>1 DEF IInv, TypeOK, LockInv, OwnerInv, CpuInv, Mine, vars, lockvars, cpuvars
<1>2. CASE Next
  <2>1. PICK c \in Cpus :
          \/ \E l \in Locks : AcquireStart(c, l) \/ ReleaseStart(c, l)
          \/ xchg(c) \/ AcquireEnd(c) \/ Unlock(c) \/ popcli(c)
          \/ Interrupt(c) \/ Iret(c)
    BY Zenon, <1>2 DEF Next
  <2>. QED
    BY Zenon, <2>1, AcquireStartInv, ReleaseStartInv, xchgInv, AcquireEndInv, UnlockInv, popcliInv,
       InterruptInv
<1>. QED  BY Zenon, <1>1, <1>2

\* The invariant holds in every reachable state.
LEMMA Invariance == Spec => []IInv
BY InitInv, NextInv, PTL DEF Spec

\* acquire and release exclude each other on one lock, and holding() never errs,
\* whatever the number of CPUs and locks and however the kernel nests them.
THEOREM LocksExclude == Spec => []MutualExclusion
<1>1. IInv => MutualExclusion
  <2>. SUFFICES ASSUME IInv PROVE MutualExclusion
    BY Zenon
  <2>1. \A c \in Cpus : Holds(c) = Mine(c)  BY Zenon, HoldsMine DEF IInv
  <2>. QED  BY Zenon, <2>1 DEF IInv, LockInv, MutualExclusion
<1>. QED  BY <1>1, Invariance, PTL

\* Interrupts are off while a lock is held or waited for, and as they were before
\* once the last one is released: the matching of pushcli and popcli.
THEOREM InterruptsKept == Spec => []InterruptsExact
<1>1. IInv => InterruptsExact
  <2>. SUFFICES ASSUME IInv, NEW c \in Cpus
       PROVE  /\ Holds(c) # {} \/ pc[c] # "run" =>
                   intr[c] = 0 /\ (level[c] = "handler" => held[c]["base"] = {})
              /\ Holds(c) = {} /\ pc[c] = "run" => (intr[c] = 1 <=> level[c] = "base")
    BY Zenon DEF InterruptsExact
  <2>1. /\ Holds(c) = Mine(c) /\ Cardinality(Mine(c)) \in Nat
        /\ Cardinality(Mine(c)) = 0 <=> Mine(c) = {}
    BY Zenon, HoldsMine, LocksCounted DEF IInv
  <2>2. level[c] = "handler" => held[c]["base"] = {}  BY Zenon DEF IInv, CpuInv, Levels
  <2>3. ncli[c] = 0 <=> Holds(c) = {} /\ pc[c] = "run"
    <3>1. pc[c] \in {"own", "unlock"} => Mine(c) # {}  BY Zenon DEF IInv, CpuInv
    <3>2. pc[c] \in {"run", "spin", "own", "unlock", "popcli"}  BY Zenon DEF IInv, TypeOK
    <3>. QED  BY <2>1, <3>1, <3>2 DEF IInv, CpuInv
  <2>4. ncli[c] \in Nat  BY Zenon DEF IInv, TypeOK
  <2>. QED  BY <2>2, <2>3, <2>4 DEF IInv, CpuInv
<1>. QED  BY <1>1, Invariance, PTL
==============================================================================
